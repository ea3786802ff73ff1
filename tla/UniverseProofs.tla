--------------------------- MODULE UniverseProofs ---------------------------
(***************************************************************************)
(* The store of one symbol, for every universe, every window and month     *)
(* size, and any number of runs, deaths, vendor errors and moved rulings:  *)
(* its window ledger is true; after the store was lost and built anew the  *)
(* reconciliation charges nothing that happened in the last window to the  *)
(* older history, and no loss to anything; what makes a finished symbol    *)
(* due again clears itself; a row claims no floor without a map that has   *)
(* one; a row counts the days that are stored; every map the resolution    *)
(* and the hunt leave may be read; and rebuilding a day twice is           *)
(* rebuilding it once and takes no usable day out of the store.            *)
(***************************************************************************)
EXTENDS Reconcile, NumberLemmas

-----------------------------------------------------------------------------
(* What account_gate_delta promises, for counts of every size.  An era of  *)
(* the store is the days before the fetch window and the days in it.       *)

Together(a, b) ==
    [days |-> a.days + b.days, gated |-> a.gated + b.gated, pass |-> a.pass + b.pass]

(* Two lots of days are a lot of days.                                      *)
LEMMA TogetherIsCounts ==
    ASSUME NEW a \in Counts, NEW b \in Counts
    PROVE  Together(a, b) \in Counts
BY DEF Together, Counts

(* The days of a part that could not be gated, or failed, are among the     *)
(* whole's: at most that many of the window's days did not count.           *)
LEMMA SlackCoversTheWindow ==
    ASSUME NEW older \in Counts, NEW was \in Counts,
           NEW ungated, ungated = AtLeastZero(Together(older, was).days - Together(older, was).gated),
           NEW failures, failures = AtLeastZero(Together(older, was).gated - Together(older, was).pass)
    PROVE  /\ AtLeastZero(was.days - ungated) <= was.gated
           /\ AtLeastZero(AtLeastZero(was.days - ungated) - failures) <= was.pass
<1>1. /\ older.days \in Nat /\ older.gated \in Nat /\ older.pass \in Nat
      /\ was.days \in Nat /\ was.gated \in Nat /\ was.pass \in Nat
      /\ older.pass <= older.gated /\ older.gated <= older.days
      /\ was.pass <= was.gated /\ was.gated <= was.days
  BY DEF Counts
<1>2. /\ ungated = (older.days - older.gated) + (was.days - was.gated)
      /\ failures = (older.gated - older.pass) + (was.gated - was.pass)
  BY <1>1 DEF Together, AtLeastZero
<1>3. AtLeastZero(was.days - ungated) <= was.gated
  BY <1>1, <1>2 DEF AtLeastZero
<1>4. AtLeastZero(AtLeastZero(was.days - ungated) - failures) <= was.pass
  BY <1>1, <1>2, <1>3 DEF AtLeastZero
<1>5. QED BY <1>3, <1>4

(* "If the reported delta lands outside the resulting range, then a day     *)
(* OLDER than the fetch window changed verdict": when the older days count  *)
(* the same in both eras, the delta is accounted for, whatever the window   *)
(* held then and holds now.                                                 *)
THEOREM UnmovedHistoryIsAccounted ==
    ASSUME NEW older \in Counts, NEW was \in Counts, NEW new \in Counts
    PROVE  GateDeltaAccounted(Together(older, was), Together(older, new), new, was.days)
<1> DEFINE first == Together(older, was)
           second == Together(older, new)
           ungated == AtLeastZero(first.days - first.gated)
           failures == AtLeastZero(first.gated - first.pass)
<1>1. /\ older.gated \in Nat /\ older.pass \in Nat
      /\ was.days \in Nat /\ was.gated \in Nat /\ was.pass \in Nat
      /\ new.gated \in Nat /\ new.pass \in Nat
      /\ was.pass <= was.gated /\ was.gated <= was.days
  BY DEF Counts
<1>2. /\ second.gated - first.gated = new.gated - was.gated
      /\ second.pass - first.pass = new.pass - was.pass
  BY <1>1 DEF Together
<1>3. /\ AtLeastZero(was.days - ungated) <= was.gated
      /\ AtLeastZero(AtLeastZero(was.days - ungated) - failures) <= was.pass
  BY SlackCoversTheWindow
<1>4. /\ AtLeastZero(was.days - ungated) \in Int
      /\ AtLeastZero(AtLeastZero(was.days - ungated) - failures) \in Int
  <2>1. ungated \in Int /\ failures \in Int
    BY TogetherIsCounts DEF Counts, AtLeastZero
  <2>2. QED BY <1>1, <2>1 DEF AtLeastZero
<1> HIDE DEF ungated, failures
<1>5. Between(second.gated - first.gated, new.gated - was.days,
              new.gated - AtLeastZero(was.days - ungated))
  BY <1>1, <1>2, <1>3, <1>4 DEF Between
<1>6. Between(second.pass - first.pass, new.pass - was.days,
              new.pass - AtLeastZero(AtLeastZero(was.days - ungated) - failures))
  BY <1>1, <1>2, <1>3, <1>4 DEF Between
<1>7. QED BY <1>5, <1>6 DEF GateDeltaAccounted, ungated, failures

(* The other way round it holds where the sealed era left no slack: when   *)
(* every sealed day was gated and passed, a delta that is accounted for     *)
(* leaves the older days' counts as they were.                              *)
THEOREM AccountedIsUnmovedWithoutSlack ==
    ASSUME NEW older \in Counts, NEW was \in Counts,
           NEW moved \in Counts, NEW new \in Counts,
           Together(older, was).pass = Together(older, was).days,
           GateDeltaAccounted(Together(older, was), Together(moved, new), new, was.days)
    PROVE  moved.gated = older.gated /\ moved.pass = older.pass
<1>1. /\ older.days \in Nat /\ older.gated \in Nat /\ older.pass \in Nat
      /\ was.days \in Nat /\ was.gated \in Nat /\ was.pass \in Nat
      /\ moved.gated \in Nat /\ moved.pass \in Nat /\ new.gated \in Nat /\ new.pass \in Nat
      /\ older.pass <= older.gated /\ older.gated <= older.days
      /\ was.pass <= was.gated /\ was.gated <= was.days
  BY DEF Counts
<1>2. /\ older.pass = older.gated /\ older.gated = older.days
      /\ was.pass = was.gated /\ was.gated = was.days
  BY <1>1 DEF Together
<1>3. /\ AtLeastZero(Together(older, was).days - Together(older, was).gated) = 0
      /\ AtLeastZero(Together(older, was).gated - Together(older, was).pass) = 0
      /\ AtLeastZero(was.days - 0) = was.days
  BY <1>1, <1>2 DEF Together, AtLeastZero
<1>4. /\ Between((moved.gated + new.gated) - (older.gated + was.gated),
                 new.gated - was.days, new.gated - was.days)
      /\ Between((moved.pass + new.pass) - (older.pass + was.pass),
                 new.pass - was.days, new.pass - was.days)
  BY <1>3 DEF GateDeltaAccounted, Together
<1>5. QED BY <1>1, <1>2, <1>4 DEF Between

-----------------------------------------------------------------------------
(* The invariant *)

\* The symbol is being fetched, or will be when its stored days are corrected.
Fetching ==
    pc \in {"map", "mapped", "fetch", "write"} \/ (pc = "rebuild" /\ job.then = "fetch")

\* A window of the plan of the run.
IsWindow(w) == w \in [start : Nat, end : Nat] /\ w.start <= w.end /\ w.end <= End

\* Days are stored of what the vendor has and a run asked for.
StoreInv ==
    /\ sym \in Symbols /\ now \in RunDates
    /\ DOMAIN job = {"work", "map", "left", "table", "then", "window", "hunt"}
    /\ job.then \in {"idle", "fetch", "regate", "verdict", "resettle"}
    /\ Fetching => sym.rows # {}
    /\ DOMAIN bars \subseteq sym.candles
    /\ \A d \in DOMAIN bars : d <= End
    /\ pc = "write" => IsWindow(job.window)
    /\ sealed # None => DOMAIN sealed.passes \subseteq sym.candles
    /\ LedgerIsTrue

\* A row's tally, once it has one, counts days.
CountsDays(r) == "tally" \in DOMAIN r /\ (r.tally # None => r.tally.days \in Nat)

\* The symbol's row, in hand and on disk, and what the sealed report kept of it;
\* a day that passed had a daily row to be gated with.
RowInv ==
    /\ CountsDays(job.work)
    /\ rec # None => CountsDays(rec)
    /\ sealed # None =>
         /\ sealed.facts.days \in Nat
         /\ \A d \in DOMAIN sealed.passes : sealed.passes[d] => d \in sym.rows

-----------------------------------------------------------------------------
(* What a request for a window can come back as *)

(* "no candles" is an answer the vendor gives of a window it has none for:  *)
(* no run of failed attempts is ever taken for it.                          *)
LEMMA EmptyIsSaid == "empty" \notin ListedCandles
<1> SUFFICES ASSUME NEW script \in [1 .. MaxAttempts -> Answers(TRUE)]
             PROVE  CallWithRetry(script) # "empty"
  BY DEF ListedCandles, GetCandles
<1> DEFINE i == SelectInSeq([j \in DOMAIN script |-> AttemptOnce(script[j], Relogins(script, j))],
                            LAMBDA outcome : outcome # "again")
           Ends == {j \in 1 .. MaxAttempts :
                      AttemptOnce(script[j], Relogins(script, j)) # "again"}
<1>1. MaxAttempts \in Nat /\ DOMAIN script = 1 .. MaxAttempts
  BY SmartApiAssumption
<1>2. i = IF Ends # {} THEN Min(Ends) ELSE 0
  <2> DEFINE outcomes == [j \in DOMAIN script |-> AttemptOnce(script[j], Relogins(script, j))]
  <2>1. Len(outcomes) = MaxAttempts
    BY <1>1
  <2>2. Ends = {j \in 1 .. Len(outcomes) : outcomes[j] # "again"}
    BY <1>1, <2>1
  <2> QED
    BY <2>2 DEF SelectInSeq
<1>3. CallWithRetry(script) =
        IF i = 0 THEN "error" ELSE AttemptOnce(script[i], Relogins(script, i))
  BY DEF CallWithRetry
<1>4. ASSUME NEW j \in 1 .. MaxAttempts
      PROVE  AttemptOnce(script[j], Relogins(script, j)) # "empty"
  <2>1. script[j] \in {"busy", "expired", "refused", "candles", "malformed"}
    BY DEF Answers
  <2> QED
    BY <2>1 DEF AttemptOnce
<1>5. Ends # {} => Min(Ends) \in Ends
  <2>1. ASSUME Ends # {} PROVE \E x \in Ends : \A y \in Ends : x <= y
    <3>1. Ends \subseteq 1 .. MaxAttempts
      OBVIOUS
    <3> HIDE DEF Ends
    <3> QED
      BY <1>1, <2>1, <3>1, HasLeast
  <2> QED
    BY <2>1 DEF Min
<1> HIDE DEF i
<1> QED
  BY <1>2, <1>3, <1>4, <1>5

-----------------------------------------------------------------------------
(* Files *)

\* Nothing that LedgerIsTrue speaks of moved, but for days that were stored.
LEMMA MoreDaysKeepTheLedger ==
  ASSUME LedgerIsTrue, UNCHANGED <<sym, ledger>>, DOMAIN bars \subseteq DOMAIN bars'
  PROVE  LedgerIsTrue'
  BY DEF LedgerIsTrue

LEMMA ResolvedWindowKeepsTheLedger ==
  ASSUME LedgerIsTrue, UNCHANGED sym, DOMAIN bars \subseteq DOMAIN bars',
         NEW w, NEW outcome, Resolve(w, outcome),
         outcome = "present" => WindowDaysOf(w) \subseteq DOMAIN bars',
         outcome = "empty" => WindowDaysOf(w) = {}
  PROVE  LedgerIsTrue'
<1> DEFINE row == [end |-> w.end, outcome |-> outcome, fetch |-> Today]
<1>1. ledger' = [x \in DOMAIN ledger \cup {w.start} |->
                   IF x = w.start THEN row ELSE ledger[x]]
  BY DEF Resolve, Override
<1>2. ASSUME NEW x \in DOMAIN ledger'
      PROVE  LET days == (x .. ledger'[x].end) \cap sym.candles
             IN /\ ledger'[x].outcome = "present" => days \subseteq DOMAIN bars'
                /\ ledger'[x].outcome = "empty" => days = {}
  <2>1. CASE x = w.start
    <3>1. ledger'[x] = row
      BY <1>1, <2>1
    <3>2. ledger'[x].end = w.end /\ ledger'[x].outcome = outcome
      BY <3>1
    <3> QED
      BY <2>1, <3>2 DEF WindowDaysOf
  <2>2. CASE x # w.start
    <3>1. x \in DOMAIN ledger /\ ledger'[x] = ledger[x]
      BY <1>1, <2>2
    <3> QED
      BY <3>1 DEF LedgerIsTrue
  <2> QED
    BY <2>1, <2>2
<1> QED
  BY <1>2 DEF LedgerIsTrue

-----------------------------------------------------------------------------
(* Every step keeps the invariant *)

LEMMA RunDatesAreNumbers ==
  ASSUME NEW r \in RunDates
  PROVE  r[1] \in Nat \ {0} /\ r[2] \in Nat
  BY UniverseAssumption

\* The next window to fetch is one the plan of the run owes.
LEMMA OldestWindowIsOwed ==
  ASSUME StoreInv, pc = "fetch", Owed # {},
         NEW w, w = CHOOSE x \in Owed : \A y \in Owed : x.start <= y.start
  PROVE  IsWindow(w)
<1>1. End \in Nat
  BY RunDatesAreNumbers DEF StoreInv, End
<1>2. Clamp \in Nat \ {0}
  <2>1. PICK row \in sym.rows : TRUE
    BY DEF StoreInv, Fetching
  <2>2. sym.rows \subseteq Nat \ {0}
    BY UniverseAssumption DEF StoreInv
  <2> DEFINE Early == sym.rows \cap (1 .. row)
  <2>3. PICK x \in Early : \A y \in Early : x <= y
    <3>1. Early \subseteq 1 .. row /\ row \in Early
      BY <2>1, <2>2
    <3> QED
      BY <2>1, <2>2, <3>1, HasLeast
  <2>4. \A y \in sym.rows : x <= y
    <3> SUFFICES ASSUME NEW y \in sym.rows PROVE x <= y
      OBVIOUS
    <3>1. CASE y \in Early
      BY <2>3, <3>1
    <3>2. CASE y \notin Early
      BY <2>1, <2>2, <2>3, <3>2
    <3> QED
      BY <3>1, <3>2
  <2>5. Clamp \in sym.rows
    BY <2>3, <2>4 DEF Clamp, Min
  <2> QED
    BY <2>2, <2>5
<1>3. ASSUME NEW x \in Owed
      PROVE  x.start \in 1 .. End /\ IsWindow(x)
  <2>1. x \in PlanWindows(Clamp, End)
    BY DEF Owed, Pending
  <2>2. PICK d \in Clamp .. End : x = [start |-> d, end |-> Min({d + WindowDays - 1, End})]
    BY <2>1 DEF PlanWindows
  <2>3. d + WindowDays - 1 \in Int
    BY <1>1, <1>2, <2>2, MinuteStoreAssumption
  <2>4. /\ Min({d + WindowDays - 1, End}) \in Nat /\ Min({d + WindowDays - 1, End}) <= End
        /\ d <= Min({d + WindowDays - 1, End})
    <3> DEFINE a == d + WindowDays - 1
    <3>1. \E z \in {a, End} : \A y \in {a, End} : z =< y
      BY <1>1, <2>3
    <3>2. Min({a, End}) \in {a, End} /\ \A y \in {a, End} : Min({a, End}) =< y
      BY <3>1 DEF Min
    <3> HIDE DEF a
    <3>3. d \in Nat \ {0} /\ d <= a /\ d <= End
      BY <1>1, <1>2, <2>2, MinuteStoreAssumption DEF a
    <3> QED
      BY <1>1, <2>3, <3>2, <3>3 DEF a
  <2> DEFINE e == Min({d + WindowDays - 1, End})
  <2>5. d \in 1 .. End
    BY <1>1, <1>2, <2>2
  <2>6. e \in Nat /\ e <= End /\ d <= e /\ x = [start |-> d, end |-> e]
    BY <2>2, <2>4
  <2> HIDE DEF e
  <2> QED
    BY <1>1, <2>5, <2>6 DEF IsWindow
<1>4. \E x \in Owed : \A y \in Owed : x.start <= y.start
  <2> DEFINE Starts == {x.start : x \in Owed}
  <2>1. Starts \subseteq 1 .. End /\ Starts # {}
    BY <1>3
  <2> HIDE DEF Starts
  <2>2. PICK least \in Starts : \A y \in Starts : least <= y
    BY <1>1, <2>1, HasLeast
  <2> USE DEF Starts
  <2>3. PICK x \in Owed : x.start = least
    OBVIOUS
  <2> QED
    BY <2>2, <2>3
<1>5. w \in Owed
  BY <1>4
<1> QED
  BY <1>3, <1>5

LEMMA StoreInit == RecoveryInit => StoreInv
<1> SUFFICES ASSUME RecoveryInit PROVE StoreInv
  OBVIOUS
<1>1. now \in RunDates
  <2>1. \A r \in RunDates : r[1] \in Nat \ {0}
    BY UniverseAssumption
  <2>2. PICK r \in RunDates : TRUE
    BY UniverseAssumption
  <2> DEFINE Ends == {q[1] : q \in RunDates} \cap (1 .. r[1])
  <2>3. PICK least \in Ends : \A y \in Ends : least <= y
    <3>1. Ends \subseteq 1 .. r[1] /\ r[1] \in Ends /\ r[1] \in Nat
      BY <2>1, <2>2
    <3> HIDE DEF Ends
    <3> QED
      BY <3>1, HasLeast
  <2>4. PICK q \in RunDates : q[1] = least
    BY <2>3
  <2>5. \A y \in RunDates : q[1] <= y[1]
    <3> SUFFICES ASSUME NEW y \in RunDates PROVE q[1] <= y[1]
      OBVIOUS
    <3>1. CASE y[1] \in Ends
      BY <2>3, <2>4, <3>1
    <3>2. CASE y[1] \notin Ends
      BY <2>1, <2>2, <2>3, <2>4, <3>2
    <3> QED
      BY <3>1, <3>2
  <2> QED
    BY <2>4, <2>5 DEF RecoveryInit, Init
<1>2. DOMAIN bars = {} /\ DOMAIN ledger = {}
  BY DEF RecoveryInit, Init
<1> QED
  BY <1>1, <1>2 DEF RecoveryInit, Init, StoreInv, Fetching, LedgerIsTrue, NoJob

\* Most steps move neither the files nor the ledger.
LEMMA OtherStepsKeep ==
  ASSUME StoreInv, UNCHANGED <<sym, now, bars, ledger, sealed>>,
         DOMAIN job' = DOMAIN job,
         job'.then \in {"idle", "fetch", "regate", "verdict", "resettle"},
         Fetching' => sym.rows # {}, pc' # "write"
  PROVE  StoreInv'
<1>1. LedgerIsTrue'
  BY DEF StoreInv, LedgerIsTrue
<1> QED
  BY <1>1 DEF StoreInv, End

LEMMA StartRunKeeps == ASSUME StoreInv, StartRun, UNCHANGED sealed PROVE StoreInv'
<1>1. PICK r \in RunDates : r[1] >= now[1] /\ now' = r
  BY DEF StartRun
<1>2. UNCHANGED <<sym, bars, ledger>> /\ pc' \in {"idle", "peers", "plan"} /\ job' = NoJob
  BY DEF StartRun, disk
<1>3. \A d \in DOMAIN bars : d \in Nat /\ d <= now'[1]
  <2>1. now[1] \in Nat /\ r[1] \in Nat
    BY RunDatesAreNumbers DEF StoreInv
  <2>2. sym.candles \subseteq Nat
    BY UniverseAssumption DEF StoreInv
  <2> QED
    BY <1>1, <2>1, <2>2 DEF StoreInv, End
<1>4. LedgerIsTrue'
  BY <1>2 DEF StoreInv, LedgerIsTrue
<1> QED
  BY <1>1, <1>2, <1>3, <1>4 DEF StoreInv, Fetching, End, NoJob

LEMMA PlanKeeps == ASSUME StoreInv, Plan, UNCHANGED sealed PROVE StoreInv'
<1>1. UNCHANGED <<sym, now, bars, ledger>>
  BY DEF Plan, disk
<1>2. pc' # "write" /\ pc' # "rebuild"
  BY DEF Plan
<1>4. DOMAIN job' = DOMAIN job /\ job'.then = job.then
  BY DEF Plan, Working, StoreInv
<1>3. Fetching' => sym.rows # {}
  BY <1>2 DEF Plan, Fetching
<1>5. job.then \in {"idle", "fetch", "regate", "verdict", "resettle"}
  BY DEF StoreInv
<1> QED
  BY <1>1, <1>2, <1>3, <1>4, <1>5, OtherStepsKeep

LEMMA FetchWindowKeeps == ASSUME StoreInv, FetchWindow, UNCHANGED sealed PROVE StoreInv'
<1>1. UNCHANGED <<sym, now, bars>> /\ pc = "fetch" /\ sym.rows # {}
  BY DEF FetchWindow, StoreInv, Fetching
<1>2. CASE Owed = {}
  BY <1>1, <1>2, OtherStepsKeep DEF FetchWindow, Fetching, StoreInv
<1>3. CASE Owed # {}
  <2> DEFINE w == CHOOSE x \in Owed : \A y \in Owed : x.start <= y.start
  <2>1. IsWindow(w)
    BY <1>1, <1>3, OldestWindowIsOwed
  <2> HIDE DEF w
  <2>2. PICK got \in IF WindowDaysOf(w) = {} THEN UnlistedCandles ELSE ListedCandles :
          \/ /\ got = "error" /\ Resolve(w, "error") /\ UNCHANGED pc
             /\ job' = [job EXCEPT !.left = @ \cup {w}]
          \/ /\ got = "empty" /\ Resolve(w, "empty") /\ UNCHANGED pc
             /\ job' = [job EXCEPT !.left = @ \cup {w}]
          \/ /\ got = "present" /\ pc' = "write"
             /\ job' = [job EXCEPT !.window = w] /\ UNCHANGED ledger
    BY <1>3 DEF FetchWindow, w
  <2>3. CASE got = "present"
    <3>1. pc' = "write" /\ job' = [job EXCEPT !.window = w] /\ UNCHANGED ledger
      BY <2>2, <2>3
    <3>2. job'.window = w /\ DOMAIN job' = DOMAIN job /\ job'.then = job.then
      BY <3>1 DEF StoreInv
    <3>3. LedgerIsTrue'
      BY <1>1, <3>1, MoreDaysKeepTheLedger DEF StoreInv
    <3> QED
      BY <1>1, <2>1, <3>1, <3>2, <3>3 DEF StoreInv, Fetching, IsWindow, End
  <2>4. CASE got \in {"error", "empty"}
    <3>1. Resolve(w, got) /\ pc' = "fetch" /\ job' = [job EXCEPT !.left = @ \cup {w}]
      BY <1>1, <2>2, <2>4
    <3>4. DOMAIN job' = DOMAIN job /\ job'.then = job.then
      BY <3>1 DEF StoreInv
    <3>2. got = "empty" => WindowDaysOf(w) = {}
      BY <2>2, EmptyIsSaid
    <3>3. LedgerIsTrue'
      BY <1>1, <2>4, <3>1, <3>2, ResolvedWindowKeepsTheLedger DEF StoreInv
    <3> QED
      BY <1>1, <3>1, <3>3, <3>4 DEF StoreInv, Fetching, End
  <2> QED
    BY <2>2, <2>3, <2>4
<1> QED
  BY <1>2, <1>3

LEMMA WriteMonthKeeps == ASSUME StoreInv, WriteMonth, UNCHANGED sealed PROVE StoreInv'
<1>1. UNCHANGED <<sym, now>> /\ pc = "write" /\ sym.rows # {}
      /\ job.window.end \in Nat /\ job.window.end <= End
  BY DEF WriteMonth, StoreInv, Fetching, IsWindow
<1>2. CASE Unwritten = {}
  <2>1. Resolve(job.window, "present") /\ pc' = "fetch" /\ UNCHANGED bars
    BY <1>2 DEF WriteMonth
  <2>4. DOMAIN job' = DOMAIN job /\ job'.then = job.then
    BY <1>2 DEF WriteMonth, StoreInv
  <2>2. WindowDaysOf(job.window) \subseteq DOMAIN bars
    BY <1>2 DEF Unwritten
  <2>3. LedgerIsTrue'
    <3> DEFINE w == job.window
    <3>1. Resolve(w, "present") /\ WindowDaysOf(w) \subseteq DOMAIN bars'
      BY <2>1, <2>2
    <3> HIDE DEF w
    <3> QED
      BY <1>1, <2>1, <3>1, ResolvedWindowKeepsTheLedger DEF StoreInv
  <2> QED
    BY <1>1, <2>1, <2>3, <2>4 DEF StoreInv, Fetching, End
<1>3. CASE Unwritten # {}
  <2> DEFINE month == {d \in WindowDaysOf(job.window) : MonthOf(d) = MonthOf(Min(Unwritten))}
  <2>1. bars' = Override(bars, [d \in month |-> Raw(d)]) /\ UNCHANGED <<ledger, job, pc>>
    BY <1>3 DEF WriteMonth
  <2>2. DOMAIN bars' = DOMAIN bars \cup month
    BY <2>1 DEF Override
  <2>3. month \subseteq sym.candles /\ \A d \in month : d <= End
    <3>1. End \in Nat
      BY RunDatesAreNumbers DEF StoreInv, End
    <3>2. sym.candles \subseteq Nat
      BY UniverseAssumption DEF StoreInv
    <3>3. \A d \in month : d \in sym.candles /\ d <= job.window.end
      BY DEF WindowDaysOf
    <3> HIDE DEF month
    <3> QED
      BY <1>1, <3>1, <3>2, <3>3
  <2> HIDE DEF month
  <2>4. LedgerIsTrue'
    BY <1>1, <2>1, <2>2, MoreDaysKeepTheLedger DEF StoreInv
  <2> QED
    BY <1>1, <2>1, <2>2, <2>3, <2>4 DEF StoreInv, Fetching, IsWindow, End
<1> QED
  BY <1>2, <1>3

LEMMA RebuildDayKeeps == ASSUME StoreInv, RebuildDay, UNCHANGED sealed PROVE StoreInv'
<1>1. UNCHANGED <<sym, now, ledger>> /\ pc = "rebuild" /\ DOMAIN bars' = DOMAIN bars
  BY DEF RebuildDay
<1>2. /\ pc' = job.then \/ pc' = "rebuild"
      /\ DOMAIN job' = DOMAIN job /\ job'.then = job.then
  BY DEF RebuildDay, StoreInv
<1>3. Fetching' => sym.rows # {}
  BY <1>1, <1>2 DEF StoreInv, Fetching
<1>4. LedgerIsTrue'
  BY <1>1, MoreDaysKeepTheLedger DEF StoreInv
<1> QED
  BY <1>1, <1>2, <1>3, <1>4 DEF StoreInv, End

(* The steps between: maps, gates, recovery passes, hunts and the row.      *)
LEMMA StepsBetweenKeep ==
  ASSUME StoreInv, UNCHANGED sealed,
         \/ BuildMapForIngest \/ UseMap \/ GateSymbol \/ Reroute \/ GateAgain
         \/ StartHunt \/ HuntOneRound \/ PromoteEras \/ Harvest \/ JudgeHunt
         \/ RecordSymbol \/ FinishPeers \/ StartRegate \/ Resettle \/ Die \/ RulingMoves
  PROVE  StoreInv'
<1> DEFINE Thens == {"idle", "fetch", "regate", "verdict", "resettle"}
           Keeps == /\ UNCHANGED <<sym, now, bars, ledger>>
                    /\ DOMAIN job' = DOMAIN job /\ job'.then \in Thens
                    /\ Fetching' => sym.rows # {}
                    /\ pc' # "write"
<1>0. DOMAIN job = {"work", "map", "left", "table", "then", "window", "hunt"} /\ job.then \in Thens
  BY DEF StoreInv
<1>1. CASE BuildMapForIngest
  <2>1. UNCHANGED <<sym, now, bars, ledger>> /\ pc = "map" /\ pc' \in {"mapped", "record"}
    BY <1>1 DEF BuildMapForIngest
  <2>2. DOMAIN job' = DOMAIN job /\ job'.then = job.then
    BY <1>0, <1>1 DEF BuildMapForIngest, Working
  <2> QED
    BY <1>0, <2>1, <2>2, OtherStepsKeep DEF StoreInv, Fetching
<1>2. CASE UseMap
  <2>1. UNCHANGED <<sym, now, bars, ledger>> /\ pc = "mapped" /\ pc' = "rebuild"
    BY <1>2 DEF UseMap, disk
  <2>2. DOMAIN job' = DOMAIN job /\ job'.then = "fetch"
    BY <1>0, <1>2 DEF UseMap, Rebuild
  <2> QED
    BY <1>0, <2>1, <2>2, OtherStepsKeep DEF StoreInv, Fetching
<1>3. CASE GateSymbol \/ GateAgain \/ JudgeHunt
  <2>1. UNCHANGED <<sym, now, bars, ledger>> /\ pc' \in {"reroute", "hunt", "record"}
    BY <1>3 DEF GateSymbol, GateAgain, JudgeHunt, AfterSettling, disk
  <2>2. DOMAIN job' = DOMAIN job /\ job'.then = job.then
    BY <1>0, <1>3 DEF GateSymbol, GateAgain, JudgeHunt, Working
  <2> QED
    BY <1>0, <2>1, <2>2, OtherStepsKeep DEF Fetching
<1>4. CASE Reroute
  <2>1. UNCHANGED <<sym, now, bars, ledger>>
    BY <1>4 DEF Reroute
  <2>2. /\ DOMAIN job' = DOMAIN job
        /\ \/ pc' \in {"hunt", "record"} /\ job'.then = job.then
           \/ pc' = "rebuild" /\ job'.then = "regate"
    BY <1>0, <1>4 DEF Reroute, Working, Rebuild
  <2> QED
    BY <1>0, <2>1, <2>2, OtherStepsKeep DEF Fetching
<1>5. CASE StartHunt
  <2>1. UNCHANGED <<sym, now, bars, ledger>> /\ pc' \in {"record", "round"}
    BY <1>5 DEF StartHunt, disk
  <2>2. DOMAIN job' = DOMAIN job /\ job'.then = job.then
    BY <1>0, <1>5 DEF StartHunt, Working
  <2> QED
    BY <1>0, <2>1, <2>2, OtherStepsKeep DEF Fetching
<1>6. CASE HuntOneRound
  <2>1. UNCHANGED <<sym, now, bars, ledger>> /\ pc' \in {"record", "harvest", "promote"}
    BY <1>6 DEF HuntOneRound, HuntStops, disk
  <2>2. DOMAIN job' = DOMAIN job /\ job'.then = job.then
    BY <1>0, <1>6 DEF HuntOneRound, HuntStops
  <2> QED
    BY <1>0, <2>1, <2>2, OtherStepsKeep DEF Fetching
<1>7. CASE PromoteEras
  <2>1. UNCHANGED <<sym, now, bars, ledger>> /\ pc' \in {"record", "harvest", "round"}
    BY <1>7 DEF PromoteEras, HuntStops, disk
  <2>2. DOMAIN job' = DOMAIN job /\ job'.then = job.then
    BY <1>0, <1>7 DEF PromoteEras, HuntStops
  <2> QED
    BY <1>0, <2>1, <2>2, OtherStepsKeep DEF Fetching
<1>8. CASE Harvest
  <2>1. UNCHANGED <<sym, now, bars, ledger>>
    BY <1>8 DEF Harvest
  <2>2. /\ DOMAIN job' = DOMAIN job
        /\ \/ pc' = "record" /\ job'.then = job.then
           \/ pc' = "rebuild" /\ job'.then = "verdict"
    BY <1>0, <1>8 DEF Harvest, Working, Rebuild
  <2> QED
    BY <1>0, <2>1, <2>2, OtherStepsKeep DEF Fetching
<1>9. CASE RecordSymbol \/ FinishPeers \/ Resettle \/ Die
  <2>1. UNCHANGED <<sym, now, bars, ledger>> /\ pc' \in {"idle", "peers"}
    BY <1>9 DEF RecordSymbol, FinishPeers, Resettle, Die, disk
  <2>2. job' = NoJob \/ job' = job
    BY <1>9 DEF RecordSymbol, FinishPeers, Resettle, Die
  <2>3. DOMAIN job' = DOMAIN job /\ job'.then \in Thens
    BY <1>0, <2>2 DEF NoJob
  <2> QED
    BY <2>1, <2>3, OtherStepsKeep DEF Fetching
<1>10. CASE StartRegate
  <2>1. UNCHANGED <<sym, now, bars, ledger>>
    BY <1>10 DEF StartRegate
  <2>2. /\ DOMAIN job' = DOMAIN job
        /\ \/ pc' = "resettle" /\ job'.then = job.then
           \/ pc' = "rebuild" /\ job'.then = "resettle"
    BY <1>0, <1>10 DEF StartRegate, Working, Rebuild
  <2> QED
    BY <1>0, <2>1, <2>2, OtherStepsKeep DEF Fetching
<1>11. CASE RulingMoves
  <2>1. UNCHANGED <<sym, now, bars, ledger, pc, job>> /\ pc = "idle"
    BY <1>11 DEF RulingMoves, disk
  <2> QED
    BY <1>0, <2>1, OtherStepsKeep DEF Fetching
<1> QED
  BY <1>1, <1>2, <1>3, <1>4, <1>5, <1>6, <1>7, <1>8, <1>9, <1>10, <1>11

LEMMA IncidentKeeps == ASSUME StoreInv, Incident PROVE StoreInv'
<1>1. UNCHANGED <<sym, now, pc, job>> /\ pc = "idle" /\ bars' = <<>> /\ ledger' = <<>>
  BY DEF Incident
<1>2. DOMAIN bars' = {} /\ DOMAIN ledger' = {}
  BY <1>1
<1>3. DOMAIN sealed'.passes = DOMAIN bars
  BY DEF Incident
<1> QED
  BY <1>1, <1>2, <1>3 DEF StoreInv, Fetching, LedgerIsTrue, End

LEMMA StoreNext == StoreInv /\ [RecoveryNext]_allVars => StoreInv'
<1> SUFFICES ASSUME StoreInv, [RecoveryNext]_allVars PROVE StoreInv'
  OBVIOUS
<1>1. CASE UNCHANGED allVars
  BY <1>1 DEF allVars, vars, StoreInv, Fetching, LedgerIsTrue, IsWindow, End
<1>2. CASE Incident
  BY <1>2, IncidentKeeps
<1>3. CASE Next /\ UNCHANGED sealed
  BY <1>3, StartRunKeeps, PlanKeeps, FetchWindowKeeps, WriteMonthKeeps, RebuildDayKeeps,
     StepsBetweenKeep DEF Next, Step
<1> QED
  BY <1>1, <1>2, <1>3 DEF RecoveryNext

LEMMA StoreAlways == RecoverySpec => []StoreInv
<1> QED
  BY StoreInit, StoreNext, PTL DEF RecoverySpec

(* Whatever was interrupted, a window the ledger calls present has every    *)
(* day the vendor has of it in the store, and one it calls empty has none:  *)
(* for every plan of windows and month files, and across the loss of the    *)
(* whole store (universe_backfill.process_symbol, minute_backfill,          *)
(* smartapi_client._call_with_retry).                                       *)
THEOREM WindowsAreTrue == RecoverySpec => []LedgerIsTrue
<1>1. StoreInv => LedgerIsTrue
  BY DEF StoreInv
<1> QED
  BY <1>1, StoreAlways, PTL

-----------------------------------------------------------------------------
(* The rows of the reports *)

LEMMA StoreIsFinite ==
  ASSUME StoreInv
  PROVE  /\ IsFiniteSet(DOMAIN bars) /\ DOMAIN bars \subseteq Nat \ {0}
         /\ Cardinality(DOMAIN bars) \in Nat
         /\ sealed # None => /\ IsFiniteSet(DOMAIN sealed.passes)
                             /\ DOMAIN sealed.passes \subseteq Nat \ {0}
<1>1. IsFiniteSet(sym.candles) /\ sym.candles \subseteq Nat \ {0}
  BY UniverseAssumption DEF StoreInv
<1>2. \A T \in SUBSET sym.candles : IsFiniteSet(T) /\ Cardinality(T) \in Nat
  BY <1>1, FS_Subset, FS_CardinalityType
<1>3. DOMAIN bars \in SUBSET sym.candles
      /\ (sealed # None => DOMAIN sealed.passes \in SUBSET sym.candles)
  BY DEF StoreInv
<1> QED
  BY <1>1, <1>2, <1>3

\* The same tally as another row.
AsCounted(x, r) == "tally" \in DOMAIN x /\ x.tally = r.tally

\* What the passes write into a row leaves its tally alone.
LEMMA PassesKeepTheTally ==
  ASSUME NEW r, NEW x, CountsDays(r), AsCounted(x, r)
  PROVE  CountsDays(x)
  BY DEF CountsDays, AsCounted

LEMMA MarksKeepTheTally ==
  ASSUME NEW r, CountsDays(r)
  PROVE  /\ \A status : AsCounted([r EXCEPT !.status = status], r)
         /\ \A tried : AsCounted([r EXCEPT !.rerouted = tried], r)
         /\ \A hunted, floors : AsCounted([r EXCEPT !.hunted = hunted, !.floors = floors], r)
         /\ \A route, by : AsCounted([r EXCEPT !.route = route, !.byRecovery = by], r)
         /\ \A events : AsCounted(RecoverOne(r, events), r)
         /\ \A m : AsCounted(ClaimFloors(r, m), r) /\ AsCounted(Reopened(r, m), r)
  BY DEF CountsDays, AsCounted, ClaimFloors, Reopened, RecoverOne

LEMMA SettledCountsDays ==
  ASSUME StoreInv, NEW r, CountsDays(r)
  PROVE  CountsDays(Settled(r))
<1>1. Tally(sym, Today, bars).days \in Nat
  BY StoreIsFinite DEF Tally
<1> QED
  BY <1>1 DEF CountsDays, Settled, ApplyTally

LEMMA CarriedCountsDays ==
  /\ \A status : CountsDays(Carried([NewRecord EXCEPT !.status = status]))
  /\ \A route : CountsDays(Carried([NewRecord EXCEPT !.route = route]))
  BY DEF CountsDays, Carried, NewRecord

LEMMA NewRowCountsDays == CountsDays(NoJob.work)
  BY DEF CountsDays, NoJob, NewRecord

LEMMA RowInit == RecoveryInit => RowInv
  BY NewRowCountsDays DEF RecoveryInit, Init, RowInv

\* The steps that leave both rows, or put a new one in hand.
LEMMA RowInHandKeeps ==
  ASSUME RowInv, UNCHANGED <<sym, rec, sealed>>, CountsDays(job'.work)
  PROVE  RowInv'
  BY DEF RowInv

LEMMA RowStepKeeps ==
  ASSUME StoreInv, RowInv, Next, UNCHANGED sealed
  PROVE  RowInv'
<1>0. /\ "work" \in DOMAIN job /\ DOMAIN job = {"work", "map", "left", "table", "then", "window", "hunt"}
      /\ CountsDays(job.work)
  BY DEF StoreInv, RowInv
<1>1. CASE StartRun
  <2>1. UNCHANGED <<sym, rec>> /\ job' = NoJob
    BY <1>1 DEF StartRun, disk
  <2>2. CountsDays(job'.work)
    BY <2>1 DEF NoJob, NewRecord, CountsDays
  <2> QED
    BY <2>1, <2>2, RowInHandKeeps
<1>2. CASE Plan
  <2>1. UNCHANGED <<sym, rec>>
    BY <1>2 DEF Plan, disk
  <2>2. \/ \E status : job'.work = Carried([NewRecord EXCEPT !.status = status])
        \/ \E route : job'.work = Carried([NewRecord EXCEPT !.route = route])
    BY <1>0, <1>2 DEF Plan, Working
  <2>3. CountsDays(job'.work)
    BY <2>2, CarriedCountsDays
  <2> QED
    BY <2>1, <2>3, RowInHandKeeps
<1>3. CASE BuildMapForIngest
  <2>1. UNCHANGED <<sym, rec>>
    BY <1>3 DEF BuildMapForIngest
  <2>2. PICK status, m : \/ job'.work = [job.work EXCEPT !.status = status]
                         \/ job'.work = Reopened(job.work, m)
    BY <1>0, <1>3 DEF BuildMapForIngest, Working
  <2>4. AsCounted(job'.work, job.work)
    <3>1. /\ AsCounted([job.work EXCEPT !.status = status], job.work)
          /\ AsCounted(Reopened(job.work, m), job.work)
      BY <1>0, MarksKeepTheTally
    <3> QED
      BY <2>2, <3>1
  <2>3. CountsDays(job'.work)
    BY <1>0, <2>4, PassesKeepTheTally
  <2> QED
    BY <2>1, <2>3, RowInHandKeeps
<1>4. CASE UseMap
  <2>1. UNCHANGED <<sym, rec>>
    BY <1>4 DEF UseMap, disk
  <2>2. AsCounted(job'.work, job.work)
    BY <1>0, <1>4 DEF UseMap, Rebuild, CountsDays, AsCounted
  <2>3. CountsDays(job'.work)
    BY <1>0, <2>2, PassesKeepTheTally
  <2> QED
    BY <2>1, <2>3, RowInHandKeeps
<1>5. CASE RebuildDay \/ FetchWindow \/ WriteMonth \/ HuntOneRound \/ PromoteEras \/ FinishPeers \/ RulingMoves
  <2>1. UNCHANGED <<sym, rec>>
    BY <1>5 DEF RebuildDay, FetchWindow, WriteMonth, HuntOneRound, PromoteEras, HuntStops,
                FinishPeers, RulingMoves, disk
  <2>2. job'.work = job.work
    <3>1. CASE RebuildDay
      BY <1>0, <3>1 DEF RebuildDay
    <3>2. CASE FetchWindow
      BY <1>0, <3>2 DEF FetchWindow
    <3>3. CASE WriteMonth
      BY <1>0, <3>3 DEF WriteMonth
    <3>4. CASE HuntOneRound \/ PromoteEras
      BY <1>0, <3>4 DEF HuntOneRound, PromoteEras, HuntStops
    <3>5. CASE FinishPeers \/ RulingMoves
      BY <3>5 DEF FinishPeers, RulingMoves
    <3> QED
      BY <1>5, <3>1, <3>2, <3>3, <3>4, <3>5
  <2> QED
    BY <1>0, <2>1, <2>2, RowInHandKeeps
<1>6. CASE GateSymbol \/ GateAgain \/ JudgeHunt
  <2>1. UNCHANGED <<sym, rec>>
    BY <1>6 DEF GateSymbol, GateAgain, JudgeHunt, disk
  <2>2. CountsDays(Settled(job.work))
    BY <1>0, SettledCountsDays
  <2>3. AsCounted(job'.work, Settled(job.work))
    <3> DEFINE settled == Settled(job.work)
    <3>1. "tally" \in DOMAIN settled
      BY <2>2 DEF CountsDays
    <3> HIDE DEF settled
    <3>2. \/ \E errors : job'.work = [settled EXCEPT !.errors = errors]
          \/ job'.work = settled
      BY <1>0, <1>6 DEF GateSymbol, GateAgain, JudgeHunt, Working, settled
    <3> QED
      BY <3>1, <3>2 DEF AsCounted, settled
  <2>4. CountsDays(job'.work)
    BY <2>2, <2>3, PassesKeepTheTally
  <2> QED
    BY <2>1, <2>4, RowInHandKeeps
<1>7. CASE Reroute
  <2>1. UNCHANGED <<sym, rec>>
    BY <1>7 DEF Reroute
  <2> DEFINE tried == [job.work EXCEPT !.rerouted = TRUE]
             routed(m) == [Reopened(tried, m) EXCEPT !.route = "map-required", !.byRecovery = TRUE]
  <2>4. \/ job' = Working(tried)
        \/ \E m : job' = Rebuild(routed(m), m, TRUE, "regate")
    BY <1>7 DEF Reroute
  <2>2. PICK m : job'.work = tried \/ job'.work = routed(m)
    <3> HIDE DEF tried, routed
    <3> QED
      BY <1>0, <2>4 DEF Working, Rebuild
  <2>3. CountsDays(job'.work)
    <3>1. CountsDays(tried)
      BY <1>0, MarksKeepTheTally, PassesKeepTheTally
    <3>2. CountsDays(Reopened(tried, m))
      <4> HIDE DEF tried
      <4> QED
        BY <3>1, MarksKeepTheTally, PassesKeepTheTally
    <3>3. CountsDays(routed(m))
      <4> DEFINE reopened == Reopened(tried, m)
      <4>1. CountsDays(reopened)
        BY <3>2
      <4> HIDE DEF reopened
      <4>2. CountsDays([reopened EXCEPT !.route = "map-required", !.byRecovery = TRUE])
        BY <4>1, MarksKeepTheTally, PassesKeepTheTally
      <4> QED
        BY <4>2 DEF reopened
    <3> HIDE DEF tried, routed
    <3> QED
      BY <2>2, <3>1, <3>3
  <2> QED
    BY <2>1, <2>3, RowInHandKeeps
<1>8. CASE StartHunt
  <2>1. UNCHANGED <<sym, rec>>
    BY <1>8 DEF StartHunt, disk
  <2> DEFINE marked == [job.work EXCEPT !.hunted = TRUE, !.floors = ruling.floors]
  <2>2. job'.work \in {marked, job.work}
    BY <1>0, <1>8 DEF StartHunt, Working
  <2>4. CountsDays(marked)
    BY <1>0, MarksKeepTheTally, PassesKeepTheTally
  <2> HIDE DEF marked
  <2>3. CountsDays(job'.work)
    BY <1>0, <2>2, <2>4
  <2> QED
    BY <2>1, <2>3, RowInHandKeeps
<1>9. CASE Harvest
  <2>1. UNCHANGED <<sym, rec>>
    BY <1>9 DEF Harvest
  <2> DEFINE marked == [job.work EXCEPT !.hunted = TRUE, !.floors = ruling.floors]
             done == ClaimFloors(marked, job.hunt.start)
  <2>2. CountsDays(done)
    <3>1. CountsDays(marked)
      BY <1>0, MarksKeepTheTally, PassesKeepTheTally
    <3> HIDE DEF marked
    <3> QED
      BY <3>1, MarksKeepTheTally, PassesKeepTheTally
  <2>6. \/ job' = Working(done)
        \/ \E m : job' = Rebuild(ClaimFloors(done, m), m, FALSE, "verdict")
    BY <1>9 DEF Harvest
  <2>4. PICK m : job'.work = done \/ job'.work = ClaimFloors(done, m)
    <3> HIDE DEF done
    <3> QED
      BY <1>0, <2>6 DEF Working, Rebuild
  <2> HIDE DEF done
  <2>5. CountsDays(ClaimFloors(done, m))
    BY <2>2, MarksKeepTheTally, PassesKeepTheTally
  <2>3. CountsDays(job'.work)
    BY <2>2, <2>4, <2>5
  <2> QED
    BY <2>1, <2>3, RowInHandKeeps
<1>10. CASE RecordSymbol
  <2>1. UNCHANGED sym /\ rec' = [job.work EXCEPT !.end = End] /\ job' = NoJob
    BY <1>10 DEF RecordSymbol
  <2>2. CountsDays(rec') /\ CountsDays(job'.work)
    BY <1>0, <2>1 DEF NoJob, NewRecord, CountsDays
  <2> QED
    BY <2>1, <2>2 DEF RowInv
<1>11. CASE StartRegate
  <2>1. UNCHANGED <<sym, rec>> /\ CountsDays(rec)
    BY <1>11 DEF StartRegate, RowInv
  <2> DEFINE tried == RecoverOne(rec, RecoveryEvents(sym, bars, amap))
  <2>2. PICK m : job'.work \in {tried, rec, ClaimFloors(tried, m), ClaimFloors(rec, m)}
    <3> HIDE DEF tried
    <3> QED
      BY <1>0, <1>11 DEF StartRegate, Working, Rebuild, tried
  <2>4. CountsDays(tried)
    BY <2>1, MarksKeepTheTally, PassesKeepTheTally
  <2> HIDE DEF tried
  <2>5. CountsDays(ClaimFloors(tried, m)) /\ CountsDays(ClaimFloors(rec, m))
    BY <2>1, <2>4, MarksKeepTheTally, PassesKeepTheTally
  <2>3. CountsDays(job'.work)
    BY <2>1, <2>2, <2>4, <2>5
  <2> QED
    BY <2>1, <2>3, RowInHandKeeps
<1>12. CASE Resettle
  <2>1. UNCHANGED sym /\ rec' = Settled(SyncFromMap(job.work)) /\ job' = NoJob
    BY <1>12 DEF Resettle
  <2>2. CountsDays(SyncFromMap(job.work))
    BY <1>0 DEF SyncFromMap, ClaimFloors, CountsDays
  <2>3. CountsDays(rec') /\ CountsDays(job'.work)
    BY <2>1, <2>2, SettledCountsDays DEF NoJob, NewRecord, CountsDays
  <2> QED
    BY <2>1, <2>3 DEF RowInv
<1>13. CASE Die
  <2>1. UNCHANGED <<sym, rec>> /\ job' = NoJob
    BY <1>13 DEF Die, disk
  <2>2. CountsDays(job'.work)
    BY <2>1 DEF NoJob, NewRecord, CountsDays
  <2> QED
    BY <2>1, <2>2, RowInHandKeeps
<1> QED
  BY <1>1, <1>2, <1>3, <1>4, <1>5, <1>6, <1>7, <1>8, <1>9, <1>10, <1>11, <1>12, <1>13
     DEF Next, Step

LEMMA RowIncidentKeeps == ASSUME StoreInv, RowInv, Incident PROVE RowInv'
<1>1. UNCHANGED <<sym, job>> /\ rec' = None /\ CountsDays(rec)
  BY DEF Incident, RowInv
<1>2. sealed' = [scope |-> End, facts |-> Depth(rec),
                 passes |-> [d \in DOMAIN bars |-> Gate1(sym, bars, d)]]
  BY DEF Incident
<1>3. sealed'.facts.days \in Nat
  BY <1>1, <1>2 DEF Depth, CountsDays
<1>4. \A d \in DOMAIN sealed'.passes : sealed'.passes[d] => d \in sym.rows
  BY <1>2 DEF Gate1
<1> QED
  BY <1>1, <1>3, <1>4 DEF RowInv

LEMMA RowNext == StoreInv /\ RowInv /\ [RecoveryNext]_allVars => RowInv'
<1> SUFFICES ASSUME StoreInv, RowInv, [RecoveryNext]_allVars PROVE RowInv'
  OBVIOUS
<1>1. CASE UNCHANGED allVars
  BY <1>1 DEF allVars, vars, disk, RowInv
<1> QED
  BY <1>1, RowStepKeeps, RowIncidentKeeps DEF RecoveryNext

LEMMA RowAlways == RecoverySpec => []RowInv
<1> QED
  BY RowInit, RowNext, StoreAlways, PTL DEF RecoverySpec

-----------------------------------------------------------------------------
(* Counting stored days *)

\* The counting search finds its day: of n days or more, one is the n-th oldest.
LEMMA NthOldestIsThere ==
  ASSUME NEW days, days \subseteq Nat \ {0}, IsFiniteSet(days),
         NEW n \in Nat \ {0}, n <= Cardinality(days)
  PROVE  /\ NthOldest(days, n) \in days
         /\ Cardinality(Upto(days, NthOldest(days, n))) = n
<1>1. n \in 1 .. Cardinality(days)
  BY FS_CardinalityType
<1>2. \E d \in days : Cardinality(Upto(days, d)) = n
  BY <1>1, RankIsTaken DEF Upto
<1> QED
  BY <1>2, Zenon DEF NthOldest

-----------------------------------------------------------------------------
(* The reconciliation *)

\* What a report counts of the days T, of which the days passing passed gate 1.
CountOf(T, passing) ==
    [days |-> Cardinality(T), gated |-> Cardinality(T \cap sym.rows),
     pass |-> Cardinality(T \cap passing)]

LEMMA CountsCount ==
  ASSUME NEW T, IsFiniteSet(T), NEW passing, passing \subseteq sym.rows
  PROVE  CountOf(T, passing) \in Counts
<1> DEFINE gated == T \cap sym.rows
           pass == T \cap passing
<1>1. gated \in SUBSET T /\ pass \in SUBSET gated
  OBVIOUS
<1> HIDE DEF gated, pass
<1>2. /\ IsFiniteSet(gated) /\ Cardinality(gated) <= Cardinality(T)
      /\ IsFiniteSet(pass) /\ Cardinality(pass) <= Cardinality(gated)
  BY <1>1, FS_Subset
<1>3. Cardinality(T) \in Nat /\ Cardinality(gated) \in Nat /\ Cardinality(pass) \in Nat
  BY <1>2, FS_CardinalityType
<1>4. CountOf(T, passing) = [days |-> Cardinality(T), gated |-> Cardinality(gated),
                             pass |-> Cardinality(pass)]
  BY DEF CountOf, gated, pass
<1> QED
  BY <1>2, <1>3, <1>4 DEF Counts

\* Two lots of days counted apart are the days counted together.
LEMMA CountsAdd ==
  ASSUME NEW S, IsFiniteSet(S), NEW A, NEW B, S = A \cup B, A \cap B = {}, NEW passing
  PROVE  CountOf(S, passing) = Together(CountOf(A, passing), CountOf(B, passing))
<1>1. Cardinality(S) = Cardinality(A) + Cardinality(B)
  BY CountSplits
<1>2. \A Q : Cardinality(S \cap Q) = Cardinality(A \cap Q) + Cardinality(B \cap Q)
  <2> SUFFICES ASSUME NEW Q
               PROVE  Cardinality(S \cap Q) = Cardinality(A \cap Q) + Cardinality(B \cap Q)
    OBVIOUS
  <2> DEFINE SQ == S \cap Q
             AQ == A \cap Q
             BQ == B \cap Q
  <2>1. SQ = AQ \cup BQ /\ AQ \cap BQ = {} /\ SQ \in SUBSET S
    OBVIOUS
  <2> HIDE DEF SQ, AQ, BQ
  <2>2. IsFiniteSet(SQ)
    BY <2>1, FS_Subset
  <2>3. Cardinality(SQ) = Cardinality(AQ) + Cardinality(BQ)
    BY <2>1, <2>2, CountSplits
  <2> QED
    BY <2>3 DEF SQ, AQ, BQ
<1>3. /\ Cardinality(S \cap sym.rows) = Cardinality(A \cap sym.rows) + Cardinality(B \cap sym.rows)
      /\ Cardinality(S \cap passing) = Cardinality(A \cap passing) + Cardinality(B \cap passing)
  BY <1>2
<1> QED
  BY <1>1, <1>3 DEF CountOf, Together

\* The boundary, when the store has passed it, is one of its days.
LEMMA BoundaryIsStored ==
  ASSUME StoreInv, RowInv, sealed # None, Boundary.passed
  PROVE  Boundary.day \in DOMAIN bars /\ SealedWindowStart <= Boundary.day
<1> DEFINE D == DOMAIN bars
           n == sealed.facts.days
           inScope == Upto(D, sealed.scope)
<1>1. IsFiniteSet(inScope) /\ inScope \subseteq Nat \ {0} /\ inScope \subseteq D
  <2>1. inScope \in SUBSET D
    BY DEF Upto
  <2>2. IsFiniteSet(D) /\ D \subseteq Nat \ {0}
    BY StoreIsFinite
  <2> HIDE DEF D, inScope
  <2> QED
    BY <2>1, <2>2, FS_Subset
<1>2. n # 0 /\ ~(Cardinality(inScope) < n)
  BY DEF Boundary, HorizonBoundary
<1>3. Boundary.day = NthOldest(inScope, n) /\ SealedWindowStart <= Boundary.day
  BY <1>2 DEF Boundary, HorizonBoundary
<1>4. n \in Nat \ {0} /\ n <= Cardinality(inScope)
  <2>1. n \in Nat
    BY DEF RowInv
  <2>2. Cardinality(inScope) \in Nat
    BY <1>1, FS_CardinalityType
  <2> QED
    BY <1>2, <2>1, <2>2
<1>5. NthOldest(inScope, n) \in inScope
  <2> HIDE DEF inScope, n
  <2> QED
    BY <1>1, <1>4, NthOldestIsThere
<1> QED
  BY <1>1, <1>3, <1>5

\* A store whose older days are as they were is accounted for.
LEMMA KeptIsAccounted ==
  ASSUME StoreInv, RowInv, Comparable, OlderDaysKept
  PROVE  Accounted(Boundary.day)
<1> DEFINE D == DOMAIN bars
           P == DOMAIN sealed.passes
           b == Boundary.day
           passedThen == {d \in P : sealed.passes[d]}
           passNow == {d \in D : Gate1(sym, bars, d)}
           olderThen == {d \in P : d < SealedWindowStart}
           olderNow == {d \in D : d < SealedWindowStart}
           was == {d \in P : SealedWindowStart <= d}
           tail == {d \in D : SealedWindowStart <= d}
<1>0. sealed # None /\ rec # None /\ rec.tally # None /\ rec.tally = Tally(sym, Today, bars)
  BY DEF Comparable
<1>1. b \in D /\ SealedWindowStart <= b
  BY <1>0, BoundaryIsStored DEF OlderDaysKept
<1>2. /\ IsFiniteSet(D) /\ IsFiniteSet(P)
      /\ \A d \in D : d \in Nat
      /\ \A d \in P : d \in Nat
  BY <1>0, StoreIsFinite
<1>3. \A d : d \in P <=> d \in D /\ d <= b
  BY DEF OlderDaysKept, Upto
<1>4. SealedWindowStart \in Nat
  BY ReconcileAssumption
<1>5. /\ D = olderNow \cup tail /\ olderNow \cap tail = {}
      /\ P = olderThen \cup was /\ olderThen \cap was = {}
  <2>1. \A d \in Nat : (d < SealedWindowStart) = ~(SealedWindowStart <= d)
    BY <1>4
  <2> QED
    BY <1>2, <2>1, Zenon
<1>6. olderThen = olderNow
  <2>1. \A d \in D : d < SealedWindowStart => d <= b
    BY <1>1, <1>2, <1>4
  <2> HIDE DEF D, P, b
  <2> QED
    BY <1>3, <2>1
<1>7. WindowUpto(b) = was
  <2> SUFFICES {d \in D : SealedWindowStart <= d /\ d <= b} = {d \in P : SealedWindowStart <= d}
    BY DEF WindowUpto
  <2> HIDE DEF D, P, b
  <2> QED
    BY <1>3
<1>8. WindowUpto(End) = tail
  BY DEF StoreInv, WindowUpto
<1>9. olderThen \cap passedThen = olderNow \cap passNow
  <2>1. \A d \in P : d < SealedWindowStart => (sealed.passes[d] <=> Gate1(sym, bars, d))
    BY DEF OlderDaysKept
  <2>2. \A d : d \in olderThen <=> d \in olderNow
    BY <1>6
  <2> QED
    BY <2>1, <2>2
<1>10. passedThen \subseteq sym.rows /\ passNow \subseteq sym.rows
  BY <1>0 DEF RowInv, Gate1
<1>11. /\ sealed.facts.days = Cardinality(P)
       /\ sealed.facts.gated = Cardinality(P \cap sym.rows)
       /\ sealed.facts.pass = Cardinality(P \cap passedThen)
  <2>1. P \cap passedThen = passedThen
    OBVIOUS
  <2> QED
    BY <2>1 DEF OlderDaysKept, SealedCountedIts
<1>12. /\ Depth(rec).days = Cardinality(D)
       /\ Depth(rec).gated = Cardinality(D \cap sym.rows)
       /\ Depth(rec).pass = Cardinality(D \cap passNow)
  <2>1. D \cap passNow = passNow
    OBVIOUS
  <2>2. /\ rec.tally.days = Cardinality(D) /\ rec.tally.g1tot = Cardinality(D \cap sym.rows)
        /\ rec.tally.g1 = Cardinality(passNow)
    BY <1>0 DEF Tally
  <2>3. /\ Depth(rec).days = rec.tally.days /\ Depth(rec).gated = rec.tally.g1tot
        /\ Depth(rec).pass = rec.tally.g1
    BY <1>0 DEF Depth
  <2> QED
    BY <2>1, <2>2, <2>3
<1>13. /\ GateWindow(tail).gated = Cardinality(tail \cap sym.rows)
       /\ GateWindow(tail).pass = Cardinality(tail \cap passNow)
  <2>1. tail \cap passNow = {d \in tail : Gate1(sym, bars, d)}
    OBVIOUS
  <2> QED
    BY <2>1 DEF GateWindow
<1> DEFINE old == CountOf(olderThen, passedThen)
           wasCount == CountOf(was, passedThen)
           nowCount == CountOf(tail, passNow)
<1>14. old = CountOf(olderNow, passNow)
  <2> HIDE DEF olderThen, olderNow, passedThen, passNow
  <2> QED
    BY <1>6, <1>9 DEF CountOf
<1>15. old \in Counts /\ wasCount \in Counts /\ nowCount \in Counts
  <2>1. /\ olderThen \in SUBSET P /\ was \in SUBSET P /\ tail \in SUBSET D
    OBVIOUS
  <2>2. IsFiniteSet(olderThen) /\ IsFiniteSet(was) /\ IsFiniteSet(tail)
    BY <1>2, <2>1, FS_Subset
  <2> HIDE DEF olderThen, was, tail, passedThen, passNow
  <2> QED
    BY <1>10, <2>2, CountsCount
<1>16. /\ CountOf(P, passedThen) = Together(old, wasCount)
       /\ CountOf(D, passNow) = Together(old, nowCount)
  <2> HIDE DEF D, P, olderThen, olderNow, was, tail, passedThen, passNow
  <2> QED
    BY <1>2, <1>5, <1>14, CountsAdd
<1> HIDE DEF D, P, b, olderThen, olderNow, was, tail, passedThen, passNow
<1>17. GateDeltaAccounted(CountOf(P, passedThen), CountOf(D, passNow), nowCount, wasCount.days)
  <2> HIDE DEF old, wasCount, nowCount
  <2> QED
    BY <1>15, <1>16, UnmovedHistoryIsAccounted
<1>18. GateDeltaAccounted(sealed.facts, Depth(rec), GateWindow(tail), Cardinality(was))
  BY <1>11, <1>12, <1>13, <1>17 DEF GateDeltaAccounted, CountOf
<1> QED
  BY <1>7, <1>8, <1>18 DEF Accounted, b

(* When the older days of a store that was built anew are the ones the      *)
(* sealed report counted, and gate as they did, no difference in the days   *)
(* stored or passing is charged to anything but the last window, and a      *)
(* store that holds fewer days than the report counted is an unexplained    *)
(* loss (recovery_reconcile.py:519, 689): for every pair of eras.           *)
THEOREM DivergencesHaveTheirClass == RecoverySpec => []DivergencesAreClassed
<1>1. StoreInv /\ RowInv => DivergencesAreClassed
  <2> SUFFICES ASSUME StoreInv, RowInv, Comparable
               PROVE  /\ OlderDaysKept =>
                           \A m \in DOMAIN Divergences \cap {"stored", "passing"} :
                              Divergences[m] = "sealed-fetch-horizon"
                      /\ Depth(rec).days < sealed.facts.days =>
                           Divergences["stored"] = "unexplained"
    BY DEF DivergencesAreClassed
  <2>1. ASSUME OlderDaysKept, NEW m \in DOMAIN Divergences, m \in {"stored", "passing"}
        PROVE  Divergences[m] = "sealed-fetch-horizon"
    <3>1. Boundary.passed /\ Accounted(Boundary.day)
      BY <2>1, KeptIsAccounted DEF OlderDaysKept
    <3>2. \A improved : Classify(m, improved, Boundary) = "sealed-fetch-horizon"
      BY <2>1, <3>1 DEF Classify
    <3> QED
      BY <2>1, <3>2 DEF Divergences
  <2>2. ASSUME Depth(rec).days < sealed.facts.days
        PROVE  Divergences["stored"] = "unexplained"
    <3> DEFINE D == DOMAIN bars
               inScope == Upto(D, sealed.scope)
    <3>1. /\ sealed # None /\ rec.tally # None /\ rec.tally = Tally(sym, Today, bars)
      BY DEF Comparable
    <3>2. Depth(rec).days = Cardinality(D)
      BY <3>1 DEF Depth, Tally
    <3>3. inScope \in SUBSET D
      BY DEF Upto
    <3>4. IsFiniteSet(D) /\ Cardinality(D) \in Nat
      BY StoreIsFinite
    <3>5. Cardinality(inScope) \in Nat /\ Cardinality(inScope) <= Cardinality(D)
      <4> HIDE DEF D, inScope
      <4> QED
        BY <3>3, <3>4, FS_Subset, FS_CardinalityType
    <3>6. sealed.facts.days \in Nat
      BY <3>1 DEF RowInv
    <3>7. Cardinality(inScope) < sealed.facts.days
      BY <2>2, <3>2, <3>4, <3>5, <3>6
    <3>8. ~Boundary.passed
      BY <3>7 DEF Boundary, HorizonBoundary
    <3>9. Depth(rec).days # sealed.facts.days /\ ~(Depth(rec).days > sealed.facts.days)
      BY <2>2, <3>2, <3>4, <3>6
    <3>10. Divergences["stored"] =
             Classify("stored", Depth(rec).days > sealed.facts.days, Boundary)
      BY <3>9 DEF Divergences
    <3> QED
      BY <3>8, <3>9, <3>10 DEF Classify
  <2> QED
    BY <2>1, <2>2
<1> QED
  BY <1>1, StoreAlways, RowAlways, PTL

-----------------------------------------------------------------------------
Row == {"status", "route", "byRecovery", "rerouted", "hunted", "floorEvents",
        "tally", "errors", "gates", "rebuilt", "floors", "end"}
IsRow(r) == DOMAIN r = Row

\* Both are rows, and they differ at most in these fields.
ButFor(names, r, s) == IsRow(r) /\ IsRow(s) /\ \A n \in Row \ names : s[n] = r[n]

Settling == {"settled", "quarantined"}

LEMMA MarkedRows ==
  ASSUME NEW r, IsRow(r), NEW x
  PROVE  /\ ButFor({"status"}, r, [r EXCEPT !.status = x]) /\ [r EXCEPT !.status = x].status = x
         /\ ButFor({"hunted"}, r, [r EXCEPT !.hunted = x]) /\ [r EXCEPT !.hunted = x].hunted = x
         /\ ButFor({"rerouted"}, r, [r EXCEPT !.rerouted = x])
         /\ [r EXCEPT !.rerouted = x].rerouted = x
         /\ ButFor({"end"}, r, [r EXCEPT !.end = x])
         /\ ButFor({"errors"}, r, [r EXCEPT !.errors = x])
         /\ ButFor({"floorEvents"}, r, ClaimFloors(r, x))
         /\ ClaimFloors(r, x).floorEvents = {f.ex : f \in {g \in x.floors : InForce(g)}}
         /\ ButFor({"hunted"}, r, Reopened(r, x))
  BY DEF IsRow, Row, ButFor, ClaimFloors, Reopened

LEMMA SettledRow ==
  ASSUME NEW r, IsRow(r)
  PROVE  LET s == Settled(r)
         IN  /\ ButFor({"tally", "gates", "rebuilt", "status"}, r, s)
             /\ s.tally = Tally(sym, Today, bars)
             /\ s.gates = ruling.gates /\ s.rebuilt = ruling.rebuild /\ s.status \in Settling
  BY DEF IsRow, Row, ButFor, Settled, ApplyTally, Settling

LEMMA OwedAlike ==
  ASSUME NEW names, NEW r, NEW s, ButFor(names, r, s),
         names \cap {"route", "rerouted", "tally", "status"} = {}
  PROVE  RerouteOwed(s) = RerouteOwed(r)
  BY DEF ButFor, Row, RerouteOwed, BelowRate

-----------------------------------------------------------------------------
Live == {"pending"} \cup Settling
HoldsFloor(m) == m # None /\ \E f \in m.floors : InForce(f)
MapFields == {"fetch", "exs", "floors", "eras", "model"}
IsMap(m) == m # None /\ DOMAIN m = MapFields /\ m.fetch \in Nat
\* The absent value is no row and no map.
NoneIsNeither == \A r : DOMAIN r \in {Row, MapFields} => r # None
Fits(m) == MapCurrent(m) /\ m.fetch = End
NeedsMap == ClassifyRoute(sym, Clamp, End) = "map-required"

Regated == pc = "resettle" \/ (pc = "rebuild" /\ job.then = "resettle")
Processing == pc \notin {"idle", "plan", "peers"} /\ ~Regated
Hunting == pc \in {"round", "promote", "harvest"}
Recovering == pc \in {"regate", "hunt"} \/ Hunting \/ (pc = "rebuild" /\ job.then = "regate")
Hunted == pc = "verdict" \/ (pc = "rebuild" /\ job.then = "verdict")
Gated == pc = "reroute" \/ Recovering \/ Hunted

RowsAreRows ==
    /\ DOMAIN count = {"runs", "deaths", "cut", "torn", "erred", "done"} /\ count.deaths \in Nat
    /\ IsRow(job.work) /\ (rec # None => IsRow(rec))
    /\ amap # None => IsMap(amap)
    /\ pc # "idle" => count.done = "no"
    /\ pc \in {"idle", "plan", "peers"} => job = NoJob
    /\ pc = "peers" => rec # None
    /\ pc = "rebuild" => job.then \in {"fetch", "regate", "verdict", "resettle"}
    /\ Hunted \/ (Recovering /\ pc # "hunt") => amap # None

HuntInv ==
    Hunting =>
        /\ DOMAIN job.hunt = {"round", "start", "floors", "rebuilt", "with", "forced", "signed"}
        /\ IsMap(job.hunt.start)
        /\ HoldsFloor(job.hunt.start) => HoldsFloor(amap)
        /\ job.work.route = "map-required" => Fits(job.hunt.start)
        /\ pc = "promote" => Splices(job.hunt.floors) # {}
        /\ job.hunt.rebuilt # None => job.hunt.rebuilt = amap

ClaimInv ==
    /\ rec # None => (rec.floorEvents # {} => HoldsFloor(amap))
    /\ job.work.floorEvents # {} => HoldsFloor(amap)

RouteInv ==
    /\ Fetching \/ pc = "gate" => job.work.status \in Live
    /\ pc = "map" => job.work.route = "map-required"
    /\ Processing =>
         /\ job.work.status \in Live =>
              job.work.route = IF NeedsMap \/ job.work.byRecovery THEN "map-required" ELSE "table-path"
         /\ pc # "map" /\ job.work.status \in Live /\ job.work.route = "map-required"
              => amap # None /\ Fits(amap)
         /\ rec # None => (rec.byRecovery => job.work.byRecovery)
    /\ Regated => rec # None /\ job.work.byRecovery = rec.byRecovery
    /\ count.deaths = 0 /\ amap # None =>
         NeedsMap \/ (Processing /\ job.work.byRecovery) \/ (rec # None /\ rec.byRecovery)

\* A recovery pass that falls due in a hunt under a map a killed run left.
Excused(r) == RerouteOwed(r) /\ amap # None /\ count.deaths > 0

Stamped(r) == r.gates = ruling.gates /\ r.rebuilt = ruling.rebuild /\ r.status \in Settling

StampInv ==
    /\ Gated \/ (pc = "record" /\ job.work.status \in Settling) => Stamped(job.work)
    /\ Recovering => ~RerouteOwed(job.work)
    /\ pc = "regate" \/ (pc = "rebuild" /\ job.then = "regate") => job.work.route = "map-required"
    /\ Hunted => job.work.hunted /\ job.work.floors = ruling.floors
    /\ pc = "record" /\ ~count.erred /\ job.work.status \in Settling =>
         ~HuntOwed(job.work) /\ (~RerouteOwed(job.work) \/ Excused(job.work))

ClearInv ==
    (pc = "peers" \/ Finished) /\ ~count.erred /\ rec.status \in Terminal
        => ~NeedsReprocessing(rec, End) \/ Excused(rec)

OwedInv == RowsAreRows /\ HuntInv /\ ClaimInv /\ RouteInv /\ StampInv /\ ClearInv

LEMMA BuiltMaps ==
  ASSUME StoreInv, amap # None => IsMap(amap), NEW given, BuiltMap(given) # None
  PROVE  /\ IsMap(BuiltMap(given)) /\ Fits(BuiltMap(given))
         /\ UsedFloors(given) \subseteq BuiltMap(given).floors
<1> DEFINE fresh == BuildMap(End, ruling.map, EventsOf(sym, Today), Probes, UsedFloors(given))
<1>1. BuiltMap(given) = CarryFloors(amap, fresh)
  BY DEF BuiltMap
<1>2. DOMAIN fresh = MapFields
  BY DEF BuildMap, MapFields
<1>3. fresh.fetch = End /\ fresh.model = ruling.map /\ fresh.floors = UsedFloors(given)
  BY DEF BuildMap
<1>6. End \in Nat
  BY RunDatesAreNumbers DEF StoreInv, End
<1> HIDE DEF fresh
<1>4. CASE amap = None
  BY <1>1, <1>2, <1>3, <1>4, <1>6 DEF CarryFloors, IsMap, MapFields, Fits, MapCurrent
<1>5. CASE amap # None
  <2>1. PICK more : BuiltMap(given) = [fresh EXCEPT !.floors = @ \cup more]
    BY <1>1, <1>5 DEF CarryFloors
  <2> QED
    BY <1>2, <1>3, <1>6, <2>1 DEF IsMap, MapFields, Fits, MapCurrent
<1> QED
  BY <1>4, <1>5

LEMMA OwedAlikeToo ==
  ASSUME NEW names, NEW r, NEW s, ButFor(names, r, s),
         names \cap {"tally", "status", "hunted", "floors"} = {}
  PROVE  HuntOwed(s) = HuntOwed(r)
  BY DEF ButFor, Row, HuntOwed, HuntInScope, BelowRate

LEMMA NewRow == IsRow(NewRecord) /\ NewRecord.floorEvents = {} /\ NewRecord.status = "pending"
  BY DEF IsRow, Row, NewRecord

LEMMA NoJobIsEmpty ==
  /\ NoJob.work = NewRecord /\ NoJob.then = "idle"
  BY DEF NoJob

LEMMA OwedInit == RecoveryInit => OwedInv
<1> SUFFICES ASSUME RecoveryInit PROVE OwedInv
  OBVIOUS
<1>1. /\ pc = "idle" /\ job = NoJob /\ amap = None /\ rec = None
      /\ count = [runs |-> 0, deaths |-> 0, cut |-> {}, torn |-> FALSE,
                  erred |-> FALSE, done |-> "no"]
  BY DEF RecoveryInit, Init
<1>2. RowsAreRows
  BY <1>1, NewRow, NoJobIsEmpty DEF RowsAreRows, Hunted, Recovering, Hunting
<1>3. HuntInv /\ ClaimInv /\ RouteInv /\ StampInv /\ ClearInv
  BY <1>1, NewRow, NoJobIsEmpty
     DEF HuntInv, Hunting, ClaimInv, Fetching, RouteInv, Regated, Processing, StampInv, Gated, Recovering, Hunted,
         ClearInv, Finished
<1> QED
  BY <1>2, <1>3 DEF OwedInv

LEMMA StartRunOwes == ASSUME StoreInv, OwedInv, StartRun PROVE OwedInv'
<1>1. PICK r \in RunDates :
        /\ r[1] >= now[1] /\ r[2] >= now[2] /\ now' = r
        /\ count' = [count EXCEPT !.runs = @ + 1, !.erred = FALSE, !.done = "no"]
        /\ job' = NoJob
        /\ pc' = "idle" \/ pc' = "plan"
           \/ (pc' = "peers" /\ rec # None /\ rec.status \in Terminal /\ ~NeedsReprocessing(rec, r[1]))
  BY DEF StartRun
<1>2. UNCHANGED <<sym, ruling, bars, ledger, amap, rec>>
  BY DEF StartRun, disk
<1>3. count'.done = "no" /\ count'.deaths = count.deaths /\ DOMAIN count' = DOMAIN count
  BY <1>1 DEF OwedInv, RowsAreRows
<1>4. RowsAreRows'
  BY <1>1, <1>2, <1>3, NewRow, NoJobIsEmpty
     DEF OwedInv, RowsAreRows, IsMap, IsRow, Hunted, Recovering, Hunting
<1>5. HuntInv' /\ ClaimInv' /\ StampInv'
  BY <1>1, <1>2, NewRow, NoJobIsEmpty
     DEF OwedInv, HuntInv, Hunting, ClaimInv, HoldsFloor, StampInv, Gated, Recovering, Hunted
<1>6. RouteInv'
  <2>1. pc = "idle"
    BY DEF StartRun
  <2>2. NeedsMap => NeedsMap'
    <3>1. now[1] \in Nat /\ r[1] \in Nat
      BY RunDatesAreNumbers DEF StoreInv
    <3>2. Clamp' = Clamp
      BY <1>2 DEF Clamp
    <3>3. \A x \in Clamp .. End : x \in Clamp .. End'
      BY <1>1, <3>1 DEF End
    <3> QED
      BY <1>2, <3>2, <3>3 DEF NeedsMap, ClassifyRoute
  <2> QED
    BY <1>1, <1>2, <1>3, <2>1, <2>2 DEF OwedInv, RouteInv, Regated, Fetching, Processing
<1>7. ClearInv'
  <2>1. pc' = "peers" => ~NeedsReprocessing(rec, End)'
    BY <1>1, <1>2 DEF End, NeedsReprocessing, MapCurrent, RerouteOwed, HuntOwed, HuntInScope, BelowRate
  <2> QED
    BY <1>1, <1>2, <1>3, <2>1 DEF ClearInv, Finished
<1> QED
  BY <1>4, <1>5, <1>6, <1>7 DEF OwedInv

\* Nothing on disk moved that the owed speaks of.
SameOwing == UNCHANGED <<sym, ruling, amap, rec, now>>

(* Fetching and correcting days leave the row as it is. *)
LEMMA StoringOwes ==
  ASSUME OwedInv, SameOwing, Processing,
         DOMAIN count' = DOMAIN count, count'.deaths = count.deaths, count'.done = count.done,
         job'.work = job.work, job'.then = job.then,
         \/ pc \in {"fetch", "write"} /\ pc' \in {"fetch", "write", "gate"}
         \/ pc = "rebuild" /\ job.then \in {"fetch", "regate", "verdict"} /\ pc' \in {"rebuild", job.then}
  PROVE  OwedInv'
<1>1. RowsAreRows'
  BY DEF OwedInv, SameOwing, RowsAreRows, IsMap, IsRow, Hunted, Recovering, Hunting, Processing, Regated
<1>2. HuntInv' /\ ClaimInv'
  BY DEF OwedInv, SameOwing, HuntInv, Hunting, ClaimInv, HoldsFloor
<1>3. NeedsMap' = NeedsMap /\ (amap # None => Fits(amap)' = Fits(amap))
  BY DEF SameOwing, NeedsMap, ClassifyRoute, Clamp, End, Fits, MapCurrent
<1>4. RouteInv'
  <2>1. Processing'
    BY DEF Processing, Regated
  <2> QED
    BY <1>3, <2>1 DEF OwedInv, SameOwing, RouteInv, Regated, Fetching, Processing
<1>5. StampInv'
  BY DEF OwedInv, SameOwing, StampInv, Gated, Recovering, Hunted, Hunting, Stamped, RerouteOwed,
         BelowRate, Processing, Regated
<1>6. ClearInv'
  BY DEF ClearInv, Finished
<1> QED
  BY <1>1, <1>2, <1>4, <1>5, <1>6 DEF OwedInv

\* Nor does the rebuild of a command that only gates the store again.
LEMMA RebuildDayOwes == ASSUME StoreInv, OwedInv, RebuildDay PROVE OwedInv'
<1>1. /\ SameOwing /\ pc = "rebuild" /\ pc' \in {"rebuild", job.then} /\ UNCHANGED count
      /\ job'.work = job.work /\ job'.then = job.then
  BY DEF RebuildDay, SameOwing, StoreInv
<1>2. job.then \in {"fetch", "regate", "verdict", "resettle"}
  BY <1>1 DEF OwedInv, RowsAreRows
<1>3. CASE job.then # "resettle"
  BY <1>1, <1>2, <1>3, StoringOwes DEF Processing, Regated
<1>4. CASE job.then = "resettle"
  <2>1. Regated /\ Regated' /\ ~Processing /\ ~Processing' /\ ~Hunting' /\ ~Gated' /\ ~Recovering' /\ ~Hunted'
    BY <1>1, <1>4 DEF Regated, Processing, Hunting, Gated, Recovering, Hunted
  <2>2. RowsAreRows'
    BY <1>1, <1>4, <2>1 DEF OwedInv, SameOwing, RowsAreRows, IsMap, IsRow
  <2>3. HuntInv' /\ ClaimInv' /\ StampInv' /\ ClearInv'
    BY <1>1, <1>4, <2>1 DEF OwedInv, SameOwing, HuntInv, ClaimInv, HoldsFloor, StampInv, ClearInv, Finished
  <2>4. RouteInv'
    BY <1>1, <1>4, <2>1 DEF OwedInv, SameOwing, RouteInv, Regated, Fetching, NeedsMap, ClassifyRoute, Clamp, End
  <2> QED
    BY <2>2, <2>3, <2>4 DEF OwedInv
<1> QED
  BY <1>3, <1>4

LEMMA FetchOwes == ASSUME StoreInv, OwedInv, FetchWindow \/ WriteMonth PROVE OwedInv'
<1>1. /\ SameOwing /\ pc \in {"fetch", "write"} /\ pc' \in {"fetch", "write", "gate"}
      /\ job'.work = job.work /\ job'.then = job.then
  BY DEF FetchWindow, WriteMonth, SameOwing, StoreInv
<1>2. DOMAIN count' = DOMAIN count /\ count'.deaths = count.deaths /\ count'.done = count.done
  BY DEF FetchWindow, WriteMonth, VendorFails, OwedInv, RowsAreRows
<1> QED
  BY <1>1, <1>2, StoringOwes DEF Processing, Regated

\* What a new row of the symbol carries over.
LEMMA CarriedRow ==
  ASSUME rec # None => IsRow(rec), NEW r, IsRow(r), r.floorEvents = {}
  PROVE  LET c == Carried(r)
         IN  /\ IsRow(c) /\ c.status = r.status
             /\ c.route = IF rec # None /\ rec.byRecovery THEN "map-required" ELSE r.route
             /\ c.floorEvents = IF rec = None THEN {} ELSE rec.floorEvents
             /\ c.byRecovery = IF rec = None THEN r.byRecovery ELSE rec.byRecovery
<1>1. CASE rec = None
  BY <1>1 DEF Carried
<1>2. CASE rec # None
  <2>1. IsRow(rec)
    BY <1>2
  <2>2. Carried(r) = [r EXCEPT !.rerouted = rec.rerouted, !.byRecovery = rec.byRecovery,
                   !.hunted = rec.hunted, !.floorEvents = rec.floorEvents,
                   !.floors = rec.floors,
                   !.route = IF rec.byRecovery THEN "map-required" ELSE @]
    BY <1>2 DEF Carried
  <2> QED
    BY <1>2, <2>2 DEF IsRow, Row
<1> QED
  BY <1>1, <1>2

LEMMA PlanOwes == ASSUME StoreInv, OwedInv, Plan PROVE OwedInv'
<1>0. /\ SameOwing /\ pc = "plan" /\ UNCHANGED count /\ job = NoJob
      /\ DOMAIN job = {"work", "map", "left", "table", "then", "window", "hunt"}
  BY DEF Plan, disk, SameOwing, OwedInv, RowsAreRows, StoreInv
<1>1. CASE ~sym.listed \/ sym.rows = {}
  <2>1. PICK x \in Unlisted :
          pc' = "record" /\ job'.work = Carried([NewRecord EXCEPT !.status = x]) /\ job'.then = "idle"
    BY <1>0, <1>1, NoJobIsEmpty DEF Plan, Working, Unlisted
  <2> DEFINE r == [NewRecord EXCEPT !.status = x]
  <2>2. IsRow(r) /\ r.floorEvents = {} /\ r.status = x /\ r.byRecovery = FALSE
    BY DEF NewRecord, IsRow, Row
  <2> HIDE DEF r
  <2>3. /\ IsRow(job'.work) /\ job'.work.status = x
        /\ job'.work.floorEvents = IF rec = None THEN {} ELSE rec.floorEvents
        /\ job'.work.byRecovery = IF rec = None THEN r.byRecovery ELSE rec.byRecovery
    <3>1. rec # None => IsRow(rec)
      BY DEF OwedInv, RowsAreRows
    <3> QED
      BY <2>1, <2>2, <3>1, CarriedRow DEF r
  <2>4. x \notin Live /\ x \notin Settling
    BY <2>1 DEF Unlisted, Live, Settling
  <2>5. RowsAreRows'
    BY <1>0, <2>1, <2>3 DEF OwedInv, RowsAreRows, SameOwing, IsMap, IsRow, Hunted, Recovering, Hunting
  <2>6. HuntInv' /\ ClaimInv' /\ StampInv' /\ ClearInv'
    BY <1>0, <2>1, <2>3, <2>4 DEF OwedInv, SameOwing, HuntInv, Hunting, ClaimInv, HoldsFloor, StampInv,
       Gated, Recovering, Hunted, ClearInv, Finished
  <2>7. RouteInv'
    <3>1. NeedsMap' = NeedsMap /\ ~Processing
      BY <1>0 DEF SameOwing, NeedsMap, ClassifyRoute, Clamp, End, Processing
    <3> QED
      BY <1>0, <2>1, <2>3, <2>4, <3>1 DEF OwedInv, SameOwing, RouteInv, Regated, Fetching
  <2> QED
    BY <2>5, <2>6, <2>7 DEF OwedInv
<1>2. CASE sym.listed /\ sym.rows # {}
  <2> DEFINE r == [NewRecord EXCEPT !.route = ClassifyRoute(sym, Clamp, End)]
             loaded == IF amap # None THEN IF MapCurrent(amap) THEN amap ELSE None ELSE None
  <2>1. /\ job'.work = Carried(r) /\ job'.then = "idle"
        /\ IF Carried(r).route # "map-required" THEN pc' = "fetch"
           ELSE pc' = IF loaded # None THEN IF loaded.fetch = End THEN "mapped" ELSE "map" ELSE "map"
    BY <1>0, <1>2, NoJobIsEmpty DEF Plan, Working
  <2>2. /\ IsRow(r) /\ r.floorEvents = {} /\ r.status = "pending" /\ r.byRecovery = FALSE
        /\ r.route = IF NeedsMap THEN "map-required" ELSE "table-path"
    BY DEF NewRecord, IsRow, Row, NeedsMap, ClassifyRoute
  <2> HIDE DEF r
  <2>3. /\ IsRow(job'.work) /\ job'.work.status = "pending"
        /\ job'.work.route = IF rec # None /\ rec.byRecovery THEN "map-required" ELSE r.route
        /\ job'.work.floorEvents = IF rec = None THEN {} ELSE rec.floorEvents
        /\ job'.work.byRecovery = IF rec = None THEN FALSE ELSE rec.byRecovery
    <3>1. rec # None => IsRow(rec)
      BY DEF OwedInv, RowsAreRows
    <3> QED
      BY <2>1, <2>2, <3>1, CarriedRow
  <2>4. pc' \in {"fetch", "mapped", "map"}
    BY <2>1
  <2>5. RowsAreRows'
    BY <1>0, <2>1, <2>3, <2>4 DEF OwedInv, RowsAreRows, SameOwing, IsMap, IsRow, Hunted, Recovering, Hunting
  <2>6. HuntInv' /\ ClaimInv' /\ StampInv' /\ ClearInv'
    BY <1>0, <2>3, <2>4 DEF OwedInv, SameOwing, HuntInv, Hunting, ClaimInv, HoldsFloor, StampInv,
       Gated, Recovering, Hunted, ClearInv, Finished
  <2>7. RouteInv'
    <3>1. NeedsMap' = NeedsMap /\ ~Processing
      BY <1>0 DEF SameOwing, NeedsMap, ClassifyRoute, Clamp, End, Processing
    <3>2. pc' = "mapped" => amap' # None /\ Fits(amap)'
      BY <1>0, <2>1 DEF SameOwing, Fits, MapCurrent, End
    <3>3. pc' = "fetch" => job'.work.route # "map-required"
      BY <2>1
    <3> QED
      BY <1>0, <2>1, <2>2, <2>3, <2>4, <3>1, <3>2, <3>3 DEF OwedInv, SameOwing, RouteInv, Regated, Fetching, Live
  <2> QED
    BY <2>5, <2>6, <2>7 DEF OwedInv
<1> QED
  BY <1>1, <1>2

(* A map built anew never loses what the map before it measured. *)
LEMMA BuiltMapsHold ==
  ASSUME StoreInv, amap # None => IsMap(amap), NEW given, BuiltMap(given) # None,
         (given = {} /\ HoldsFloor(amap)) \/ \E f \in given : InForce(f)
  PROVE  HoldsFloor(BuiltMap(given))
<1>1. UsedFloors(given) \subseteq BuiltMap(given).floors
  BY BuiltMaps
<1>2. \E f \in UsedFloors(given) : InForce(f)
  BY DEF UsedFloors, HoldsFloor, InForce
<1> QED
  BY <1>1, <1>2 DEF HoldsFloor

LEMMA ReopenedRow ==
  ASSUME NEW r, IsRow(r), NEW m
  PROVE  LET s == Reopened(r, m)
         IN  /\ IsRow(s) /\ s.status = r.status /\ s.route = r.route /\ s.byRecovery = r.byRecovery
             /\ s.floorEvents = r.floorEvents
  BY DEF Reopened, IsRow, Row

LEMMA BuildMapOwes == ASSUME StoreInv, OwedInv, BuildMapForIngest PROVE OwedInv'
<1>0. /\ UNCHANGED <<sym, ruling, rec, now>> /\ pc = "map" /\ IsRow(job.work)
      /\ DOMAIN job = {"work", "map", "left", "table", "then", "window", "hunt"}
      /\ NeedsMap' = NeedsMap
  BY DEF BuildMapForIngest, OwedInv, RowsAreRows, StoreInv, NeedsMap, ClassifyRoute, Clamp, End
<1>1. CASE /\ pc' = "record" /\ UNCHANGED amap
           /\ job' = Working([job.work EXCEPT !.status = "map-required-but-unbuildable"])
           /\ UNCHANGED count \/ VendorFails
  <2>1. /\ IsRow(job'.work) /\ job'.work.status = "map-required-but-unbuildable"
        /\ job'.work.floorEvents = job.work.floorEvents
        /\ job'.work.byRecovery = job.work.byRecovery
        /\ job'.then = job.then
    BY <1>0, <1>1 DEF Working, IsRow, Row
  <2>2. DOMAIN count' = DOMAIN count /\ count'.deaths = count.deaths /\ count'.done = count.done
    BY <1>1 DEF VendorFails, OwedInv, RowsAreRows
  <2>3. RowsAreRows'
    BY <1>0, <1>1, <2>1, <2>2 DEF OwedInv, RowsAreRows, IsMap, IsRow, Hunted, Recovering, Hunting
  <2>4. HuntInv' /\ ClaimInv' /\ StampInv' /\ ClearInv'
    BY <1>0, <1>1, <2>1 DEF OwedInv, HuntInv, Hunting, ClaimInv, HoldsFloor, StampInv,
       Gated, Recovering, Hunted, ClearInv, Finished, Settling
  <2>5. RouteInv'
    BY <1>0, <1>1, <2>1, <2>2 DEF OwedInv, RouteInv, Fetching, Live, Settling, Processing, Regated
  <2> QED
    BY <2>3, <2>4, <2>5 DEF OwedInv
<1>2. CASE /\ BuiltMap({}) # None /\ UNCHANGED count
           /\ job' = [Working(Reopened(job.work, BuiltMap({}))) EXCEPT !.map = BuiltMap({})]
           /\ pc' = "mapped" /\ amap' = BuiltMap({})
  <2> DEFINE m == BuiltMap({})
  <2>0. amap # None => IsMap(amap)
    BY DEF OwedInv, RowsAreRows
  <2>1. IsMap(m) /\ Fits(m) /\ (HoldsFloor(amap) => HoldsFloor(m))
    BY <1>2, <2>0, BuiltMaps, BuiltMapsHold
  <2>2. job'.work = Reopened(job.work, m) /\ job'.then = job.then
    BY <1>0, <1>2 DEF Working
  <2> HIDE DEF m
  <2>3. /\ IsRow(job'.work) /\ job'.work.status = job.work.status
        /\ job'.work.route = job.work.route /\ job'.work.byRecovery = job.work.byRecovery
        /\ job'.work.floorEvents = job.work.floorEvents
    BY <1>0, <2>2, ReopenedRow
  <2>4. amap' # None /\ Fits(amap)' /\ IsMap(amap)' /\ (HoldsFloor(amap) => HoldsFloor(amap)')
    BY <1>0, <1>2, <2>1 DEF Fits, MapCurrent, End, IsMap, HoldsFloor, m
  <2>5. RowsAreRows'
    BY <1>0, <1>2, <2>2, <2>3, <2>4 DEF OwedInv, RowsAreRows, IsRow, Hunted, Recovering, Hunting
  <2>6. HuntInv' /\ ClaimInv' /\ StampInv' /\ ClearInv'
    BY <1>0, <1>2, <2>3, <2>4 DEF OwedInv, HuntInv, Hunting, ClaimInv, StampInv,
       Gated, Recovering, Hunted, ClearInv, Finished
  <2>7. RouteInv'
    BY <1>0, <1>2, <2>3, <2>4 DEF OwedInv, RouteInv, Fetching, Processing, Regated
  <2> QED
    BY <2>5, <2>6, <2>7 DEF OwedInv
<1> QED
  BY <1>1, <1>2 DEF BuildMapForIngest

LEMMA SameOwingFits ==
  ASSUME SameOwing
  PROVE  /\ NeedsMap' = NeedsMap /\ Fits(amap)' = Fits(amap) /\ HoldsFloor(amap)' = HoldsFloor(amap)
         /\ IsMap(amap)' = IsMap(amap)
  BY DEF SameOwing, NeedsMap, ClassifyRoute, Clamp, End, Fits, MapCurrent, HoldsFloor, IsMap

LEMMA UseMapOwes == ASSUME StoreInv, OwedInv, UseMap PROVE OwedInv'
<1>0. /\ SameOwing /\ pc = "mapped" /\ pc' = "rebuild" /\ IsRow(job.work) /\ UNCHANGED count
      /\ DOMAIN job = {"work", "map", "left", "table", "then", "window", "hunt"}
  BY DEF UseMap, OwedInv, RowsAreRows, StoreInv, SameOwing, disk
<1>1. /\ job'.then = "fetch"
      /\ job'.work = job.work \/ job'.work = [job.work EXCEPT !.hunted = FALSE]
  BY <1>0 DEF UseMap, Rebuild
<1>2. /\ IsRow(job'.work) /\ job'.work.status = job.work.status
      /\ job'.work.route = job.work.route /\ job'.work.byRecovery = job.work.byRecovery
      /\ job'.work.floorEvents = job.work.floorEvents
  BY <1>0, <1>1 DEF IsRow, Row
<1>3. RowsAreRows'
  BY <1>0, <1>1, <1>2, SameOwingFits DEF OwedInv, SameOwing, RowsAreRows, IsRow, Hunted, Recovering, Hunting
<1>4. HuntInv' /\ ClaimInv' /\ StampInv' /\ ClearInv'
  BY <1>0, <1>1, <1>2, SameOwingFits DEF OwedInv, SameOwing, HuntInv, Hunting, ClaimInv, StampInv,
     Gated, Recovering, Hunted, ClearInv, Finished
<1>5. RouteInv'
  BY <1>0, <1>1, <1>2, SameOwingFits DEF OwedInv, SameOwing, RouteInv, Fetching, Processing, Regated
<1> QED
  BY <1>3, <1>4, <1>5 DEF OwedInv

(* What stays of a row in hand that is gated. *)
LEMMA SettledInHand ==
  ASSUME NEW r, IsRow(r)
  PROVE  LET s == Settled(r)
         IN  /\ IsRow(s) /\ Stamped(s) /\ s.status \in Live
             /\ s.route = r.route /\ s.byRecovery = r.byRecovery /\ s.floorEvents = r.floorEvents
             /\ s.hunted = r.hunted /\ s.floors = r.floors /\ s.rerouted = r.rerouted
  BY SettledRow DEF ButFor, Row, Stamped, Settling, Live

LEMMA GatingOwes ==
  ASSUME OwedInv, SameOwing, Processing,
         DOMAIN count' = DOMAIN count, count'.deaths = count.deaths, count'.done = count.done,
         pc \in {"gate", "reroute", "regate", "hunt", "round", "promote", "harvest", "verdict"},
         job.work.status \in Live, IsRow(job'.work), Stamped(job'.work),
         job'.work.route = job.work.route, job'.work.byRecovery = job.work.byRecovery,
         job'.work.floorEvents \in {{}, job.work.floorEvents} \/ HoldsFloor(amap),
         \/ pc' = "reroute"
         \/ pc' = "hunt" /\ ~RerouteOwed(job'.work)
         \/ /\ pc' = "record"
            /\ count'.erred \/ (~HuntOwed(job'.work) /\ (~RerouteOwed(job'.work) \/ Excused(job'.work)))
  PROVE  OwedInv'
<1>1. job'.work.status \in Settling /\ Stamped(job.work)' /\ ruling' = ruling
  BY DEF Stamped, SameOwing
<1>2. RowsAreRows'
  BY <1>1, SameOwingFits DEF OwedInv, SameOwing, RowsAreRows, IsRow, Hunted, Recovering, Hunting, Processing
<1>3. HuntInv' /\ ClaimInv' /\ ClearInv'
  BY SameOwingFits DEF OwedInv, SameOwing, HuntInv, Hunting, ClaimInv, ClearInv, Finished
<1>4. StampInv'
  BY <1>1 DEF OwedInv, SameOwing, StampInv, Gated, Recovering, Hunted, Hunting, Stamped, Excused,
     HuntOwed
<1>5. RouteInv'
  BY <1>1, SameOwingFits DEF OwedInv, SameOwing, RouteInv, Fetching, Processing, Regated, Live
<1> QED
  BY <1>2, <1>3, <1>4, <1>5 DEF OwedInv

(* Undisturbed, a symbol that goes through the table has no map to be hunted under. *)
LEMMA OnlyTheKilledAreExcused ==
  ASSUME OwedInv, Processing, amap # None, job.work.status \in Live, NEW r,
         r.route = job.work.route, RerouteOwed(r)
  PROVE  Excused(r)
<1>1. job.work.route = "table-path"
  BY DEF RerouteOwed
<1>2. ~NeedsMap /\ ~job.work.byRecovery
  BY <1>1 DEF OwedInv, RouteInv, Regated
<1>3. count.deaths # 0 /\ count.deaths \in Nat
  BY <1>2 DEF OwedInv, RouteInv, Regated, RowsAreRows
<1> QED
  BY <1>3 DEF Excused

LEMMA GateOwes == ASSUME StoreInv, OwedInv, GateSymbol \/ GateAgain \/ JudgeHunt PROVE OwedInv'
<1>0. /\ SameOwing /\ UNCHANGED count /\ IsRow(job.work) /\ pc \in {"gate", "regate", "verdict"}
      /\ DOMAIN job = {"work", "map", "left", "table", "then", "window", "hunt"} /\ Processing
  BY DEF GateSymbol, GateAgain, JudgeHunt, OwedInv, RowsAreRows, StoreInv, SameOwing, disk,
         Processing, Regated
<1>1. job.work.status \in Live
  BY <1>0 DEF OwedInv, RouteInv, Regated, StampInv, Gated, Recovering, Hunted, Stamped, Live
<1> DEFINE s == Settled(job.work)
<1>2. /\ IsRow(s) /\ Stamped(s) /\ s.route = job.work.route /\ s.byRecovery = job.work.byRecovery
      /\ s.floorEvents = job.work.floorEvents /\ s.hunted = job.work.hunted
      /\ s.floors = job.work.floors /\ s.rerouted = job.work.rerouted
  BY <1>0, SettledInHand
<1> HIDE DEF s
<1>3. CASE GateSymbol
  <2> DEFINE w == [s EXCEPT !.errors = Errors]
  <2>1. /\ IsRow(w) /\ Stamped(w) /\ w.route = s.route /\ w.byRecovery = s.byRecovery
        /\ w.floorEvents = s.floorEvents
    BY <1>2 DEF IsRow, Row, Stamped
  <2>2. job'.work = w /\ pc' = AfterSettling(w)
    BY <1>0, <1>3 DEF GateSymbol, Working, s
  <2> HIDE DEF w
  <2> QED
    BY <1>0, <1>1, <1>2, <2>1, <2>2, GatingOwes DEF AfterSettling
<1>4. CASE GateAgain
  <2>1. job'.work = s /\ pc' = (IF HuntOwed(s) THEN "hunt" ELSE "record") /\ pc = "regate"
    BY <1>0, <1>4 DEF GateAgain, Working, s
  <2>2. ~RerouteOwed(s) \/ s.route = "table-path"
    BY DEF RerouteOwed
  <2>3. s.route # "table-path"
    BY <1>0, <1>2, <2>1 DEF OwedInv, StampInv
  <2> QED
    BY <1>0, <1>1, <1>2, <2>1, <2>2, <2>3, GatingOwes
<1>5. CASE JudgeHunt
  <2>1. job'.work = s /\ pc' = "record" /\ pc = "verdict"
    BY <1>0, <1>5 DEF JudgeHunt, Working, s
  <2>2. s.hunted /\ s.floors = ruling.floors /\ amap # None
    BY <1>2, <2>1 DEF OwedInv, StampInv, RowsAreRows, Hunted
  <2>3. ~HuntOwed(s)
    BY <2>2 DEF HuntOwed
  <2>4. ~RerouteOwed(s) \/ Excused(s)
    BY <1>0, <1>1, <1>2, <2>2, OnlyTheKilledAreExcused
  <2> QED
    BY <1>0, <1>1, <1>2, <2>1, <2>3, <2>4, GatingOwes
<1> QED
  BY <1>3, <1>4, <1>5

LEMMA RerouteOwes == ASSUME StoreInv, OwedInv, Reroute PROVE OwedInv'
<1>0. /\ UNCHANGED <<sym, ruling, rec, now>> /\ pc = "reroute" /\ IsRow(job.work)
      /\ DOMAIN job = {"work", "map", "left", "table", "then", "window", "hunt"}
      /\ NeedsMap' = NeedsMap /\ Processing /\ Stamped(job.work) /\ job.work.status \in Live
  BY DEF Reroute, OwedInv, RowsAreRows, StoreInv, NeedsMap, ClassifyRoute, Clamp, End, Processing,
         Regated, StampInv, Gated, Stamped, Live
<1> DEFINE tried == [job.work EXCEPT !.rerouted = TRUE]
<1>1. /\ IsRow(tried) /\ Stamped(tried) /\ tried.route = job.work.route
      /\ tried.byRecovery = job.work.byRecovery /\ tried.floorEvents = job.work.floorEvents
      /\ tried.status \in Live /\ ~RerouteOwed(tried)
  BY <1>0 DEF IsRow, Row, Stamped, RerouteOwed
<1>2. CASE /\ UNCHANGED amap /\ job' = Working(tried)
           /\ pc' = (IF HuntOwed(tried) THEN "hunt" ELSE "record")
           /\ UNCHANGED count \/ VendorFails
  <2>1. DOMAIN count' = DOMAIN count /\ count'.deaths = count.deaths /\ count'.done = count.done
    BY <1>2 DEF VendorFails, OwedInv, RowsAreRows
  <2>2. job'.work = tried /\ SameOwing
    BY <1>0, <1>2 DEF Working, SameOwing
  <2> HIDE DEF tried
  <2> QED
    BY <1>0, <1>1, <1>2, <2>1, <2>2, GatingOwes
<1>3. CASE /\ BuiltMap({}) # None /\ UNCHANGED count
           /\ job' = Rebuild([Reopened(tried, BuiltMap({})) EXCEPT !.route = "map-required",
                                                                  !.byRecovery = TRUE],
                             BuiltMap({}), TRUE, "regate")
           /\ pc' = "rebuild" /\ amap' = BuiltMap({})
  <2> DEFINE m == BuiltMap({})
             r == Reopened(tried, m)
             w == [r EXCEPT !.route = "map-required", !.byRecovery = TRUE]
  <2>0. amap # None => IsMap(amap)
    BY DEF OwedInv, RowsAreRows
  <2>1. IsMap(m) /\ Fits(m) /\ (HoldsFloor(amap) => HoldsFloor(m))
    BY <1>3, <2>0, BuiltMaps, BuiltMapsHold
  <2>2. job'.work = w /\ job'.then = "regate"
    BY <1>0, <1>3 DEF Rebuild
  <2> HIDE DEF m, tried
  <2>3. /\ IsRow(r) /\ r.status = tried.status /\ r.floorEvents = tried.floorEvents
        /\ r.gates = tried.gates /\ r.rebuilt = tried.rebuilt
    BY <1>1 DEF Reopened, IsRow, Row
  <2> HIDE DEF r
  <2>4. /\ IsRow(w) /\ w.status = tried.status /\ w.floorEvents = tried.floorEvents
        /\ w.route = "map-required" /\ w.byRecovery = TRUE /\ Stamped(w) /\ ~RerouteOwed(w)
    BY <1>1, <2>3 DEF IsRow, Row, Stamped, RerouteOwed
  <2> HIDE DEF w
  <2>5. amap' # None /\ Fits(amap)' /\ IsMap(amap)' /\ (HoldsFloor(amap) => HoldsFloor(amap)')
    BY <1>0, <1>3, <2>1 DEF Fits, MapCurrent, End, IsMap, HoldsFloor, m
  <2>6. RowsAreRows'
    BY <1>0, <1>3, <2>2, <2>4, <2>5 DEF OwedInv, RowsAreRows, IsRow, Hunted, Recovering, Hunting
  <2>7. HuntInv' /\ ClaimInv' /\ ClearInv'
    BY <1>0, <1>1, <1>3, <2>2, <2>4, <2>5 DEF OwedInv, HuntInv, Hunting, ClaimInv, ClearInv, Finished
  <2>8. StampInv'
    BY <1>0, <1>3, <2>2, <2>4 DEF StampInv, Gated, Recovering, Hunted, Hunting, Stamped, RerouteOwed
  <2>9. RouteInv'
    BY <1>0, <1>1, <1>3, <2>2, <2>4, <2>5 DEF OwedInv, RouteInv, Fetching, Processing, Regated
  <2> QED
    BY <2>6, <2>7, <2>8, <2>9 DEF OwedInv
<1> QED
  BY <1>2, <1>3 DEF Reroute

(* A hunt goes on: the row is left, only the map may be built anew. *)
LEMMA HuntingOwes ==
  ASSUME OwedInv, UNCHANGED <<sym, ruling, rec, now, count>>, pc = "hunt" \/ Hunting,
         pc' \in {"round", "promote", "harvest"}, job'.work = job.work, HuntInv',
         amap' # None, IsMap(amap)', HoldsFloor(amap) => HoldsFloor(amap)',
         Fits(amap) => Fits(amap)', amap' = amap \/ amap # None
  PROVE  OwedInv'
<1>0. NeedsMap' = NeedsMap
  BY DEF NeedsMap, ClassifyRoute, Clamp, End
<1>1. /\ Processing /\ Processing' /\ Recovering /\ Recovering' /\ Gated /\ Gated' /\ ~Hunted'
      /\ pc' \notin {"idle", "plan", "peers", "record", "rebuild", "map", "gate"}
      /\ pc \notin {"idle", "map"}
  BY DEF Processing, Regated, Recovering, Gated, Hunting, Hunted
<1>2. RowsAreRows'
  BY <1>1 DEF OwedInv, RowsAreRows, IsRow
<1>3. ClaimInv' /\ ClearInv'
  BY DEF OwedInv, ClaimInv, ClearInv, Finished
<1>4. StampInv'
  BY <1>1 DEF OwedInv, StampInv, Stamped, RerouteOwed, BelowRate
<1>5. RouteInv'
  BY <1>0, <1>1 DEF OwedInv, RouteInv, Regated, Fetching
<1> QED
  BY <1>2, <1>3, <1>4, <1>5 DEF OwedInv

LEMMA StartHuntOwes == ASSUME StoreInv, OwedInv, StartHunt PROVE OwedInv'
<1>0. /\ SameOwing /\ UNCHANGED count /\ pc = "hunt" /\ IsRow(job.work) /\ Processing /\ Recovering
      /\ DOMAIN job = {"work", "map", "left", "table", "then", "window", "hunt"}
      /\ Stamped(job.work) /\ job.work.status \in Live /\ ~RerouteOwed(job.work)
  BY DEF StartHunt, OwedInv, RowsAreRows, StoreInv, SameOwing, disk, Processing, Regated, Recovering,
         StampInv, Gated, Stamped, Live
<1>1. CASE amap = None
  <2> DEFINE w == [job.work EXCEPT !.hunted = TRUE, !.floors = ruling.floors]
  <2>1. /\ IsRow(w) /\ Stamped(w) /\ w.route = job.work.route /\ w.byRecovery = job.work.byRecovery
        /\ w.floorEvents = job.work.floorEvents /\ ~RerouteOwed(w) /\ ~HuntOwed(w)
    BY <1>0 DEF IsRow, Row, Stamped, RerouteOwed, BelowRate, HuntOwed
  <2>2. job'.work = w /\ pc' = "record"
    BY <1>0, <1>1 DEF StartHunt, Working
  <2> HIDE DEF w
  <2> QED
    BY <1>0, <2>1, <2>2, GatingOwes
<1>2. CASE amap # None
  <2> DEFINE h == [round |-> 1, start |-> amap, floors |-> {}, rebuilt |-> None, with |-> {},
                   forced |-> job.work.floorEvents, signed |-> Signatures(sym, Today, bars)]
  <2>1. job'.work = job.work /\ job'.hunt = h /\ pc' = "round"
    BY <1>0, <1>2 DEF StartHunt
  <2>2. IsMap(amap) /\ (job.work.route = "map-required" => Fits(amap))
    BY <1>0, <1>2 DEF OwedInv, RowsAreRows, RouteInv, Regated
  <2>3. HuntInv'
    <3>1. h.start = amap /\ h.rebuilt = None
          /\ DOMAIN h = {"round", "start", "floors", "rebuilt", "with", "forced", "signed"}
      OBVIOUS
    <3> HIDE DEF h
    <3>2. ruling' = ruling /\ now' = now /\ amap' = amap
      BY <1>0 DEF SameOwing
    <3> QED
      BY <2>1, <2>2, <3>1, <3>2 DEF HuntInv, Fits, MapCurrent, End, IsMap, HoldsFloor
  <2> QED
    BY <1>0, <1>2, <2>1, <2>2, <2>3, SameOwingFits, HuntingOwes DEF SameOwing
<1> QED
  BY <1>1, <1>2

(* A vendor error ends the hunt and leaves the row owed. *)
LEMMA HuntStopsOwes ==
  ASSUME StoreInv, OwedInv, Hunting, HuntStops, UNCHANGED <<sym, ruling, peers, halted, now>>
  PROVE  OwedInv'
<1>1. /\ SameOwing /\ pc' = "record" /\ job' = job /\ Processing /\ Recovering
      /\ pc \in {"round", "promote", "harvest"}
  BY DEF HuntStops, SameOwing, disk, Processing, Regated, Recovering, Hunting
<1>2. IsRow(job.work) /\ Stamped(job.work) /\ job.work.status \in Live
  BY <1>1 DEF OwedInv, RowsAreRows, StampInv, Gated, Stamped, Live
<1>3. /\ DOMAIN count' = DOMAIN count /\ count'.deaths = count.deaths /\ count'.done = count.done
      /\ count'.erred
  BY DEF HuntStops, VendorFails, OwedInv, RowsAreRows
<1> QED
  BY <1>1, <1>2, <1>3, GatingOwes

LEMMA RoundOwes == ASSUME StoreInv, OwedInv, HuntOneRound PROVE OwedInv'
<1>0. /\ UNCHANGED <<sym, ruling, peers, halted, now>> /\ pc = "round" /\ Hunting
      /\ DOMAIN job = {"work", "map", "left", "table", "then", "window", "hunt"}
  BY DEF HuntOneRound, StoreInv, Hunting
<1>1. CASE HuntStops
  BY <1>0, <1>1, HuntStopsOwes
<1>2. CASE ~HuntStops
  <2>1. PICK found :
          /\ job' = [job EXCEPT !.hunt.floors =
                        {f \in job.hunt.floors : ~HasFloor(found, f.ex)} \cup found]
          /\ pc' = IF Splices(found) = {} \/ job.hunt.round = HuntRounds THEN "harvest" ELSE "promote"
          /\ UNCHANGED <<disk, count>>
    BY <1>2 DEF HuntOneRound
  <2> DEFINE all == {f \in job.hunt.floors : ~HasFloor(found, f.ex)} \cup found
  <2>2. /\ DOMAIN job.hunt = {"round", "start", "floors", "rebuilt", "with", "forced", "signed"}
        /\ amap # None /\ IsMap(amap)
    BY <1>0 DEF OwedInv, HuntInv, RowsAreRows, Recovering
  <2>3. job'.work = job.work /\ job'.hunt = [job.hunt EXCEPT !.floors = all]
    BY <1>0, <2>1
  <2>4. Splices(found) # {} => Splices(all) # {}
    BY DEF Splices
  <2> HIDE DEF all
  <2>5. /\ DOMAIN job'.hunt = DOMAIN job.hunt /\ job'.hunt.start = job.hunt.start
        /\ job'.hunt.rebuilt = job.hunt.rebuilt /\ job'.hunt.floors = all
    BY <2>2, <2>3
  <2>6. SameOwing
    BY <1>0, <2>1 DEF SameOwing, disk
  <2>7. HuntInv'
    <3>1. /\ IsMap(job.hunt.start) /\ (HoldsFloor(job.hunt.start) => HoldsFloor(amap))
          /\ (job.work.route = "map-required" => Fits(job.hunt.start))
          /\ (job.hunt.rebuilt # None => job.hunt.rebuilt = amap)
      BY <1>0 DEF OwedInv, HuntInv
    <3>2. /\ IsMap(job.hunt.start)' /\ (HoldsFloor(job.hunt.start)' => HoldsFloor(amap)')
          /\ (job'.work.route = "map-required" => Fits(job.hunt.start)')
      BY <2>3, <2>5, <2>6, <3>1 DEF IsMap, HoldsFloor, Fits, MapCurrent, End, SameOwing
    <3> QED
      BY <2>1, <2>2, <2>3, <2>4, <2>5, <2>6, <3>1, <3>2 DEF HuntInv, SameOwing
  <2> QED
    BY <1>0, <2>1, <2>2, <2>3, <2>6, <2>7, SameOwingFits, HuntingOwes DEF SameOwing
<1> QED
  BY <1>1, <1>2

LEMMA PromoteOwes == ASSUME StoreInv, OwedInv, PromoteEras PROVE OwedInv'
<1>0. /\ UNCHANGED <<sym, ruling, peers, halted, now>> /\ pc = "promote" /\ Hunting
      /\ DOMAIN job = {"work", "map", "left", "table", "then", "window", "hunt"}
      /\ DOMAIN job.hunt = {"round", "start", "floors", "rebuilt", "with", "forced", "signed"}
      /\ amap # None /\ IsMap(amap)
      /\ IsMap(job.hunt.start) /\ (HoldsFloor(job.hunt.start) => HoldsFloor(amap))
      /\ (job.work.route = "map-required" => Fits(job.hunt.start))
      /\ (job.hunt.rebuilt # None => job.hunt.rebuilt = amap)
  BY DEF PromoteEras, StoreInv, Hunting, OwedInv, HuntInv, RowsAreRows, Recovering
<1> DEFINE known == ResolvedIn(job.hunt.floors)
           built == BuiltMap(known)
<1>1. CASE HuntStops
  BY <1>0, <1>1, HuntStopsOwes
<1>2. CASE built = None /\ pc' = "harvest" /\ UNCHANGED <<amap, job>> /\ UNCHANGED <<bars, ledger, rec, count>>
  <2>1. SameOwing
    BY <1>0, <1>2 DEF SameOwing
  <2>2. HuntInv'
    BY <1>0, <1>2, <2>1 DEF HuntInv, SameOwing, IsMap, HoldsFloor, Fits, MapCurrent, End
  <2> QED
    BY <1>0, <1>2, <2>1, <2>2, SameOwingFits, HuntingOwes
<1>3. CASE /\ built # None /\ amap' = built /\ UNCHANGED <<bars, ledger, rec, count>>
           /\ job' = [job EXCEPT !.map = built, !.hunt =
                        [@ EXCEPT !.round = @ + 1, !.rebuilt = built, !.with = {f.ex : f \in known}]]
           /\ pc' \in {"harvest", "round"}
  <2>1. \E f \in known : InForce(f)
    BY <1>0 DEF OwedInv, HuntInv, Splices, ResolvedIn, InForce
  <2>2. IsMap(built) /\ Fits(built) /\ HoldsFloor(built)
    BY <1>0, <1>3, <2>1, BuiltMaps, BuiltMapsHold
  <2> HIDE DEF built, known
  <2>3. /\ job'.work = job.work /\ DOMAIN job'.hunt = DOMAIN job.hunt
        /\ job'.hunt.start = job.hunt.start /\ job'.hunt.rebuilt = built
    BY <1>0, <1>3
  <2>4. IsMap(amap)' /\ Fits(amap)' /\ HoldsFloor(amap)' /\ amap' # None
    BY <1>0, <1>3, <2>2 DEF IsMap, Fits, HoldsFloor, MapCurrent, End
  <2>5. HuntInv'
    BY <1>0, <1>3, <2>3, <2>4 DEF HuntInv, IsMap, Fits, MapCurrent, End
  <2> QED
    BY <1>0, <1>3, <2>3, <2>4, <2>5, HuntingOwes
<1> QED
  BY <1>1, <1>2, <1>3 DEF PromoteEras

(* The map a hunt commits holds what the hunt found. *)
LEMMA CommitOwes ==
  ASSUME StoreInv, OwedInv, UNCHANGED <<sym, ruling, rec, now>>, pc = "harvest", pc' = "rebuild",
         DOMAIN count' = DOMAIN count, count'.deaths = count.deaths, count'.done = count.done,
         NEW r, IsRow(r), Stamped(r), r.route = job.work.route, r.byRecovery = job.work.byRecovery,
         r.hunted, r.floors = ruling.floors,
         job'.work = ClaimFloors(r, amap'), job'.then = "verdict",
         IsMap(amap)', HoldsFloor(amap) => HoldsFloor(amap)',
         job.work.route = "map-required" => Fits(amap)'
  PROVE  OwedInv'
<1>0. NeedsMap' = NeedsMap /\ amap # None
  BY DEF NeedsMap, ClassifyRoute, Clamp, End, OwedInv, RowsAreRows, Recovering, Hunting
<1> DEFINE w == ClaimFloors(r, amap')
<1>1. /\ IsRow(w) /\ Stamped(w) /\ w.route = r.route /\ w.byRecovery = r.byRecovery
      /\ w.hunted /\ w.floors = ruling.floors
      /\ w.floorEvents # {} => HoldsFloor(amap)'
  BY DEF IsRow, Row, Stamped, ClaimFloors, HoldsFloor, IsMap, MapFields
<1> HIDE DEF w
<1>2. job'.work = w /\ Stamped(job.work)' /\ job'.work.status \in Live
  BY <1>1 DEF w, Stamped, Live
<1>3. Processing /\ Processing' /\ Hunted' /\ ~Recovering' /\ ~Hunting' /\ ~Fetching'
  BY DEF Processing, Regated, Hunted, Recovering, Hunting, Fetching
<1>4. RowsAreRows'
  BY <1>0, <1>1, <1>2, <1>3 DEF OwedInv, RowsAreRows, IsRow, IsMap
<1>5. HuntInv' /\ ClaimInv' /\ ClearInv'
  BY <1>1, <1>2, <1>3 DEF OwedInv, HuntInv, ClaimInv, ClearInv, Finished
<1>6. StampInv'
  BY <1>1, <1>2, <1>3 DEF StampInv
<1>7. RouteInv'
  <2>1. job.work.status \in Live
    BY DEF OwedInv, StampInv, Gated, Recovering, Hunting, Stamped, Live
  <2> QED
    BY <1>0, <1>1, <1>2, <1>3, <2>1 DEF OwedInv, RouteInv, Regated, IsMap
<1> QED
  BY <1>4, <1>5, <1>6, <1>7 DEF OwedInv

LEMMA HarvestOwes == ASSUME NoneIsNeither, StoreInv, OwedInv, Harvest PROVE OwedInv'
<1>0. /\ UNCHANGED <<sym, ruling, rec, now>> /\ pc = "harvest" /\ Hunting /\ Processing /\ Recovering
      /\ DOMAIN job = {"work", "map", "left", "table", "then", "window", "hunt"}
      /\ IsRow(job.work) /\ Stamped(job.work) /\ job.work.status \in Live /\ ~RerouteOwed(job.work)
      /\ amap # None /\ IsMap(amap)
      /\ IsMap(job.hunt.start) /\ (HoldsFloor(job.hunt.start) => HoldsFloor(amap))
      /\ (job.work.route = "map-required" => Fits(job.hunt.start) /\ Fits(amap))
      /\ (job.hunt.rebuilt # None => job.hunt.rebuilt = amap)
  BY DEF Harvest, StoreInv, Hunting, OwedInv, HuntInv, RowsAreRows, Recovering, StampInv, Gated, Stamped,
         Live, RouteInv, Processing, Regated
<1> DEFINE h == job.hunt
           base == [job.work EXCEPT !.hunted = TRUE, !.floors = ruling.floors]
           done == ClaimFloors(base, h.start)
           ready == IF h.with = {f.ex : f \in ResolvedIn(h.floors)} THEN h.rebuilt ELSE None
           kept == [h.start EXCEPT !.floors = h.floors]
           Commit(m) == job' = Rebuild(ClaimFloors(done, m), m, FALSE, "verdict")
<1>1. /\ IsRow(done) /\ Stamped(done) /\ done.route = job.work.route
      /\ done.byRecovery = job.work.byRecovery /\ done.hunted /\ done.floors = ruling.floors
      /\ ~HuntOwed(done) /\ ~RerouteOwed(done)
      /\ done.floorEvents # {} => HoldsFloor(h.start)
  <2>1. /\ IsRow(base) /\ Stamped(base) /\ base.route = job.work.route
        /\ base.byRecovery = job.work.byRecovery /\ base.hunted /\ base.floors = ruling.floors
        /\ ~RerouteOwed(base)
    BY <1>0 DEF IsRow, Row, Stamped, RerouteOwed, BelowRate
  <2> HIDE DEF base
  <2>2. /\ IsRow(done) /\ Stamped(done) /\ done.route = base.route
        /\ done.byRecovery = base.byRecovery /\ done.hunted /\ done.floors = ruling.floors
        /\ ~RerouteOwed(done)
    BY <2>1 DEF IsRow, Row, Stamped, RerouteOwed, BelowRate, ClaimFloors
  <2>3. done.floorEvents # {} => HoldsFloor(h.start)
    BY <1>0, <2>1 DEF IsRow, Row, ClaimFloors, HoldsFloor, IsMap, MapFields
  <2>4. ~HuntOwed(done)
    BY <2>2 DEF HuntOwed
  <2> QED
    BY <2>1, <2>2, <2>3, <2>4
<1> HIDE DEF done
<1>2. /\ (UNCHANGED count \/ VendorFails)
         => DOMAIN count' = DOMAIN count /\ count'.deaths = count.deaths /\ count'.done = count.done
      /\ \A m : Commit(m) => job'.work = ClaimFloors(done, m) /\ job'.then = "verdict"
  BY <1>0 DEF VendorFails, OwedInv, RowsAreRows, Rebuild
<1>3. CASE Splices(h.floors) = {} /\ job' = Working(done) /\ pc' = "record" /\ UNCHANGED <<amap, count>>
  <2>1. SameOwing /\ job'.work = done
    BY <1>0, <1>3 DEF SameOwing, Working
  <2> QED
    BY <1>0, <1>1, <1>3, <2>1, GatingOwes
<1>4. ASSUME Splices(h.floors) # {}
      PROVE  /\ IsMap(kept) /\ HoldsFloor(kept) /\ (job.work.route = "map-required" => Fits(kept))
             /\ LET m == BuiltMap(h.floors)
                IN  m # None => IsMap(m) /\ HoldsFloor(m) /\ Fits(m)
  <2>1. PICK f \in h.floors : InForce(f)
    BY <1>4 DEF Splices, InForce
  <2>2. /\ IsMap(kept) /\ kept.floors = h.floors /\ kept.model = h.start.model
        /\ kept.fetch = h.start.fetch
    <3>1. DOMAIN kept = MapFields
      BY <1>0 DEF IsMap
    <3> QED
      BY <1>0, <3>1  DEF NoneIsNeither, IsMap, MapFields
  <2> HIDE DEF kept, h
  <2>3. HoldsFloor(kept) /\ (job.work.route = "map-required" => Fits(kept))
    <3>1. job.work.route = "map-required" => Fits(h.start)
      BY <1>0 DEF h
    <3> QED
      BY <2>1, <2>2, <3>1 DEF HoldsFloor, Fits, MapCurrent, IsMap
  <2> QED
    BY <1>0, <2>1, <2>2, <2>3, BuiltMaps, BuiltMapsHold
<1>5. ASSUME Splices(h.floors) # {}, pc' = "rebuild",
             UNCHANGED count \/ VendorFails, Commit(amap'),
             IsMap(amap'), HoldsFloor(amap) => HoldsFloor(amap'),
             job.work.route = "map-required" => Fits(amap')
      PROVE  OwedInv'
  <2>1. /\ IsMap(amap)' /\ (HoldsFloor(amap) => HoldsFloor(amap)')
        /\ (job.work.route = "map-required" => Fits(amap)')
    BY <1>0, <1>5 DEF IsMap, HoldsFloor, Fits, MapCurrent, End
  <2>2. job'.work = ClaimFloors(done, amap') /\ job'.then = "verdict"
    BY <1>2, <1>5
  <2> HIDE DEF Commit
  <2> QED
    BY <1>0, <1>1, <1>2, <1>5, <2>1, <2>2, CommitOwes
<1>6. CASE Splices(h.floors) # {} /\ pc' = "rebuild" /\ ready # None /\ Commit(ready) /\ UNCHANGED <<amap, count>>
  <2>1. ready = amap
    BY <1>0, <1>6
  <2> HIDE DEF ready, Commit
  <2> QED
    BY <1>0, <1>5, <1>6, <2>1
<1>7. CASE /\ Splices(h.floors) # {} /\ pc' = "rebuild" /\ UNCHANGED count
           /\ LET put == IF BuiltMap(h.floors) = None THEN kept ELSE BuiltMap(h.floors)
              IN  amap' = put /\ Commit(put)
  <2> HIDE DEF kept, Commit, h
  <2> QED
    BY <1>4, <1>5, <1>7
<1>8. CASE /\ Splices(h.floors) # {} /\ pc' = "rebuild" /\ VendorFails /\ amap' = kept /\ Commit(kept)
  <2> HIDE DEF kept, Commit, h
  <2> QED
    BY <1>4, <1>5, <1>8
<1> QED
  BY <1>3, <1>6, <1>7, <1>8 DEF Harvest, done

-----------------------------------------------------------------------------
(* The recovery of a command that only gates the store again *)

LEMMA MeasuredFloorsAreInForce ==
  ASSUME NEW m, NEW ex, MeasuredFloor(m, ex) # None
  PROVE  InForce(MeasuredFloor(m, ex))
<1> DEFINE price == SideSearch(m, ex, "price")
           volume == SideSearch(m, ex, "volume")
           Splice(x) == x.resolved /\ x.day # None
<1>1. MeasuredFloor(m, ex) = TwoSided(m, ex, price, volume)
  BY DEF MeasuredFloor
<1> HIDE DEF price, volume
<1>2. Splice(price) \/ Splice(volume)
  BY <1>1 DEF TwoSided
<1>3. MeasuredFloor(m, ex) =
        [ex |-> ex, day |-> price.day, resolved |-> Splice(price), p |-> CanonicalFactors(m)[ex].p,
         vday |-> volume.day, vresolved |-> Splice(volume), vmeasured |-> volume.resolved]
  BY <1>1, <1>2 DEF TwoSided
<1>4. CASE Splice(price)
  <2>1. Splice(price) = TRUE /\ price.day # None
    BY <1>4
  <2> HIDE DEF Splice
  <2>2. MeasuredFloor(m, ex).resolved = TRUE /\ MeasuredFloor(m, ex).day = price.day
    BY <1>3, <2>1
  <2> QED
    BY <2>1, <2>2 DEF InForce
<1>5. CASE Splice(volume)
  <2>1. Splice(volume) = TRUE /\ volume.day # None
    BY <1>5
  <2> HIDE DEF Splice
  <2>2. MeasuredFloor(m, ex).vresolved = TRUE /\ MeasuredFloor(m, ex).vday = volume.day
    BY <1>3, <2>1
  <2> QED
    BY <2>1, <2>2 DEF InForce
<1> QED
  BY <1>2, <1>4, <1>5

LEMMA TriedFloorsHold ==
  ASSUME NoneIsNeither, NEW m, NEW acc, IsMap(acc.map), NEW f, f # None => InForce(f)
  PROVE  LET next == TryFloor(m, acc, f).map
         IN  IsMap(next) /\ (HoldsFloor(acc.map) => HoldsFloor(next))
<1>1. CASE f = None
  BY <1>1 DEF TryFloor
<1>2. CASE f # None
  <2> DEFINE trial == StoredFor(acc.map, f)
  <2>1. IsMap(trial) /\ HoldsFloor(trial)
    <3>1. CASE f \in acc.map.floors
      BY <1>2, <3>1 DEF StoredFor, HoldsFloor, IsMap
    <3>2. CASE f \notin acc.map.floors
      <4>1. trial = [acc.map EXCEPT !.floors = WithFloor(@, f)]
        BY <3>2 DEF StoredFor
      <4>2. DOMAIN trial = MapFields /\ f \in trial.floors /\ trial.fetch = acc.map.fetch
        BY <4>1 DEF IsMap, MapFields, WithFloor
      <4> QED
        BY <1>2, <4>2  DEF NoneIsNeither, IsMap, HoldsFloor
    <3> QED
      BY <3>1, <3>2
  <2> HIDE DEF trial
  <2>2. TryFloor(m, acc, f) = Better(acc, trial, Predicted(m, trial))
    BY <1>2 DEF TryFloor, trial
  <2>3. TryFloor(m, acc, f).map = acc.map \/ TryFloor(m, acc, f).map = trial
    BY <2>2 DEF Better
  <2> QED
    BY <2>1, <2>3
<1> QED
  BY <1>1, <1>2

\* The recursion of Accepted, as far as the first n of its steps.
Tries(m, due, n, tried) ==
    tried = [i \in 0 .. n |->
               IF i = 0 THEN [map |-> m, best |-> Predicted(m, m)]
               ELSE LET acc == tried[i - 1]
                        ex  == m.fetch + 1 - i
                    IN IF ex \notin due THEN acc ELSE TryFloor(m, acc, MeasuredFloor(acc.map, ex))]

LEMMA TriesExist ==
  ASSUME NEW m, NEW due, NEW n \in Nat
  PROVE  \E tried : Tries(m, due, n, tried)
<1> DEFINE T == {i \in 1 .. n : ~\E tried : Tries(m, due, i, tried)}
           Trial(acc, i) == IF m.fetch + 1 - i \notin due THEN acc
                           ELSE TryFloor(m, acc, MeasuredFloor(acc.map, m.fetch + 1 - i))
           first == [map |-> m, best |-> Predicted(m, m)]
<1>0. \A k, t : Tries(m, due, k, t) <=> t = [i \in 0 .. k |-> IF i = 0 THEN first ELSE Trial(t[i - 1], i)]
  BY DEF Tries
<1> HIDE DEF Trial, first
<1>1. Tries(m, due, 0, [i \in 0 .. 0 |-> first])
  <2>1. [i \in 0 .. 0 |-> first] =
        [i \in 0 .. 0 |-> IF i = 0 THEN first ELSE Trial([j \in 0 .. 0 |-> first][i - 1], i)]
    OBVIOUS
  <2> QED
    BY <1>0, <2>1
<1>2. ASSUME T # {} PROVE FALSE
  <2>1. PICK x \in T : \A i \in T : x <= i
    <3>1. T \subseteq 1 .. n
      OBVIOUS
    <3> HIDE DEF T
    <3> QED
      BY <1>2, <3>1, HasLeast
  <2>2. x \in 1 .. n
    BY <2>1
  <2>3. PICK less : Tries(m, due, x - 1, less)
    <3>1. CASE x = 1
      BY <1>1, <3>1
    <3>2. CASE x # 1
      <4>1. x - 1 \in 1 .. n /\ x - 1 \notin T
        BY <2>1, <2>2, <3>2
      <4> QED
        BY <4>1
    <3> QED
      BY <3>1, <3>2
  <2> DEFINE more == [i \in 0 .. x |-> IF i = x THEN Trial(less[x - 1], x) ELSE less[i]]
  <2>4. less = [i \in 0 .. x - 1 |-> IF i = 0 THEN first ELSE Trial(less[i - 1], i)]
    BY <1>0, <2>3
  <2>5. ASSUME NEW i \in 0 .. x
        PROVE  more[i] = IF i = 0 THEN first ELSE Trial(more[i - 1], i)
    <3>1. CASE i = x
      BY <2>2, <3>1
    <3>2. CASE i # x /\ i # 0
      <4>1. i \in 0 .. x - 1 /\ i - 1 \in 0 .. x /\ i - 1 # x
        BY <2>2, <3>2
      <4>2. less[i] = Trial(less[i - 1], i)
        BY <2>4, <3>2, <4>1
      <4> QED
        BY <3>2, <4>1, <4>2
    <3>3. CASE i = 0
      <4>1. 0 \in 0 .. x - 1 /\ x # 0
        BY <2>2
      <4>2. less[0] = first
        BY <2>4, <4>1
      <4> QED
        BY <3>3, <4>1, <4>2
    <3> QED
      BY <3>1, <3>2, <3>3
  <2>6. more = [i \in 0 .. x |-> IF i = 0 THEN first ELSE Trial(more[i - 1], i)]
    <3>1. more = [i \in 0 .. x |-> more[i]]
      OBVIOUS
    <3> HIDE DEF more
    <3> QED
      BY <2>5, <3>1
  <2>7. Tries(m, due, x, more)
    <3> HIDE DEF more
    <3> QED
      BY <1>0, <2>6
  <2> QED
    BY <2>1, <2>7
<1> QED
  BY <1>1, <1>2

LEMMA AcceptedIsTried ==
  ASSUME NEW m, m.fetch \in Nat
  PROVE  \E tried : /\ Tries(m, RecoveryEvents(sym, bars, m), m.fetch, tried)
                    /\ Accepted(m) = tried[m.fetch].map
<1> DEFINE due == RecoveryEvents(sym, bars, m)
           tried == CHOOSE t : t = [n \in 0 .. m.fetch |->
               IF n = 0 THEN [map |-> m, best |-> Predicted(m, m)]
               ELSE LET acc == t[n - 1]
                        ex  == m.fetch + 1 - n
                    IN IF ex \notin due THEN acc ELSE TryFloor(m, acc, MeasuredFloor(acc.map, ex))]
<1>1. \E t : t = [n \in 0 .. m.fetch |->
               IF n = 0 THEN [map |-> m, best |-> Predicted(m, m)]
               ELSE LET acc == t[n - 1]
                        ex  == m.fetch + 1 - n
                    IN IF ex \notin due THEN acc ELSE TryFloor(m, acc, MeasuredFloor(acc.map, ex))]
  <2>1. PICK t : Tries(m, due, m.fetch, t)
    BY TriesExist
  <2> HIDE DEF due
  <2> QED
    BY <2>1, Zenon DEF Tries
<1>2. Tries(m, due, m.fetch, tried)
  <2> HIDE DEF due
  <2>1. tried = [n \in 0 .. m.fetch |->
               IF n = 0 THEN [map |-> m, best |-> Predicted(m, m)]
               ELSE LET acc == tried[n - 1]
                        ex  == m.fetch + 1 - n
                    IN IF ex \notin due THEN acc ELSE TryFloor(m, acc, MeasuredFloor(acc.map, ex))]
    BY <1>1, Zenon
  <2> HIDE DEF tried
  <2> QED
    BY <2>1, Zenon DEF Tries
<1>3. Accepted(m) = tried[m.fetch].map
  BY Zenon DEF Accepted
<1> HIDE DEF tried
<1> QED
  BY <1>2, <1>3, Zenon

(* A recovery keeps the map a map, and gives up no floor in force. *)
LEMMA AcceptedMaps ==
  ASSUME NoneIsNeither, NEW m, IsMap(m)
  PROVE  IsMap(Accepted(m)) /\ (HoldsFloor(m) => HoldsFloor(Accepted(m)))
<1> DEFINE due == RecoveryEvents(sym, bars, m)
<1>0. m.fetch \in Nat
  BY DEF IsMap
<1>1. PICK tried : Tries(m, due, m.fetch, tried) /\ Accepted(m) = tried[m.fetch].map
  BY <1>0, AcceptedIsTried
<1> HIDE DEF due
<1> DEFINE Good(i) == IsMap(tried[i].map) /\ (HoldsFloor(m) => HoldsFloor(tried[i].map))
           first == [map |-> m, best |-> Predicted(m, m)]
           T == {i \in 1 .. m.fetch : ~Good(i)}
<1>2. \A i \in 0 .. m.fetch :
        tried[i] = IF i = 0 THEN first
                   ELSE IF m.fetch + 1 - i \notin due THEN tried[i - 1]
                   ELSE TryFloor(m, tried[i - 1], MeasuredFloor(tried[i - 1].map, m.fetch + 1 - i))
  <2>1. tried = [i \in 0 .. m.fetch |->
                   IF i = 0 THEN first
                   ELSE IF m.fetch + 1 - i \notin due THEN tried[i - 1]
                   ELSE TryFloor(m, tried[i - 1], MeasuredFloor(tried[i - 1].map, m.fetch + 1 - i))]
    BY <1>1 DEF Tries
  <2> HIDE DEF first
  <2> QED
    BY <2>1
<1>3. Good(0)
  <2>1. tried[0] = first
    BY <1>0, <1>2
  <2>2. first.map = m
    OBVIOUS
  <2> HIDE DEF first
  <2> QED
    BY <2>1, <2>2
<1> HIDE DEF first
<1>4. ASSUME T # {} PROVE FALSE
  <2>1. PICK x \in T : \A i \in T : x <= i
    <3>1. T \subseteq 1 .. m.fetch
      OBVIOUS
    <3> HIDE DEF T
    <3> QED
      BY <1>0, <1>4, <3>1, HasLeast
  <2>2. x \in 1 .. m.fetch /\ ~Good(x)
    BY <2>1
  <2>3. Good(x - 1)
    <3>1. CASE x = 1
      BY <1>3, <3>1
    <3>2. CASE x # 1
      <4>1. x - 1 \in 1 .. m.fetch /\ x - 1 \notin T
        BY <1>0, <2>1, <2>2, <3>2
      <4> QED
        BY <4>1
    <3> QED
      BY <3>1, <3>2
  <2> DEFINE ex == m.fetch + 1 - x
             acc == tried[x - 1]
  <2>4. tried[x] = IF ex \notin due THEN acc ELSE TryFloor(m, acc, MeasuredFloor(acc.map, ex))
    BY <1>0, <1>2, <2>2
  <2>5. MeasuredFloor(acc.map, ex) # None => InForce(MeasuredFloor(acc.map, ex))
    BY MeasuredFloorsAreInForce
  <2> HIDE DEF ex, acc
  <2>6. IsMap(acc.map) /\ (HoldsFloor(m) => HoldsFloor(acc.map))
    BY <2>3 DEF acc
  <2>7. /\ IsMap(TryFloor(m, acc, MeasuredFloor(acc.map, ex)).map)
        /\ HoldsFloor(acc.map) => HoldsFloor(TryFloor(m, acc, MeasuredFloor(acc.map, ex)).map)
    BY <2>5, <2>6, TriedFloorsHold
  <2>8. Good(x)
    BY <2>4, <2>6, <2>7
  <2> QED
    BY <2>2, <2>8
<1>5. m.fetch \notin T
  BY <1>4
<1>6. Good(m.fetch)
  BY <1>0, <1>3, <1>5
<1> QED
  BY <1>1, <1>6

LEMMA StartRegateOwes == ASSUME NoneIsNeither, StoreInv, OwedInv, StartRegate PROVE OwedInv'
<1>0. /\ UNCHANGED <<sym, ruling, bars, ledger, rec, now>> /\ pc = "idle" /\ job = NoJob
      /\ DOMAIN job = {"work", "map", "left", "table", "then", "window", "hunt"}
      /\ rec # None /\ IsRow(rec) /\ (rec.floorEvents # {} => HoldsFloor(amap))
      /\ NeedsMap' = NeedsMap
      /\ DOMAIN count' = DOMAIN count /\ count'.deaths = count.deaths /\ count'.done = "no"
  BY DEF StartRegate, OwedInv, RowsAreRows, ClaimInv, StoreInv, NeedsMap, ClassifyRoute, Clamp, End
<1> DEFINE t == Tally(sym, Today, bars)
           tries == amap # None /\ t.days - t.g1p >= MinCliffDays
           worked == IF tries THEN RecoverOne(rec, RecoveryEvents(sym, bars, amap)) ELSE rec
           map == IF tries THEN Accepted(amap) ELSE amap
<1>1. \/ /\ map # amap /\ amap' = map
         /\ job' = Rebuild(ClaimFloors(worked, map), map, FALSE, "resettle")
         /\ pc' = "rebuild"
      \/ job' = Working(worked) /\ pc' = "resettle" /\ amap' = amap
  BY DEF StartRegate
<1>2. /\ IsRow(worked) /\ worked.byRecovery = rec.byRecovery /\ worked.floorEvents = rec.floorEvents
  <2>1. CASE tries
    <3> DEFINE events == RecoveryEvents(sym, bars, amap)
    <3>1. worked = [rec EXCEPT !.floors = ruling.floors, !.hunted = @ \/ events # {}]
      BY <2>1 DEF RecoverOne
    <3> HIDE DEF worked, events
    <3> QED
      BY <1>0, <3>1 DEF IsRow, Row
  <2>2. CASE ~tries
    <3>1. worked = rec
      BY <2>2
    <3> QED
      BY <1>0, <3>1
  <2> QED
    BY <2>1, <2>2
<1>3. /\ map # None => IsMap(map)
      /\ HoldsFloor(amap) => HoldsFloor(map)
      /\ amap # None => map # None
      /\ amap = None => map = amap
  BY AcceptedMaps DEF OwedInv, RowsAreRows, IsMap
<1> HIDE DEF worked, map, tries
<1>4. /\ Regated' /\ ~Processing' /\ ~Hunting' /\ ~Gated' /\ ~Recovering' /\ ~Hunted' /\ ~Fetching'
      /\ pc' \in {"rebuild", "resettle"} /\ (pc' = "rebuild" => job'.then = "resettle")
  BY <1>0, <1>1 DEF Regated, Processing, Hunting, Gated, Recovering, Hunted, Fetching, Rebuild, Working
<1>5. /\ IsRow(job'.work) /\ job'.work.byRecovery = rec.byRecovery
      /\ job'.work.floorEvents # {} => HoldsFloor(amap')
      /\ HoldsFloor(amap) => HoldsFloor(amap')
      /\ amap' # None => IsMap(amap') /\ amap # None
  <2>1. CASE job' = Working(worked) /\ pc' = "resettle" /\ amap' = amap
    BY <1>0, <1>2, <2>1 DEF Working, OwedInv, RowsAreRows
  <2>2. CASE /\ map # amap /\ amap' = map
             /\ job' = Rebuild(ClaimFloors(worked, map), map, FALSE, "resettle")
    <3>1. job'.work = ClaimFloors(worked, map)
      BY <1>0, <2>2 DEF Rebuild
    <3>2. /\ IsRow(job'.work) /\ job'.work.byRecovery = worked.byRecovery
          /\ job'.work.floorEvents = {f.ex : f \in {g \in map.floors : InForce(g)}}
      BY <1>2, <3>1 DEF ClaimFloors, IsRow, Row
    <3> QED
      BY <1>2, <1>3, <2>2, <3>2 DEF HoldsFloor
  <2> QED
    BY <1>1, <2>1, <2>2
<1>6. RowsAreRows'
  BY <1>0, <1>4, <1>5 DEF OwedInv, RowsAreRows, IsRow, IsMap
<1>7. HuntInv' /\ ClaimInv' /\ StampInv' /\ ClearInv'
  BY <1>0, <1>4, <1>5 DEF HuntInv, ClaimInv, HoldsFloor, StampInv, ClearInv, Finished
<1>8. RouteInv'
  BY <1>0, <1>4, <1>5 DEF OwedInv, RouteInv, Processing
<1> QED
  BY <1>6, <1>7, <1>8 DEF OwedInv

LEMMA ResettleOwes == ASSUME NoneIsNeither, StoreInv, OwedInv, Resettle PROVE OwedInv'
<1>0. /\ UNCHANGED <<sym, ruling, amap, now>> /\ pc = "resettle" /\ pc' = "idle" /\ job' = NoJob
      /\ rec' = Settled(SyncFromMap(job.work)) /\ NeedsMap' = NeedsMap
      /\ DOMAIN count' = DOMAIN count /\ count'.deaths = count.deaths /\ count'.done = "regate"
      /\ IsRow(job.work) /\ rec # None /\ job.work.byRecovery = rec.byRecovery
  BY DEF Resettle, OwedInv, RowsAreRows, RouteInv, Regated, NeedsMap, ClassifyRoute, Clamp, End
<1> DEFINE r == SyncFromMap(job.work)
<1>1. IsRow(r) /\ r.byRecovery = job.work.byRecovery /\ (r.floorEvents # {} => HoldsFloor(amap))
  <2>1. CASE amap = None
    BY <1>0, <2>1 DEF SyncFromMap, OwedInv, ClaimInv
  <2>2. CASE amap # None
    <3>1. r = ClaimFloors(job.work, amap)
      BY <2>2 DEF SyncFromMap
    <3>2. /\ IsRow(r) /\ r.byRecovery = job.work.byRecovery
          /\ r.floorEvents = {f.ex : f \in {g \in amap.floors : InForce(g)}}
      BY <1>0, <3>1 DEF ClaimFloors, IsRow, Row
    <3> QED
      BY <2>2, <3>2 DEF HoldsFloor
  <2> QED
    BY <2>1, <2>2
<1> HIDE DEF r
<1>2. /\ IsRow(rec') /\ rec'.byRecovery = r.byRecovery /\ rec'.floorEvents = r.floorEvents
  BY <1>0, <1>1, SettledInHand DEF r
<1>3. RowsAreRows'
  BY <1>0, <1>2, NewRow, NoJobIsEmpty DEF OwedInv, RowsAreRows, IsRow, IsMap, Hunted, Recovering, Hunting
<1>4. HuntInv' /\ ClaimInv' /\ StampInv' /\ ClearInv'
  BY <1>0, <1>1, <1>2, NewRow, NoJobIsEmpty
     DEF HuntInv, Hunting, ClaimInv, HoldsFloor, StampInv, Gated, Recovering, Hunted, ClearInv, Finished
<1>5. RouteInv'
  <2>1. rec'.byRecovery = rec.byRecovery /\ ~Processing /\ rec' # None
    BY <1>0, <1>1, <1>2 DEF Processing, Regated, NoneIsNeither, IsRow
  <2>2. ~Processing' /\ ~Regated' /\ ~Fetching' /\ pc' # "gate" /\ pc' # "map"
    BY <1>0 DEF Processing, Regated, Fetching
  <2>3. count.deaths = 0 /\ amap # None => NeedsMap \/ rec.byRecovery
    BY <1>0, <2>1 DEF OwedInv, RouteInv
  <2> QED
    BY <1>0, <2>1, <2>2, <2>3 DEF RouteInv
<1> QED
  BY <1>3, <1>4, <1>5 DEF OwedInv

LEMMA RecordOwes == ASSUME NoneIsNeither, StoreInv, OwedInv, RecordSymbol PROVE OwedInv'
<1>0. /\ UNCHANGED <<sym, ruling, amap, now>> /\ pc = "record" /\ pc' \in {"idle", "peers"}
      /\ job' = NoJob /\ rec' = [job.work EXCEPT !.end = End] /\ NeedsMap' = NeedsMap
      /\ count'.deaths = count.deaths /\ DOMAIN count' = DOMAIN count /\ count'.erred = count.erred
      /\ (pc' = "peers" => count'.done = count.done) /\ (pc' = "idle" => halted')
      /\ IsRow(job.work) /\ Processing /\ count.done = "no"
  BY DEF RecordSymbol, OwedInv, RowsAreRows, NeedsMap, ClassifyRoute, Clamp, End, Processing, Regated
<1>1. /\ ButFor({"end"}, job.work, rec') /\ IsRow(rec') /\ rec' # None
  BY <1>0, MarkedRows DEF ButFor, NoneIsNeither, IsRow
<1>2. /\ rec'.byRecovery = job.work.byRecovery /\ rec'.floorEvents = job.work.floorEvents
      /\ rec'.status = job.work.status /\ rec'.gates = job.work.gates
      /\ rec'.rebuilt = job.work.rebuilt /\ rec'.route = job.work.route
  BY <1>1 DEF ButFor, Row
<1>3. RerouteOwed(rec') = RerouteOwed(job.work) /\ HuntOwed(rec') = HuntOwed(job.work)
  <2>1. /\ {"end"} \cap {"route", "rerouted", "tally", "status"} = {}
        /\ {"end"} \cap {"tally", "status", "hunted", "floors"} = {}
    OBVIOUS
  <2> QED
    BY <1>1, <2>1, OwedAlike, OwedAlikeToo
<1>4. RowsAreRows'
  BY <1>0, <1>1, NewRow, NoJobIsEmpty DEF OwedInv, RowsAreRows, IsRow, IsMap, Hunted, Recovering, Hunting
<1>5. HuntInv' /\ ClaimInv' /\ StampInv'
  BY <1>0, <1>2, NewRow, NoJobIsEmpty
     DEF OwedInv, HuntInv, Hunting, ClaimInv, HoldsFloor, StampInv, Gated, Recovering, Hunted
<1>6. RouteInv'
  <2>1. ~Processing' /\ ~Regated' /\ ~Fetching' /\ pc' # "gate" /\ pc' # "map"
    BY <1>0 DEF Processing, Regated, Fetching
  <2>2. rec # None => (rec.byRecovery => job.work.byRecovery)
    BY <1>0 DEF OwedInv, RouteInv
  <2>3. count.deaths = 0 /\ amap # None => NeedsMap \/ rec'.byRecovery
    BY <1>0, <1>2, <2>2 DEF OwedInv, RouteInv
  <2> QED
    BY <1>0, <1>1, <2>1, <2>3 DEF RouteInv
<1>7. ClearInv'
  <2>1. CASE pc' = "idle"
    BY <1>0, <2>1 DEF ClearInv, Finished
  <2>2. CASE pc' = "peers" /\ ~count.erred /\ rec'.status \in Terminal /\ rec'.status \in Settling
    <3>1. /\ Stamped(job.work) /\ ~HuntOwed(job.work) /\ (~RerouteOwed(job.work) \/ Excused(job.work))
      BY <1>0, <1>2, <2>2 DEF OwedInv, StampInv
    <3>2. job.work.route = "map-required" => amap # None /\ Fits(amap)
      BY <1>0, <1>2, <2>2 DEF OwedInv, RouteInv, Live
    <3>3. job.work.floorEvents # {} /\ job.work.route = "map-required" => amap.floors # {}
      BY <3>2 DEF OwedInv, ClaimInv, HoldsFloor
    <3>4. NeedsReprocessing(rec', End) => RerouteOwed(rec')
      BY <1>2, <1>3, <3>1, <3>2, <3>3 DEF NeedsReprocessing, Stamped, Fits
    <3>5. NeedsReprocessing(rec', End) = NeedsReprocessing(rec, End)'
      BY <1>0 DEF NeedsReprocessing, MapCurrent, RerouteOwed, HuntOwed, HuntInScope, BelowRate, End
    <3>6. RerouteOwed(rec') /\ (~RerouteOwed(job.work) \/ Excused(job.work)) => Excused(rec)'
      BY <1>0, <1>3 DEF Excused, RerouteOwed, BelowRate
    <3> QED
      BY <3>1, <3>4, <3>5, <3>6 DEF ClearInv
  <2>3. CASE pc' = "peers" /\ ~count.erred /\ rec'.status \in Terminal /\ rec'.status \notin Settling
    <3>1. rec'.status \in Unlisted
      BY <2>3 DEF Terminal, Settling
    <3> QED
      BY <3>1 DEF ClearInv, NeedsReprocessing
  <2> QED
    BY <1>0, <2>1, <2>2, <2>3 DEF ClearInv
<1> QED
  BY <1>4, <1>5, <1>6, <1>7 DEF OwedInv

LEMMA FinishOwes == ASSUME StoreInv, OwedInv, FinishPeers PROVE OwedInv'
<1>0. /\ SameOwing /\ pc = "peers" /\ pc' = "idle" /\ job' = job /\ rec # None /\ job = NoJob
      /\ count'.deaths = count.deaths /\ DOMAIN count' = DOMAIN count /\ count'.erred = count.erred
  BY DEF FinishPeers, SameOwing, disk, OwedInv, RowsAreRows
<1>1. RowsAreRows'
  BY <1>0, SameOwingFits DEF OwedInv, SameOwing, RowsAreRows, IsRow, Hunted, Recovering, Hunting
<1>2. HuntInv' /\ ClaimInv' /\ StampInv'
  BY <1>0, SameOwingFits DEF OwedInv, SameOwing, HuntInv, Hunting, ClaimInv, StampInv, Gated, Recovering, Hunted
<1>3. RouteInv'
  BY <1>0, SameOwingFits DEF OwedInv, SameOwing, RouteInv, Processing, Regated, Fetching
<1>4. ClearInv'
  <2>1. /\ NeedsReprocessing(rec, End)' = NeedsReprocessing(rec, End) /\ Excused(rec)' = Excused(rec)
        /\ rec'.status = rec.status
    BY <1>0 DEF SameOwing, NeedsReprocessing, MapCurrent, Excused, RerouteOwed, HuntOwed, HuntInScope,
       BelowRate, End
  <2>2. ~count.erred /\ rec.status \in Terminal => ~NeedsReprocessing(rec, End) \/ Excused(rec)
    BY <1>0 DEF OwedInv, ClearInv
  <2> QED
    BY <1>0, <2>1, <2>2 DEF ClearInv
<1> QED
  BY <1>1, <1>2, <1>3, <1>4 DEF OwedInv

LEMMA DieOwes == ASSUME StoreInv, OwedInv, Die PROVE OwedInv'
<1>0. /\ SameOwing /\ pc # "idle" /\ pc' = "idle" /\ job' = NoJob
      /\ count'.deaths = count.deaths + 1 /\ DOMAIN count' = DOMAIN count /\ count'.done = count.done
      /\ count.deaths \in Nat /\ count.done = "no"
  BY DEF Die, SameOwing, disk, OwedInv, RowsAreRows
<1>1. RowsAreRows'
  BY <1>0, NewRow, NoJobIsEmpty, SameOwingFits
     DEF OwedInv, SameOwing, RowsAreRows, IsRow, Hunted, Recovering, Hunting
<1>2. HuntInv' /\ ClaimInv' /\ StampInv' /\ ClearInv'
  BY <1>0, NewRow, NoJobIsEmpty, SameOwingFits
     DEF OwedInv, SameOwing, HuntInv, Hunting, ClaimInv, StampInv, Gated, Recovering, Hunted, ClearInv, Finished
<1>3. RouteInv'
  BY <1>0, SameOwingFits DEF RouteInv, Processing, Regated, Fetching
<1> QED
  BY <1>1, <1>2, <1>3 DEF OwedInv

LEMMA RulingOwes == ASSUME StoreInv, OwedInv, RulingMoves PROVE OwedInv'
<1>0. /\ UNCHANGED <<sym, amap, rec, now, job>> /\ pc = "idle" /\ pc' = "idle" /\ NeedsMap' = NeedsMap
      /\ count'.deaths = count.deaths /\ DOMAIN count' = DOMAIN count /\ count'.done = "no"
  BY DEF RulingMoves, disk, OwedInv, RowsAreRows, NeedsMap, ClassifyRoute, Clamp, End
<1>1. RowsAreRows'
  BY <1>0 DEF OwedInv, RowsAreRows, IsMap, IsRow, Hunted, Recovering, Hunting
<1>2. HuntInv' /\ ClaimInv' /\ StampInv' /\ ClearInv'
  BY <1>0 DEF OwedInv, HuntInv, Hunting, ClaimInv, HoldsFloor, StampInv, Gated, Recovering, Hunted, ClearInv, Finished
<1>3. RouteInv'
  BY <1>0 DEF OwedInv, RouteInv, Processing, Regated, Fetching
<1> QED
  BY <1>1, <1>2, <1>3 DEF OwedInv

LEMMA IncidentOwes == ASSUME StoreInv, OwedInv, Incident PROVE OwedInv'
<1>0. /\ UNCHANGED <<sym, ruling, now, job>> /\ pc = "idle" /\ pc' = "idle" /\ amap' = None /\ rec' = None
      /\ count'.deaths = count.deaths /\ DOMAIN count' = DOMAIN count /\ count'.done = "no"
      /\ job = NoJob
  BY DEF Incident, OwedInv, RowsAreRows
<1>1. RowsAreRows'
  BY <1>0, NewRow, NoJobIsEmpty DEF OwedInv, RowsAreRows, Hunted, Recovering, Hunting
<1>2. HuntInv' /\ ClaimInv' /\ StampInv' /\ ClearInv'
  BY <1>0, NewRow, NoJobIsEmpty
     DEF HuntInv, Hunting, ClaimInv, StampInv, Gated, Recovering, Hunted, ClearInv, Finished
<1>3. RouteInv'
  BY <1>0 DEF RouteInv, Processing, Regated, Fetching
<1> QED
  BY <1>1, <1>2, <1>3 DEF OwedInv

LEMMA OwedNext == ASSUME NoneIsNeither PROVE StoreInv /\ OwedInv /\ [RecoveryNext]_allVars => OwedInv'
<1> SUFFICES ASSUME StoreInv, OwedInv, [RecoveryNext]_allVars PROVE OwedInv'
  OBVIOUS
<1>1. CASE UNCHANGED allVars
  <2>1. SameOwing /\ UNCHANGED <<pc, job, count, halted>>
    BY <1>1 DEF allVars, vars, disk, SameOwing
  <2>2. /\ NeedsReprocessing(rec, End)' = NeedsReprocessing(rec, End) /\ Excused(rec)' = Excused(rec)
        /\ Excused(job.work)' = Excused(job.work) /\ HuntOwed(job.work)' = HuntOwed(job.work)
        /\ RerouteOwed(job.work)' = RerouteOwed(job.work) /\ Stamped(job.work)' = Stamped(job.work)
    BY <2>1 DEF SameOwing, NeedsReprocessing, MapCurrent, Excused, RerouteOwed, HuntOwed, HuntInScope,
       BelowRate, End, Stamped
  <2>3. RowsAreRows' /\ ClaimInv' /\ RouteInv'
    BY <2>1, SameOwingFits DEF OwedInv, SameOwing, RowsAreRows, ClaimInv, RouteInv, Processing, Regated,
       Fetching, Hunted, Recovering, Hunting, IsRow
  <2>4. HuntInv'
    BY <2>1, SameOwingFits DEF OwedInv, SameOwing, HuntInv, Hunting, HoldsFloor, IsMap, Fits, MapCurrent, End
  <2>5. StampInv' /\ ClearInv'
    BY <2>1, <2>2 DEF OwedInv, SameOwing, StampInv, Gated, Recovering, Hunting, Hunted, ClearInv, Finished
  <2> QED
    BY <2>3, <2>4, <2>5 DEF OwedInv
<1>2. CASE Next
  BY <1>2, StartRunOwes, StartRegateOwes, DieOwes, RulingOwes, PlanOwes, BuildMapOwes, UseMapOwes,
     RebuildDayOwes, FetchOwes, GateOwes, RerouteOwes, StartHuntOwes, RoundOwes, PromoteOwes, HarvestOwes,
     RecordOwes, FinishOwes, ResettleOwes DEF Next, Step
<1>3. CASE Incident
  BY <1>3, IncidentOwes
<1> QED
  BY <1>1, <1>2, <1>3 DEF RecoveryNext

LEMMA OwedAlways == ASSUME NoneIsNeither PROVE RecoverySpec => []OwedInv
<1>1. StoreInv /\ OwedInv /\ [RecoveryNext]_allVars => OwedInv'
  BY OwedNext
<1> QED
  BY <1>1, OwedInit, StoreAlways, PTL DEF RecoverySpec

(* What un-skips a terminal symbol clears itself.  A run that met no vendor *)
(* error leaves its symbol with nothing owed, however many earlier runs     *)
(* were killed at whatever step: not its window, not its gates, not a       *)
(* rebuild by the map on disk, not a hunt, not a floor measurement.  There  *)
(* is one thing it can leave: a recovery pass that falls due in the hunt    *)
(* itself, after this run's own recovery step, under a map that a killed    *)
(* run had left; the next run makes it                                      *)
(* (universe_backfill.needs_reprocessing, process_symbol,                   *)
(* reroute_quarantined_to_map, run_floor_pass).                             *)
THEOREM NothingStaysOwed ==
    ASSUME NoneIsNeither PROVE RecoverySpec => [](SelfClearing \/ Excused(rec))
<1>1. OwedInv => SelfClearing \/ Excused(rec)
  <2>1. OwedInv => ClearInv
    BY DEF OwedInv
  <2> QED
    BY <2>1 DEF ClearInv, SelfClearing, Finished
<1> QED
  BY <1>1, OwedAlways, PTL

(* A row claims floors only with a map on disk that has a floor in force:   *)
(* no kill between the files of the map and of the row, and no recovery     *)
(* taken back, leaves a claim with nothing behind it                        *)
(* (universe_backfill.SymbolRecord.claim_floors_from_map,                   *)
(* sync_row_from_map, price_recovery.recover_symbol).                       *)
THEOREM ClaimsHaveEvidence ==
    ASSUME NoneIsNeither
    PROVE  RecoverySpec => [](rec # None /\ rec.floorEvents # {} => HoldsFloor(amap))
<1>1. OwedInv => (rec # None /\ rec.floorEvents # {} => HoldsFloor(amap))
  BY DEF OwedInv, ClaimInv
<1> QED
  BY <1>1, OwedAlways, PTL

-----------------------------------------------------------------------------
LEMMA EventsUpToTheLastDay ==
  ASSUME NEW s \in Symbols, NEW days, NEW t1 \in Nat, NEW t2 \in Nat,
         \A d \in days : d \in Nat /\ d <= t1 /\ d <= t2
  PROVE  {ex \in ShareCountExs(s, t1) : (\E d \in days : d < ex) /\ (\E d \in days : d >= ex)} =
         {ex \in ShareCountExs(s, t2) : (\E d \in days : d < ex) /\ (\E d \in days : d >= ex)}
<1>1. \A f \in Range(s.factors) : f.ex \in Nat
  BY UniverseAssumption
<1> DEFINE Moves(f) == ShareCount(f.kind) /\ f.p # 0
<1>2. \A t : ShareCountExs(s, t) = {f.ex : f \in {g \in Range(s.factors) : g.ex <= t /\ Moves(g)}}
  BY DEF ShareCountExs
<1> HIDE DEF Moves
<1>3. ASSUME NEW a \in Nat, NEW b \in Nat, \A d \in days : d \in Nat /\ d <= a /\ d <= b,
             NEW ex \in ShareCountExs(s, a), \E d \in days : d >= ex
      PROVE  ex \in ShareCountExs(s, b)
  <2>1. PICK f \in Range(s.factors) : ex = f.ex /\ f.ex <= a /\ Moves(f)
    BY <1>2, <1>3
  <2>2. f.ex <= b
    BY <1>1, <1>3, <2>1
  <2> QED
    BY <1>2, <2>1, <2>2
<1> QED
  BY <1>3

(* A store counts the same whichever day it is looked at, as long as no     *)
(* stored day is in the future.                                             *)
LEMMA TallyIsOfTheStore ==
  ASSUME NEW s \in Symbols, NEW days, NEW t1 \in Nat, NEW t2 \in Nat,
         \A d \in DOMAIN days : d \in Nat /\ d <= t1 /\ d <= t2
  PROVE  Tally(s, t1, days) = Tally(s, t2, days)
<1>1. {ex \in ShareCountExs(s, t1) : (\E d \in DOMAIN days : d < ex) /\ (\E d \in DOMAIN days : d >= ex)} =
      {ex \in ShareCountExs(s, t2) : (\E d \in DOMAIN days : d < ex) /\ (\E d \in DOMAIN days : d >= ex)}
  BY EventsUpToTheLastDay
<1>2. Gate3Rows(s, t1, days) = Gate3Rows(s, t2, days)
  BY <1>1, Zenon DEF Gate3Rows
<1> QED
  BY <1>2, Zenon DEF Tally

\* The row's tally, if it has one, is the store's.
Counted(r) == r.tally # None => r.tally = Tally(sym, Today, bars)

TallyInv ==
    /\ count.deaths = 0 /\ pc \in {"idle", "peers"} /\ rec # None => Counted(rec)
    /\ pc \in {"reroute", "hunt", "round", "promote", "harvest", "record"} => Counted(job.work)
    /\ pc = "map" => job.work.tally = None
    /\ pc = "rebuild" => job.then # "idle"
    /\ DOMAIN count = {"runs", "deaths", "cut", "torn", "erred", "done"} /\ count.deaths \in Nat

LEMMA TallyInit == RecoveryInit => TallyInv
  BY DEF RecoveryInit, Init, TallyInv

\* The files stand still, and so does the clock.
Still == UNCHANGED <<sym, bars, now>>

LEMMA CountedStill ==
  ASSUME Still, NEW r, NEW x, AsCounted(x, r), Counted(r)
  PROVE  x.tally # None => x.tally = Tally(sym', Today', bars')
  BY DEF Still, AsCounted, Counted, Today

\* Of the rows only the one in hand moved, and it counts as it did or counts anew.
LEMMA InHandTallies ==
  ASSUME TallyInv, Still, UNCHANGED rec, pc \notin {"idle", "peers"}, pc' \notin {"idle", "peers"},
         DOMAIN count' = DOMAIN count, count'.deaths = count.deaths,
         pc' \in {"reroute", "hunt", "round", "promote", "harvest", "record"} =>
            (job'.work.tally # None => job'.work.tally = Tally(sym', Today', bars')),
         pc' = "map" => job'.work.tally = None, pc' = "rebuild" => job'.then # "idle"
  PROVE  TallyInv'
  BY DEF TallyInv, Counted, Still, Today

\* The row in hand keeps the count it had.
LEMMA SameCountTallies ==
  ASSUME TallyInv, Still, UNCHANGED rec, pc' \notin {"idle", "peers", "map", "rebuild"}, pc \notin {"idle", "peers"},
         DOMAIN count' = DOMAIN count, count'.deaths = count.deaths,
         pc \in {"map", "reroute", "hunt", "round", "promote", "harvest"}, AsCounted(job'.work, job.work)
  PROVE  TallyInv'
<1>1. Counted(job.work)
  BY DEF TallyInv, Counted
<1>2. job'.work.tally # None => job'.work.tally = Tally(sym', Today', bars')
  BY <1>1, CountedStill
<1> QED
  BY <1>2, InHandTallies

LEMMA SettledTallies ==
  ASSUME StoreInv, NEW r, CountsDays(r)
  PROVE  /\ CountsDays(Settled(r)) /\ Settled(r).tally = Tally(sym, Today, bars)
  BY SettledCountsDays DEF Settled, ApplyTally, CountsDays

LEMMA StartRunTallies == ASSUME StoreInv, TallyInv, StartRun PROVE TallyInv'
<1>1. PICK r \in RunDates :
        /\ r[1] >= now[1] /\ r[2] >= now[2] /\ now' = r /\ job' = NoJob
        /\ count' = [count EXCEPT !.runs = @ + 1, !.erred = FALSE, !.done = "no"]
        /\ pc' \in {"idle", "peers", "plan"}
  BY DEF StartRun
<1>2. UNCHANGED <<sym, bars, rec>> /\ pc = "idle"
  BY DEF StartRun, disk
<1>3. DOMAIN count' = DOMAIN count /\ count'.deaths = count.deaths
  BY <1>1 DEF TallyInv
<1>4. Tally(sym, Today', bars) = Tally(sym, Today, bars)
  <2>1. now[1] \in Nat /\ now[2] \in Nat /\ r[1] \in Nat /\ r[2] \in Nat /\ now[1] <= now[2]
    BY RunDatesAreNumbers, UniverseAssumption DEF StoreInv
  <2>2. \A d \in DOMAIN bars : d \in Nat /\ d <= now[2] /\ d <= r[2]
    <3>1. \A d \in DOMAIN bars : d \in Nat /\ d <= now[1]
      BY UniverseAssumption DEF StoreInv, End
    <3> QED
      BY <1>1, <2>1, <3>1
  <2>3. sym \in Symbols /\ Today' = r[2] /\ Today = now[2]
    BY <1>1 DEF StoreInv, Today
  <2> QED
    BY <2>1, <2>2, <2>3, TallyIsOfTheStore
<1> QED
  BY <1>1, <1>2, <1>3, <1>4 DEF TallyInv, Counted

LEMMA TallyStepKeeps ==
  ASSUME StoreInv, RowInv, TallyInv, Next PROVE TallyInv'
<1>0. /\ DOMAIN job = {"work", "map", "left", "table", "then", "window", "hunt"}
      /\ CountsDays(job.work)
      /\ DOMAIN count = {"runs", "deaths", "cut", "torn", "erred", "done"} /\ count.deaths \in Nat
  BY DEF StoreInv, RowInv, TallyInv
<1>e. ASSUME UNCHANGED count \/ VendorFails
      PROVE  DOMAIN count' = DOMAIN count /\ count'.deaths = count.deaths
  BY <1>0, <1>e DEF VendorFails
<1>1. CASE StartRun
  BY <1>1, StartRunTallies
<1>2. CASE Plan
  <2>1. Still /\ UNCHANGED <<rec, count>> /\ pc = "plan" /\ pc' \in {"record", "fetch", "mapped", "map"}
    BY <1>2 DEF Plan, disk, Still
  <2>2. job'.work.tally = None
    <3>1. \/ \E status : job'.work = Carried([NewRecord EXCEPT !.status = status])
          \/ \E route : job'.work = Carried([NewRecord EXCEPT !.route = route])
      BY <1>0, <1>2 DEF Plan, Working
    <3>2. /\ \A status : Carried([NewRecord EXCEPT !.status = status]).tally = None
          /\ \A route : Carried([NewRecord EXCEPT !.route = route]).tally = None
      BY DEF Carried, NewRecord
    <3> QED
      BY <3>1, <3>2
  <2> QED
    BY <2>1, <2>2, InHandTallies
<1>3. CASE BuildMapForIngest
  <2>1. Still /\ UNCHANGED rec /\ pc = "map" /\ pc' \in {"record", "mapped"} /\ (UNCHANGED count \/ VendorFails)
    BY <1>3 DEF BuildMapForIngest, Still
  <2>2. PICK status, m : \/ job'.work = [job.work EXCEPT !.status = status]
                         \/ job'.work = Reopened(job.work, m)
    BY <1>0, <1>3 DEF BuildMapForIngest, Working
  <2>3. AsCounted(job'.work, job.work)
    <3>1. /\ AsCounted([job.work EXCEPT !.status = status], job.work)
          /\ AsCounted(Reopened(job.work, m), job.work)
      BY <1>0, MarksKeepTheTally
    <3> QED
      BY <2>2, <3>1
  <2> QED
    BY <1>e, <2>1, <2>3, SameCountTallies
<1>4. CASE UseMap \/ RebuildDay \/ FetchWindow \/ WriteMonth
  <2>1. /\ UNCHANGED <<sym, now, rec>> /\ (UNCHANGED count \/ VendorFails)
        /\ pc \in {"mapped", "rebuild", "fetch", "write"}
        /\ pc' \in {"rebuild", "fetch", "write", "gate", "regate", "verdict", "resettle", "idle"}
    BY <1>4 DEF UseMap, RebuildDay, FetchWindow, WriteMonth, disk, StoreInv
  <2>2. (pc' = "rebuild" => job'.then # "idle") /\ pc' # "idle"
    <3>1. CASE UseMap
      BY <1>0, <3>1 DEF UseMap, Rebuild
    <3>2. CASE RebuildDay
      BY <1>0, <3>2 DEF RebuildDay, TallyInv
    <3>3. CASE FetchWindow \/ WriteMonth
      BY <3>3 DEF FetchWindow, WriteMonth
    <3> QED
      BY <1>4, <3>1, <3>2, <3>3
  <2> QED
    BY <1>e, <2>1, <2>2 DEF TallyInv
<1>5. CASE GateSymbol \/ GateAgain \/ JudgeHunt
  <2>1. Still /\ UNCHANGED <<rec, count>> /\ pc \in {"gate", "regate", "verdict"}
        /\ pc' \in {"reroute", "hunt", "record"}
    BY <1>5 DEF GateSymbol, GateAgain, JudgeHunt, AfterSettling, disk, Still
  <2> DEFINE settled == Settled(job.work)
  <2>2. "tally" \in DOMAIN settled /\ settled.tally = Tally(sym, Today, bars)
    BY <1>0, SettledTallies DEF CountsDays
  <2> HIDE DEF settled
  <2>3. \/ \E errors : job'.work = [settled EXCEPT !.errors = errors]
        \/ job'.work = settled
    BY <1>0, <1>5 DEF GateSymbol, GateAgain, JudgeHunt, Working, settled
  <2>4. job'.work.tally = Tally(sym', Today', bars')
    BY <2>1, <2>2, <2>3 DEF Still, Today
  <2> QED
    BY <2>1, <2>4, InHandTallies
<1>6. CASE Reroute
  <2>1. Still /\ UNCHANGED rec /\ pc = "reroute" /\ pc' \in {"hunt", "record", "rebuild"}
        /\ (UNCHANGED count \/ VendorFails)
    BY <1>6 DEF Reroute, Still
  <2>2. CASE pc' = "rebuild"
    <3>1. job'.then = "regate"
      BY <1>0, <1>6, <2>2 DEF Reroute, Rebuild
    <3> QED
      BY <1>e, <2>1, <2>2, <3>1, InHandTallies
  <2>3. CASE pc' # "rebuild"
    <3>1. job' = Working([job.work EXCEPT !.rerouted = TRUE])
      BY <1>6, <2>3 DEF Reroute
    <3>2. AsCounted(job'.work, job.work)
      BY <1>0, <3>1, MarksKeepTheTally DEF Working
    <3> QED
      BY <1>e, <2>1, <2>3, <3>2, SameCountTallies
  <2> QED
    BY <2>2, <2>3
<1>7. CASE StartHunt
  <2>1. Still /\ UNCHANGED <<rec, count>> /\ pc = "hunt" /\ pc' \in {"record", "round"}
    BY <1>7 DEF StartHunt, disk, Still
  <2> DEFINE marked == [job.work EXCEPT !.hunted = TRUE, !.floors = ruling.floors]
  <2>2. job'.work \in {marked, job.work}
    BY <1>0, <1>7 DEF StartHunt, Working
  <2>3. AsCounted(marked, job.work) /\ AsCounted(job.work, job.work)
    BY <1>0, MarksKeepTheTally DEF AsCounted, CountsDays
  <2> HIDE DEF marked
  <2> QED
    BY <2>1, <2>2, <2>3, SameCountTallies
<1>8. CASE HuntOneRound \/ PromoteEras
  <2>1. Still /\ UNCHANGED rec /\ pc \in {"round", "promote"} /\ pc' \in {"round", "record", "promote", "harvest"}
        /\ (UNCHANGED count \/ VendorFails)
    BY <1>8 DEF HuntOneRound, PromoteEras, HuntStops, disk, Still
  <2>2. job'.work = job.work
    BY <1>0, <1>8 DEF HuntOneRound, PromoteEras, HuntStops
  <2>3. AsCounted(job'.work, job.work)
    BY <1>0, <2>2 DEF AsCounted, CountsDays
  <2> QED
    BY <1>e, <2>1, <2>3, SameCountTallies
<1>9. CASE Harvest
  <2>1. Still /\ UNCHANGED rec /\ pc = "harvest" /\ pc' \in {"record", "rebuild"}
        /\ (UNCHANGED count \/ VendorFails)
    BY <1>9 DEF Harvest, Still
  <2>2. CASE pc' = "rebuild"
    <3>1. job'.then = "verdict"
      BY <1>0, <1>9, <2>2 DEF Harvest, Rebuild
    <3> QED
      BY <1>e, <2>1, <2>2, <3>1, InHandTallies
  <2>3. CASE pc' # "rebuild"
    <3> DEFINE marked == [job.work EXCEPT !.hunted = TRUE, !.floors = ruling.floors]
               done == ClaimFloors(marked, job.hunt.start)
    <3>1. job' = Working(done)
      BY <1>9, <2>3 DEF Harvest
    <3>2. CountsDays(marked) /\ marked.tally = job.work.tally
      BY <1>0 DEF CountsDays
    <3> HIDE DEF marked
    <3>3. "tally" \in DOMAIN done /\ done.tally = marked.tally
      BY <3>2, MarksKeepTheTally DEF AsCounted
    <3> HIDE DEF done
    <3>4. AsCounted(job'.work, job.work)
      BY <1>0, <3>1, <3>2, <3>3 DEF Working, AsCounted
    <3> QED
      BY <1>e, <2>1, <2>3, <3>4, SameCountTallies
  <2> QED
    BY <2>2, <2>3
<1>10. CASE RecordSymbol
  <2>1. Still /\ pc = "record" /\ pc' \in {"idle", "peers"} /\ rec' = [job.work EXCEPT !.end = End]
        /\ DOMAIN count' = DOMAIN count /\ count'.deaths = count.deaths
    BY <1>0, <1>10 DEF RecordSymbol, Still
  <2>2. AsCounted(rec', job.work) /\ Counted(job.work)
    BY <1>0, <2>1 DEF CountsDays, AsCounted, TallyInv
  <2>3. rec'.tally # None => rec'.tally = Tally(sym', Today', bars')
    BY <2>1, <2>2, CountedStill
  <2> QED
    BY <1>0, <2>1, <2>3 DEF TallyInv, Counted
<1>11. CASE FinishPeers
  <2>1. Still /\ UNCHANGED rec /\ pc = "peers" /\ pc' = "idle"
        /\ DOMAIN count' = DOMAIN count /\ count'.deaths = count.deaths
    BY <1>0, <1>11 DEF FinishPeers, disk, Still
  <2> QED
    BY <2>1 DEF TallyInv, Counted, Still, Today
<1>12. CASE StartRegate
  <2>1. Still /\ UNCHANGED rec /\ pc' \in {"rebuild", "resettle"}
        /\ DOMAIN count' = DOMAIN count /\ count'.deaths = count.deaths
        /\ (pc' = "rebuild" => job'.then # "idle")
    BY <1>0, <1>12 DEF StartRegate, Still, Rebuild
  <2> QED
    BY <2>1 DEF TallyInv
<1>13. CASE Resettle
  <2>1. Still /\ pc' = "idle" /\ rec' = Settled(SyncFromMap(job.work))
        /\ DOMAIN count' = DOMAIN count /\ count'.deaths = count.deaths
    BY <1>0, <1>13 DEF Resettle, Still
  <2>2. CountsDays(SyncFromMap(job.work))
    BY <1>0 DEF SyncFromMap, ClaimFloors, CountsDays
  <2>3. rec'.tally = Tally(sym', Today', bars')
    BY <2>1, <2>2, SettledTallies DEF Still, Today
  <2> QED
    BY <2>1, <2>3 DEF TallyInv, Counted
<1>14. CASE Die
  <2>1. pc' = "idle" /\ DOMAIN count' = DOMAIN count /\ count'.deaths = count.deaths + 1
    BY <1>0, <1>14 DEF Die
  <2> QED
    BY <1>0, <2>1 DEF TallyInv
<1>15. CASE RulingMoves
  <2>1. Still /\ UNCHANGED rec /\ pc = "idle" /\ pc' = "idle"
        /\ DOMAIN count' = DOMAIN count /\ count'.deaths = count.deaths
    BY <1>0, <1>15 DEF RulingMoves, disk, Still
  <2> QED
    BY <2>1 DEF TallyInv, Counted, Still, Today
<1> QED
  BY <1>1, <1>2, <1>3, <1>4, <1>5, <1>6, <1>7, <1>8, <1>9, <1>10, <1>11, <1>12, <1>13, <1>14, <1>15
     DEF Next, Step

LEMMA TallyNext == StoreInv /\ RowInv /\ TallyInv /\ [RecoveryNext]_allVars => TallyInv'
<1> SUFFICES ASSUME StoreInv, RowInv, TallyInv, [RecoveryNext]_allVars PROVE TallyInv'
  OBVIOUS
<1>1. CASE UNCHANGED allVars
  BY <1>1 DEF allVars, vars, disk, TallyInv, Counted, Today
<1>2. CASE Incident
  <2>1. rec' = None /\ pc' = "idle" /\ DOMAIN count' = DOMAIN count /\ count'.deaths = count.deaths
    BY <1>2 DEF Incident, TallyInv
  <2> QED
    BY <2>1 DEF TallyInv
<1> QED
  BY <1>1, <1>2, TallyStepKeeps DEF RecoveryNext

(* Unless a run was killed, a row that counts days counts those that are    *)
(* stored: a rebuild, a hunt or a recovery that rewrote them was gated      *)
(* again before its row was written, and a run that skipped the symbol, on  *)
(* whatever later day, found the count still right                          *)
(* (universe_backfill.process_symbol, reroute_quarantined_to_map,           *)
(* run_floor_pass, regate_universe).                                        *)
THEOREM TalliesAreOfTheStore == RecoverySpec => []RowCountsItsStore
<1>1. TallyInv => RowCountsItsStore
  BY DEF TallyInv, RowCountsItsStore, Finished, Counted
<1> QED
  BY <1>1, TallyInit, TallyNext, StoreAlways, RowAlways, PTL DEF RecoverySpec

-----------------------------------------------------------------------------
(* Sums over the parts of a set, as Total recurses.                        *)

\* The recursion of Total, on these sets.
Sums(f, D, sum) ==
    sum = [T \in D |-> IF T = {} THEN 0
                       ELSE LET e == CHOOSE x \in T : TRUE IN f[e] + sum[T \ {e}]]

\* A recursion over the parts of a finite set has a value: no size is the first to lack one.
LEMMA SumsExist ==
  ASSUME NEW f, NEW S, IsFiniteSet(S)
  PROVE  \E sum : Sums(f, SUBSET S, sum)
<1> DEFINE e(T) == CHOOSE x \in T : TRUE
           Add(T, x) == f[e(T)] + x
           B == {n \in Nat : ~\E g : Sums(f, Small(S, n), g)}
<1>0. \A D, g : Sums(f, D, g) <=> g = [T \in D |-> IF T = {} THEN 0 ELSE Add(T, g[T \ {e(T)}])]
  BY DEF Sums
<1>e. \A T : T # {} => e(T) \in T
  OBVIOUS
<1> HIDE DEF Add, e
<1>1. 0 \notin B
  <2>1. Small(S, 0) = {{}}
    BY SmallParts
  <2> DEFINE g == [T \in {{}} |-> 0]
  <2>2. g = [T \in {{}} |-> IF T = {} THEN 0 ELSE Add(T, g[T \ {e(T)}])]
    OBVIOUS
  <2>3. Sums(f, Small(S, 0), g)
    BY <1>0, <2>1, <2>2
  <2> QED
    BY <2>3
<1>2. ASSUME B # {} PROVE FALSE
  <2>1. PICK n \in B : \A k \in B : n <= k
    <3>1. B \subseteq Nat
      OBVIOUS
    <3> HIDE DEF B
    <3> QED
      BY <1>2, <3>1, HasLeastNat
  <2>2. n \in Nat /\ n # 0
    BY <1>1, <2>1
  <2>3. n - 1 \in Nat /\ n - 1 \notin B /\ (n - 1) + 1 = n
    BY <2>1, <2>2
  <2>4. PICK g : Sums(f, Small(S, n - 1), g)
    BY <2>3
  <2>5. \A T \in Small(S, n - 1) : g[T] = IF T = {} THEN 0 ELSE Add(T, g[T \ {e(T)}])
    BY <1>0, <2>4
  <2> DEFINE h == [T \in Small(S, n) |-> IF T = {} THEN 0 ELSE Add(T, g[T \ {e(T)}])]
  <2>6. ASSUME NEW T \in Small(S, n)
        PROVE  h[T] = IF T = {} THEN 0 ELSE Add(T, h[T \ {e(T)}])
    <3>1. CASE T # {}
      <4> DEFINE U == T \ {e(T)}
      <4>1. T \in SUBSET S /\ e(T) \in T
        BY <1>e, <3>1 DEF Small
      <4>2. U \in Small(S, n - 1)
        BY <2>3, <4>1, SmallParts
      <4>3. U \in Small(S, n)
        BY <2>3, <4>2, SmallParts
      <4>4. h[U] = g[U]
        <5> HIDE DEF U
        <5> QED
          BY <2>5, <4>2, <4>3
      <4> QED
        BY <3>1, <4>4
    <3> QED
      BY <3>1
  <2>7. h = [T \in Small(S, n) |-> h[T]]
    OBVIOUS
  <2>8. Sums(f, Small(S, n), h)
    <3> HIDE DEF h
    <3>1. h = [T \in Small(S, n) |-> IF T = {} THEN 0 ELSE Add(T, h[T \ {e(T)}])]
      BY <2>6, <2>7
    <3> QED
      BY <1>0, <3>1
  <2> QED
    BY <2>1, <2>8
<1>3. Cardinality(S) \in Nat /\ Small(S, Cardinality(S)) = SUBSET S
  BY SmallParts
<1>4. Cardinality(S) \notin B
  BY <1>2
<1> QED
  BY <1>3, <1>4

\* Total is what that recursion gives the whole set.
LEMMA TotalIsSum ==
  ASSUME NEW f, NEW S, IsFiniteSet(S)
  PROVE  \E sum : Sums(f, SUBSET S, sum) /\ Total(f, S) = sum[S]
<1> DEFINE sum == CHOOSE g : g = [T \in SUBSET S |->
              IF T = {} THEN 0 ELSE LET e == CHOOSE x \in T : TRUE IN f[e] + g[T \ {e}]]
<1>1. \E g : g = [T \in SUBSET S |->
              IF T = {} THEN 0 ELSE LET e == CHOOSE x \in T : TRUE IN f[e] + g[T \ {e}]]
  <2>1. PICK g : Sums(f, SUBSET S, g)
    BY SumsExist
  <2> QED
    BY <2>1, Zenon DEF Sums
<1>2. Sums(f, SUBSET S, sum)
  <2>1. sum = [T \in SUBSET S |->
              IF T = {} THEN 0 ELSE LET e == CHOOSE x \in T : TRUE IN f[e] + sum[T \ {e}]]
    BY <1>1, Zenon
  <2> HIDE DEF sum
  <2> QED
    BY <2>1, Zenon DEF Sums
<1>3. Total(f, S) = sum[S]
  BY Zenon DEF Total
<1> HIDE DEF sum
<1> QED
  BY <1>2, <1>3, Zenon

(* A sum lies where its terms lie, if that is a set with zero and closed    *)
(* under addition.                                                          *)
LEMMA TotalLies ==
  ASSUME NEW f, NEW S, IsFiniteSet(S),
         NEW G, 0 \in G, \A a, b \in G : a + b \in G, \A x \in S : f[x] \in G
  PROVE  Total(f, S) \in G
<1>1. PICK sum : Sums(f, SUBSET S, sum) /\ Total(f, S) = sum[S]
  BY TotalIsSum
<1> DEFINE W == {T \in SUBSET S : sum[T] \notin G}
<1>2. ASSUME W # {} PROVE FALSE
  <2>1. PICK T \in W : \A U \in W : U \subseteq T => U = T
    <3>1. W \subseteq SUBSET S
      OBVIOUS
    <3> HIDE DEF W
    <3> QED
      BY <1>2, <3>1, HasMinimal
  <2>2. T \in SUBSET S /\ sum[T] \notin G
    BY <2>1
  <2> DEFINE e == CHOOSE x \in T : TRUE
  <2>3. sum[T] = IF T = {} THEN 0 ELSE f[e] + sum[T \ {e}]
    BY <1>1, <2>2 DEF Sums
  <2>4. T # {} /\ e \in T
    BY <2>2, <2>3
  <2> HIDE DEF e
  <2>5. T \ {e} \in SUBSET S /\ T \ {e} # T /\ T \ {e} \subseteq T
    BY <2>2, <2>4
  <2>6. sum[T \ {e}] \in G
    BY <2>1, <2>5
  <2> QED
    BY <2>2, <2>3, <2>4, <2>6
<1> QED
  BY <1>1, <1>2

\* A sum of integers is an integer.
LEMMA TotalIsInt ==
  ASSUME NEW f, NEW S, IsFiniteSet(S), \A x \in S : f[x] \in Int
  PROVE  Total(f, S) \in Int
BY TotalLies

\* A sum of zeros is zero.
LEMMA TotalOfNothing ==
  ASSUME NEW f, NEW S, IsFiniteSet(S), \A x \in S : f[x] = 0
  PROVE  Total(f, S) = 0
<1>1. Total(f, S) \in {0}
  <2>1. \A a, b \in {0} : a + b \in {0}
    OBVIOUS
  <2>2. \A x \in S : f[x] \in {0}
    OBVIOUS
  <2> QED
    BY <2>1, <2>2, TotalLies
<1> QED
  BY <1>1

-----------------------------------------------------------------------------
(* The data of a symbol and of its vendor.                                 *)

(* Some integers, not none and finitely many, have a least one. *)
LEMMA MinIsThere ==
  ASSUME NEW S, IsFiniteSet(S), \A x \in S : x \in Int, S # {}
  PROVE  Min(S) \in S /\ \A y \in S : Min(S) <= y
<1> DEFINE upto(x) == {y \in S : y <= x}
           W == {upto(x) : x \in S}
<1>1. PICK T \in W : \A U \in W : U \subseteq T => U = T
  <2>1. W \subseteq SUBSET S /\ W # {}
    OBVIOUS
  <2> HIDE DEF W, upto
  <2>2. \E T \in W : \A U \in W : U \subseteq T => U = T
    BY <2>1, HasMinimal
  <2> QED
    BY <2>2
<1>2. PICK x \in S : T = upto(x)
  OBVIOUS
<1>3. ASSUME NEW y \in S, ~(x <= y) PROVE FALSE
  <2>1. x \in Int /\ y \in Int
    OBVIOUS
  <2>2. upto(y) \subseteq upto(x)
    <3>1. \A z \in S : z <= y => z <= x
      <4>1. \A z \in S : z \in Int
        OBVIOUS
      <4> QED
        BY <1>3, <2>1, <4>1
    <3> QED
      BY <3>1
  <2>3. upto(y) \in W
    OBVIOUS
  <2>4. x \in upto(y)
    <3>1. upto(y) = upto(x)
      BY <1>1, <1>2, <2>2, <2>3
    <3>2. x \in upto(x)
      BY <2>1
    <3> QED
      BY <3>1, <3>2
  <2> QED
    BY <1>3, <2>4
<1>4. \A y \in S : x <= y
  BY <1>3
<1> QED
  BY <1>4 DEF Min

-----------------------------------------------------------------------------
\* A symbol's data, as the code reads it from its files: days, and whole numbers.
LEMMA SymbolIsWhole ==
  ASSUME NEW s \in Symbols
  PROVE  /\ s.rows \subseteq Nat \ {0} /\ s.candles \subseteq Nat \ {0} /\ IsFiniteSet(s.candles)
         /\ IsFiniteSet(DOMAIN s.factors) /\ IsFiniteSet(DOMAIN s.vendor)
         /\ \A i \in DOMAIN s.factors : s.factors[i].ex \in Nat /\ s.factors[i].p \in Int
         /\ \A ex \in DOMAIN s.vendor : s.vendor[ex].p \in Int /\ s.vendor[ex].v \in Int
         /\ s.unknown \subseteq Nat /\ IsFiniteSet(s.unknown)
<1>1. \A i \in DOMAIN s.factors : s.factors[i] \in Range(s.factors)
  BY DEF Range
<1>2. \A ex \in DOMAIN s.vendor : s.vendor[ex] \in Range(s.vendor)
  BY DEF Range
<1>3. /\ s.rows \subseteq Nat \ {0} /\ s.candles \subseteq Nat \ {0} /\ IsFiniteSet(s.candles)
      /\ IsFiniteSet(DOMAIN s.factors) /\ IsFiniteSet(DOMAIN s.vendor)
      /\ s.unknown \subseteq Nat /\ IsFiniteSet(s.unknown)
      /\ \A f \in Range(s.factors) : f.ex \in Nat /\ f.p \in Int
      /\ \A v \in Range(s.vendor) : v.p \in Int /\ v.v \in Int
  BY UniverseAssumption, Zenon
<1> QED
  BY <1>1, <1>2, <1>3, Zenon

\* What a day holds of a price and a volume chain.
IsPair(k) == k.p \in Int /\ k.v \in Int

\* What the vendor serves of a day is a number on each side.
LEMMA VendorIsWhole ==
  ASSUME NEW s \in Symbols, NEW d, NEW today
  PROVE  VendorPrice(s, d, today) \in Int /\ VendorVolume(s, d, today) \in Int
<1> DEFINE P == {ex \in DOMAIN s.vendor : d < ex /\ ex <= today /\ d >= s.vendor[ex].pfrom}
           V == {ex \in DOMAIN s.vendor : d < ex /\ ex <= today /\ d >= s.vendor[ex].vfrom}
           p == [ex \in DOMAIN s.vendor |-> s.vendor[ex].p]
           v == [ex \in DOMAIN s.vendor |-> s.vendor[ex].v]
<1>1. IsFiniteSet(P) /\ IsFiniteSet(V)
  <2>1. P \in SUBSET DOMAIN s.vendor /\ V \in SUBSET DOMAIN s.vendor
    OBVIOUS
  <2> HIDE DEF P, V
  <2> QED
    BY <2>1, SymbolIsWhole, FS_Subset
<1>2. (\A x \in P : p[x] \in Int) /\ (\A x \in V : v[x] \in Int)
  BY SymbolIsWhole
<1>3. VendorPrice(s, d, today) = Total(p, P) /\ VendorVolume(s, d, today) = Total(v, V)
  BY DEF VendorPrice, VendorVolume
<1> HIDE DEF P, V, p, v
<1> QED
  BY <1>1, <1>2, <1>3, TotalIsInt

\* A fetched day is a pair of numbers.
LEMMA FetchedIsWhole ==
  ASSUME NEW s \in Symbols, NEW d, NEW today
  PROVE  IsPair(Fetched(s, d, today))
BY VendorIsWhole DEF Fetched, IsPair

\* The factors of a table between two days add up to a number.
LEMMA SumFactorsIsInt ==
  ASSUME NEW fs, IsFiniteSet(DOMAIN fs), \A i \in DOMAIN fs : fs[i].p \in Int,
         NEW day, NEW fetch
  PROVE  SumFactors(fs, day, fetch) \in Int
<1> DEFINE I == {i \in DOMAIN fs : day < fs[i].ex /\ fs[i].ex <= fetch}
           p == [i \in DOMAIN fs |-> fs[i].p]
<1>1. IsFiniteSet(I)
  <2>1. I \in SUBSET DOMAIN fs
    OBVIOUS
  <2> HIDE DEF I
  <2> QED
    BY <2>1, FS_Subset
<1>2. \A x \in I : p[x] \in Int
  OBVIOUS
<1>3. SumFactors(fs, day, fetch) = Total(p, I)
  BY DEF SumFactors
<1> HIDE DEF I, p
<1> QED
  BY <1>1, <1>2, <1>3, TotalIsInt

\* The table of a day is the part of the whole one with the events up to it.
LEMMA KnownIsWhole ==
  ASSUME NEW s \in Symbols, NEW today
  PROVE  LET fs == KnownFactors(s, today)
         IN  /\ IsFiniteSet(DOMAIN fs)
             /\ DOMAIN fs = {i \in DOMAIN s.factors : s.factors[i].ex <= today}
             /\ \A i \in DOMAIN fs : fs[i] = s.factors[i] /\ fs[i].ex \in Nat /\ fs[i].p \in Int
<1> DEFINE fs == KnownFactors(s, today)
           I == {i \in DOMAIN s.factors : s.factors[i].ex <= today}
<1>1. DOMAIN fs = I /\ \A i \in I : fs[i] = s.factors[i]
  BY DEF KnownFactors, Restrict
<1>2. IsFiniteSet(I)
  <2>1. I \in SUBSET DOMAIN s.factors
    OBVIOUS
  <2> HIDE DEF I
  <2> QED
    BY <2>1, SymbolIsWhole, FS_Subset
<1>3. \A i \in I : s.factors[i].ex \in Nat /\ s.factors[i].p \in Int
  BY SymbolIsWhole
<1> QED
  BY <1>1, <1>2, <1>3

\* What a table says of a day is a pair of numbers.
LEMMA TableIsWhole ==
  ASSUME NEW s \in Symbols, NEW today, NEW day, NEW fetch
  PROVE  IsPair(TableFactors(s, today, day, fetch))
<1> DEFINE fs == KnownFactors(s, today)
           I == {i \in DOMAIN fs : ShareCount(fs[i].kind)}
           gs == ShareCounts(fs)
<1>1. IsFiniteSet(DOMAIN fs) /\ \A i \in DOMAIN fs : fs[i].p \in Int
  BY KnownIsWhole
<1>2. DOMAIN gs = I /\ \A i \in I : gs[i] = fs[i]
  BY DEF ShareCounts, Restrict
<1>3. I \in SUBSET DOMAIN fs
  OBVIOUS
<1>4. TableFactors(s, today, day, fetch) =
        [p |-> SumFactors(fs, day, fetch), v |-> SumFactors(gs, day, fetch)]
  BY DEF TableFactors
<1> HIDE DEF I, fs, gs
<1>5. IsFiniteSet(DOMAIN gs) /\ \A i \in DOMAIN gs : gs[i].p \in Int
  BY <1>1, <1>2, <1>3, FS_Subset
<1> QED
  BY <1>1, <1>4, <1>5, SumFactorsIsInt DEF IsPair

-----------------------------------------------------------------------------
\* A number, or nothing.
Maybe == Int \cup {None}

\* Terms that may be missing have a sum, or none.
LEMMA SumOrNoneIs ==
  ASSUME NEW vals, IsFiniteSet(DOMAIN vals), \A i \in DOMAIN vals : vals[i] \in Maybe
  PROVE  SumOrNone(vals) \in Maybe
<1>1. CASE None \in Range(vals)
  BY <1>1 DEF SumOrNone, Maybe
<1>2. CASE None \notin Range(vals)
  <2>1. \A i \in DOMAIN vals : vals[i] \in Int
    BY <1>2 DEF Range, Maybe
  <2> QED
    BY <1>2, <2>1, TotalIsInt DEF SumOrNone, Maybe
<1> QED
  BY <1>1, <1>2

Dates(events) == {e.ex : e \in events}

IsEvents(events) ==
    /\ IsFiniteSet(Dates(events)) /\ Dates(events) \subseteq Nat
    /\ \A e \in events : e.p \in Maybe /\ e.v \in Maybe

\* The composed events of a symbol: one on each day its table or the unknown list names.
LEMMA EventsAreWhole ==
  ASSUME NEW s \in Symbols, NEW today
  PROVE  /\ IsEvents(EventsOf(s, today))
         /\ Dates(EventsOf(s, today)) =
              {s.factors[i].ex : i \in {j \in DOMAIN s.factors : s.factors[j].ex <= today /\ s.factors[j].p # 0}}
              \cup {ex \in s.unknown : ex <= today}
<1> DEFINE fs == KnownFactors(s, today)
           unknown == KnownUnknown(s, today)
           moving == {i \in DOMAIN fs : fs[i].p # 0}
           spot(ex) == {i \in moving : fs[i].ex = ex} \cup (IF ex \in unknown THEN {0} ELSE {})
           parts(ex) == [i \in spot(ex) |->
              IF i = 0 THEN [ex |-> ex, kind |-> "unknown", p |-> None] ELSE fs[i]]
           dated == {fs[i].ex : i \in moving}
           exs == dated \cup unknown
<1>1. EventsOf(s, today) = {ComposeEvent(ex, parts(ex)) : ex \in exs}
  BY Zenon DEF EventsOf, EventsFromTable
<1>2. /\ IsFiniteSet(DOMAIN fs) /\ \A i \in DOMAIN fs : fs[i].ex \in Nat /\ fs[i].p \in Int
      /\ DOMAIN fs = {i \in DOMAIN s.factors : s.factors[i].ex <= today}
      /\ \A i \in DOMAIN fs : fs[i] = s.factors[i]
  BY KnownIsWhole
<1>3. unknown \subseteq Nat /\ IsFiniteSet(unknown)
  <2>1. unknown \in SUBSET s.unknown
    BY DEF KnownUnknown
  <2> HIDE DEF unknown
  <2> QED
    BY <2>1, SymbolIsWhole, FS_Subset
<1>4. IsFiniteSet(moving)
  <2>1. moving \in SUBSET DOMAIN fs
    OBVIOUS
  <2> HIDE DEF moving, fs
  <2> QED
    BY <1>2, <2>1, FS_Subset
<1>5. dated \subseteq Nat /\ IsFiniteSet(dated)
  <2> DEFINE ex == [i \in moving |-> fs[i].ex]
  <2>1. dated = {ex[i] : i \in moving}
    OBVIOUS
  <2>2. IsFiniteSet({ex[i] : i \in moving})
    <3> HIDE DEF ex, moving
    <3> QED
      BY <1>4, ImageIsFinite
  <2>3. dated \subseteq Nat
    BY <1>2
  <2> QED
    BY <2>1, <2>2, <2>3
<1>6. exs \subseteq Nat /\ IsFiniteSet(exs)
  <2> HIDE DEF dated, unknown
  <2> QED
    BY <1>3, <1>5, FS_Union
<1>7. ASSUME NEW ex
      PROVE  LET e == ComposeEvent(ex, parts(ex)) IN e.ex = ex /\ e.p \in Maybe /\ e.v \in Maybe
  <2> DEFINE c == parts(ex)
             ps == [i \in DOMAIN c |-> c[i].p]
             vs == [i \in DOMAIN c |-> ComponentVolume(c[i])]
  <2>1. DOMAIN c = spot(ex)
    OBVIOUS
  <2>2. \A i \in spot(ex) : c[i].p \in Maybe
    BY <1>2 DEF Maybe
  <2>3. IsFiniteSet(spot(ex))
    <3> DEFINE at == {i \in moving : fs[i].ex = ex}
               extra == IF ex \in unknown THEN {0} ELSE {}
    <3>1. at \in SUBSET moving
      OBVIOUS
    <3>2. IsFiniteSet(extra)
      BY FS_EmptySet, FS_Singleton
    <3>3. spot(ex) = at \cup extra
      OBVIOUS
    <3> HIDE DEF at, extra, moving, spot
    <3> QED
      BY <1>4, <3>1, <3>2, <3>3, FS_Subset, FS_Union
  <2> HIDE DEF spot, parts
  <2>4. SumOrNone(ps) \in Maybe
    <3>1. DOMAIN ps = spot(ex) /\ \A i \in spot(ex) : ps[i] \in Maybe
      BY <2>1, <2>2
    <3> HIDE DEF ps
    <3> QED
      BY <2>3, <3>1, SumOrNoneIs
  <2>5. SumOrNone(vs) \in Maybe
    <3>1. DOMAIN vs = spot(ex) /\ \A i \in spot(ex) : vs[i] \in Maybe
      BY <2>1, <2>2 DEF ComponentVolume, Maybe
    <3> HIDE DEF vs
    <3> QED
      BY <2>3, <3>1, SumOrNoneIs
  <2>6. ComposeEvent(ex, c).ex = ex /\ ComposeEvent(ex, c).p = SumOrNone(ps)
        /\ ComposeEvent(ex, c).v = SumOrNone(vs)
    BY DEF ComposeEvent
  <2> QED
    BY <2>4, <2>5, <2>6
<1>8. Dates(EventsOf(s, today)) = exs
  <2> HIDE DEF exs, parts
  <2> QED
    BY <1>1, <1>7 DEF Dates
<1>9. IsEvents(EventsOf(s, today))
  <2> HIDE DEF exs, parts
  <2> QED
    BY <1>1, <1>6, <1>7, <1>8 DEF IsEvents
<1>10. exs = {s.factors[i].ex : i \in {j \in DOMAIN s.factors : s.factors[j].ex <= today /\ s.factors[j].p # 0}}
             \cup {ex \in s.unknown : ex <= today}
  BY <1>2 DEF KnownUnknown
<1> QED
  BY <1>8, <1>9, <1>10

\* A later day knows the events of an earlier one.
LEMMA EarlierEvents ==
  ASSUME NEW s \in Symbols, NEW a \in Nat, NEW b \in Nat, a <= b
  PROVE  Dates(EventsOf(s, a)) \subseteq Dates(EventsOf(s, b))
<1>1. \A ex \in Nat : ex <= a => ex <= b
  OBVIOUS
<1>2. \A i \in DOMAIN s.factors : s.factors[i].ex \in Nat
  BY SymbolIsWhole
<1>3. s.unknown \subseteq Nat
  BY SymbolIsWhole
<1> QED
  BY <1>1, <1>2, <1>3, EventsAreWhole

-----------------------------------------------------------------------------
(* What may be tried for an event, and one pass over an era.               *)

Sources == {"ours", "price-factor", "measured", "absent"}
Term == [source : Sources, value : Int]

\* What may be tried; no value only where a cumulative one can give it.
Offer(cum) == [source : Sources, value : Int \cup (IF cum = None THEN {} ELSE {None})]

Absent == Opt("absent", 0)

\* A term is something that may be tried, and so is the cumulative one where there is one.
LEMMA TermsAreOffers ==
  ASSUME NEW cum
  PROVE  /\ Term \subseteq Offer(cum) /\ Absent \in Term
         /\ \A source \in Sources, value \in Int : Opt(source, value) \in Term
         /\ cum # None => Opt("measured", None) \in Offer(cum)
BY DEF Term, Offer, Absent, Opt, Sources

\* Short sequences.
LEMMA SeqOfOne == \A S : \A x \in S : <<x>> \in Seq(S)
OBVIOUS

\* Short sequences.
LEMMA SeqOfNone == \A S : <<>> \in Seq(S)
OBVIOUS

\* Short sequences.
LEMMA SeqOfTwo == ASSUME NEW S, NEW a \in Seq(S), NEW b \in Seq(S) PROVE a \o b \in Seq(S)
OBVIOUS

\* Every option for an event is something that may be tried (resolve_era).
LEMMA OptionsAreOffers ==
  ASSUME NEW ours \in Maybe, NEW cum, NEW canon, canon \in Term \/ canon = None,
         NEW forced, forced \in {None, Absent}, NEW priced \in Maybe
  PROVE  Options(ours, cum, canon, forced, priced) \in Seq(Offer(cum))
<1> DEFINE O == Offer(cum)
<1>0. /\ Term \subseteq O /\ Absent \in O
      /\ \A source \in Sources, value \in Int : Opt(source, value) \in O
      /\ cum # None => Opt("measured", None) \in O
  BY TermsAreOffers
<1>1. /\ ours # None => ours \in Int
      /\ priced # None => priced \in Int
      /\ canon # None => canon \in O /\ canon.value \in Int
      /\ "ours" \in Sources /\ "price-factor" \in Sources /\ 0 \in Int
  BY <1>0 DEF Maybe, Sources, Term
<1>2. Absent = Opt("absent", 0)
  BY DEF Absent
<1> HIDE DEF O
<1>3. CASE forced # None
  <2>1. Options(ours, cum, canon, forced, priced) = <<Absent>>
    BY <1>3 DEF Options
  <2> QED
    BY <1>0, <2>1, SeqOfOne DEF O
<1>4. CASE forced = None /\ canon # None
  <2>1. \/ \E x \in O : Options(ours, cum, canon, forced, priced) = <<x>>
        \/ Options(ours, cum, canon, forced, priced) =
             <<canon>> \o IF ours = None THEN <<Absent>> ELSE <<>>
    <3>1. CASE canon.source = "ours"
      BY <1>0, <1>1, <1>2, <1>4, <3>1 DEF Options
    <3>2. CASE canon.source = "price-factor"
      <4> DEFINE tracked == IF priced = None THEN canon.value ELSE priced
      <4>1. tracked \in Int
        BY <1>1, <1>4
      <4>2. Options(ours, cum, canon, forced, priced) =
              IF tracked = 0 THEN <<Absent>> ELSE <<Opt("price-factor", tracked)>>
        BY <1>2, <1>4, <3>2 DEF Options
      <4> HIDE DEF tracked
      <4> QED
        BY <1>0, <1>1, <4>1, <4>2
    <3>3. CASE canon.source = "measured"
      BY <1>2, <1>4, <3>3 DEF Options
    <3>4. CASE canon.source \notin {"ours", "price-factor", "measured"}
      BY <1>0, <1>2, <1>4, <3>4 DEF Options
    <3> QED
      BY <3>1, <3>2, <3>3, <3>4
  <2>2. <<canon>> \in Seq(O) /\ (IF ours = None THEN <<Absent>> ELSE <<>>) \in Seq(O)
    BY <1>0, <1>1, <1>4, SeqOfOne, SeqOfNone
  <2>3. <<canon>> \o (IF ours = None THEN <<Absent>> ELSE <<>>) \in Seq(O)
    BY <2>2, SeqOfTwo
  <2> QED
    BY <2>1, <2>3, SeqOfOne DEF O
<1>5. CASE forced = None /\ canon = None
  <2> DEFINE a == IF ours # None THEN <<Opt("ours", ours)>> ELSE <<>>
             b == IF priced # None /\ priced # 0 THEN <<Opt("price-factor", priced)>> ELSE <<>>
             c == <<Opt("absent", 0)>>
             d == IF cum # None THEN <<Opt("measured", None)>> ELSE <<>>
  <2>1. a \in Seq(O)
    BY <1>0, <1>1, SeqOfOne, SeqOfNone
  <2>2. b \in Seq(O)
    BY <1>0, <1>1, SeqOfOne, SeqOfNone
  <2>3. c \in Seq(O)
    BY <1>0, <1>2, SeqOfOne
  <2>4. d \in Seq(O)
    BY <1>0, SeqOfOne, SeqOfNone
  <2>5. Options(ours, cum, canon, forced, priced) = a \o b \o c \o d
    BY <1>5 DEF Options
  <2> HIDE DEF a, b, c, d
  <2>6. a \o b \in Seq(O)
    BY <2>1, <2>2, SeqOfTwo
  <2>7. a \o b \o c \in Seq(O)
    BY <2>6, <2>3, SeqOfTwo
  <2>8. a \o b \o c \o d \in Seq(O)
    BY <2>7, <2>4, SeqOfTwo
  <2> QED
    BY <2>5, <2>8 DEF O
<1> QED
  BY <1>3, <1>4, <1>5

(* Whatever the oracle accepts gives each event of the era a number. *)
LEMMA PassesAreTerms ==
  ASSUME NEW side, NEW era, NEW win, IsFiniteSet(Dates(win)), NEW cum \in Maybe, NEW opts,
         \A ex \in Dates(win) : opts[ex] \in Seq(Offer(cum)),
         ResolvePass(side, era, win, opts, cum) # None
  PROVE  ResolvePass(side, era, win, opts, cum) \in [Dates(win) -> Term]
<1> DEFINE exs == {e.ex : e \in win}
           combos == {c \in [exs -> 1 .. 4] : \A ex \in exs : c[ex] <= Len(opts[ex])}
           pick(c) == Picked(opts, c)
           open(c) == Unsolved(opts, c)
           solved(c) == Solved(opts, cum, c)
           known(c) == Total([ex \in DOMAIN c |-> pick(c)[ex].value], DOMAIN c \ open(c))
<1>1. \E c \in combos : ResolvePass(side, era, win, opts, cum) = solved(c)
  <2> DEFINE fits == {c \in combos :
               /\ Cardinality(Unsolved(opts, c)) <= 1
               /\ \A ex \in Unsolved(opts, c) : ValidMeasured(EventAt(win, ex), solved(c)[ex].value)
               /\ EraOk(side, era, Total([ex \in exs |-> solved(c)[ex].value], exs))}
             cost(c) == CombinationCost(side, solved(c), c)
             best == {c \in fits : \A d \in fits : cost(c) <= cost(d)}
  <2>1. ResolvePass(side, era, win, opts, cum) =
          IF best = {} THEN None ELSE Solved(opts, cum, CHOOSE c \in best : TRUE)
    BY Zenon DEF ResolvePass
  <2>2. best \subseteq combos
    OBVIOUS
  <2> HIDE DEF best, combos
  <2> QED
    BY <2>1, <2>2
<1>2. exs = Dates(win)
  BY DEF Dates
<1>3. ASSUME NEW c \in combos PROVE solved(c) \in [exs -> Term]
  <2>0. /\ DOMAIN c = exs
        /\ pick(c) = [ex \in exs |-> opts[ex][c[ex]]]
        /\ open(c) = {ex \in exs : pick(c)[ex].value = None}
        /\ solved(c) = [ex \in exs |->
             IF ex \in open(c) THEN Opt("measured", cum - known(c)) ELSE pick(c)[ex]]
    BY DEF Picked, Unsolved, Solved
  <2>1. \A ex \in exs : pick(c)[ex] \in Offer(cum)
    <3>1. \A ex \in exs : opts[ex] \in Seq(Offer(cum)) /\ c[ex] \in 1 .. 4 /\ c[ex] <= Len(opts[ex])
      BY <1>2
    <3>2. \A ex \in exs : opts[ex][c[ex]] \in Offer(cum)
      <4> HIDE DEF exs, combos
      <4> QED
        BY <3>1
    <3> QED
      BY <2>0, <3>2
  <2>2. \A ex \in exs \ open(c) : pick(c)[ex].value \in Int /\ pick(c)[ex] \in Term
    <3>1. \A o \in Offer(cum) : o.value # None => o.value \in Int /\ o \in Term
      BY DEF Offer, Term
    <3> QED
      BY <2>0, <2>1, <3>1
  <2>3. IsFiniteSet(exs \ open(c))
    BY <1>2, FS_Difference
  <2>4. known(c) \in Int
    <3> DEFINE v == [ex \in exs |-> pick(c)[ex].value]
               closed == exs \ open(c)
    <3>1. \A ex \in closed : v[ex] \in Int
      BY <2>2
    <3> HIDE DEF v, closed
    <3>2. Total(v, closed) \in Int
      BY <2>3, <3>1, TotalIsInt DEF closed
    <3> QED
      BY <3>2 DEF v, closed
  <2>5. ASSUME NEW ex \in open(c) PROVE cum \in Int
    <3>1. \A o \in Offer(cum) : o.value \in Int \/ cum # None
      BY DEF Offer
    <3>2. ex \in exs /\ pick(c)[ex].value = None
      BY <2>0
    <3>3. cum # None \/ None \in Int
      BY <2>1, <3>1, <3>2
    <3> QED
      BY <3>3 DEF Maybe
  <2>6. ASSUME NEW ex \in exs PROVE solved(c)[ex] \in Term
    <3>1. CASE ex \in open(c)
      <4>0. cum \in Int
        BY <2>5, <3>1
      <4>1. cum - known(c) \in Int
        <5> HIDE DEF known
        <5> QED
          BY <2>4, <4>0
      <4>2. solved(c)[ex] = Opt("measured", cum - known(c))
        BY <2>0, <3>1
      <4>3. "measured" \in Sources
        BY DEF Sources
      <4> HIDE DEF known, solved, open
      <4> QED
        BY <4>1, <4>2, <4>3, TermsAreOffers
    <3>2. CASE ex \notin open(c)
      <4>1. solved(c)[ex] = pick(c)[ex]
        BY <2>0, <3>2
      <4> QED
        BY <2>2, <3>2, <4>1
    <3> QED
      BY <3>1, <3>2
  <2>7. solved(c) = [ex \in exs |-> solved(c)[ex]]
    BY <2>0
  <2> HIDE DEF solved
  <2> QED
    BY <2>6, <2>7
<1> HIDE DEF solved, combos
<1> QED
  BY <1>1, <1>2, <1>3

-----------------------------------------------------------------------------
(* Both sides of an era.                                                   *)

Choice == [p : Int, psource : Sources, v : Int, vsource : Sources]

IsEra(era, exs) ==
    /\ era.key \subseteq exs
    /\ IsFiniteSet(era.days) /\ \A d \in era.days : d.p \in Int /\ d.v \in Int

\* What the newer eras settled.
Settles(canon) == \A ex \in DOMAIN canon : canon[ex] \in Term

\* The volume estimator of an era gives a number, or nothing.
LEMMA EstimateIs ==
  ASSUME NEW era, NEW exs, IsEra(era, exs), NEW k
  PROVE  VolumeEstimator(era, k) \in Maybe
<1> DEFINE days == PricePassing(era, k)
           v == [d \in days |-> d.v]
           vals == {v[d] : d \in days}
<1>1. days \in SUBSET era.days
  BY DEF PricePassing
<1>2. IsFiniteSet(days) /\ \A d \in days : d.v \in Int
  <2> HIDE DEF days
  <2> QED
    BY <1>1, FS_Subset DEF IsEra
<1>3. IsFiniteSet(vals)
  <2> HIDE DEF days, v
  <2> QED
    BY <1>2, ImageIsFinite
<1>4. vals = {d.v : d \in days} /\ \A x \in vals : x \in Int
  BY <1>2
<1>5. VolumeEstimator(era, k) = IF Cardinality(days) < MinEstimatorDays THEN None ELSE Min(vals)
  BY <1>4 DEF VolumeEstimator
<1>6. days = {} => Cardinality(days) = 0
  BY FS_EmptySet
<1>7. days # {} => vals # {}
  OBVIOUS
<1> HIDE DEF days, vals
<1> QED
  BY <1>3, <1>4, <1>5, <1>6, <1>7, MinIsThere, VendorMapAssumption DEF Maybe

\* So does the common value of some samples.
LEMMA CommonIs ==
  ASSUME NEW vals, \A x \in vals : x \in Int
  PROVE  Common(vals) \in Maybe
<1>1. vals = {} => Cardinality(vals) # 1
  BY FS_EmptySet
<1> QED
  BY <1>1 DEF Common, Maybe

\* A forced side is absent, or not forced.
LEMMA ForcedIs ==
  ASSUME NEW side, NEW floors, NEW era, NEW ex
  PROVE  Forced(side, floors, era, ex) \in {None, Absent}
BY DEF Forced, Absent

\* What the newer eras settled for an event, if anything.
LEMMA LookupIs ==
  ASSUME NEW canon, Settles(canon), NEW ex
  PROVE  Lookup(canon, ex) \in Term \/ Lookup(canon, ex) = None
BY DEF Settles, Lookup

\* The events of an era's key are those of the key, with the table's numbers or none.
LEMMA EventsInKey ==
  ASSUME NEW events, IsEvents(events), NEW key, key \subseteq Dates(events)
  PROVE  /\ Dates({e \in events : e.ex \in key}) = key
         /\ IsFiniteSet(key)
         /\ \A ex \in key : EventAt(events, ex).p \in Maybe /\ EventAt(events, ex).v \in Maybe
<1>1. Dates({e \in events : e.ex \in key}) = key
  BY DEF Dates
<1>2. IsFiniteSet(key)
  <2>1. key \in SUBSET Dates(events)
    OBVIOUS
  <2> QED
    BY <2>1, FS_Subset DEF IsEvents
<1>3. \A ex \in key : EventAt(events, ex) \in events
  BY DEF EventAt, Dates
<1> QED
  BY <1>1, <1>2, <1>3 DEF IsEvents

\* The second side is resolved to a number for each event of the era too.
LEMMA VolumesAreTerms ==
  ASSUME NEW events, IsEvents(events), NEW era, IsEra(era, Dates(events)), NEW floors,
         NEW vcanon, Settles(vcanon), NEW price \in [era.key -> Term], NEW vcum \in Maybe,
         VolumePass(events, floors, era, vcanon, price, vcum) # None
  PROVE  VolumePass(events, floors, era, vcanon, price, vcum) \in [era.key -> Term]
<1> DEFINE win == {e \in events : e.ex \in era.key}
           opts == [ex \in era.key |-> Options(EventAt(events, ex).v, vcum, Lookup(vcanon, ex),
                       Forced("volume", floors, era, ex), price[ex].value)]
<1>1. era.key \subseteq Dates(events)
  BY DEF IsEra
<1>2. Dates(win) = era.key /\ IsFiniteSet(era.key)
      /\ \A ex \in era.key : EventAt(events, ex).v \in Maybe
  BY <1>1, EventsInKey
<1>3. ASSUME NEW ex \in era.key PROVE opts[ex] \in Seq(Offer(vcum))
  <2> DEFINE ours == EventAt(events, ex).v
             canon == Lookup(vcanon, ex)
             forced == Forced("volume", floors, era, ex)
             priced == price[ex].value
  <2>1. ours \in Maybe
    BY <1>2
  <2>2. canon \in Term \/ canon = None
    BY LookupIs
  <2>3. forced \in {None, Absent}
    BY ForcedIs
  <2>4. priced \in Maybe
    BY DEF Term, Maybe
  <2>5. opts[ex] = Options(ours, vcum, canon, forced, priced)
    OBVIOUS
  <2> HIDE DEF opts, ours, canon, forced, priced
  <2> QED
    BY <2>1, <2>2, <2>3, <2>4, <2>5, OptionsAreOffers
<1>4. VolumePass(events, floors, era, vcanon, price, vcum) = ResolvePass("volume", era, win, opts, vcum)
  BY DEF VolumePass
<1> HIDE DEF win, opts
<1>5. \A ex \in Dates(win) : opts[ex] \in Seq(Offer(vcum))
  BY <1>2, <1>3
<1>6. ResolvePass("volume", era, win, opts, vcum) # None
  BY <1>4
<1>7. ResolvePass("volume", era, win, opts, vcum) \in [Dates(win) -> Term]
  BY <1>2, <1>5, <1>6, PassesAreTerms
<1> QED
  BY <1>2, <1>4, <1>7

\* Two resolved sides are one choice for each event.
LEMMA BothAreChoices ==
  ASSUME NEW key, NEW price \in [key -> Term], NEW volume, volume # None => volume \in [key -> Term],
         BothSides(price, volume) # None
  PROVE  BothSides(price, volume) \in [key -> Choice]
<1>1. volume \in [key -> Term]
  BY DEF BothSides
<1>2. BothSides(price, volume) = [ex \in key |->
          [p |-> price[ex].value, psource |-> price[ex].source,
           v |-> volume[ex].value, vsource |-> volume[ex].source]]
  BY <1>1 DEF BothSides
<1>3. \A ex \in key : /\ price[ex].value \in Int /\ price[ex].source \in Sources
                      /\ volume[ex].value \in Int /\ volume[ex].source \in Sources
  BY <1>1 DEF Term
<1>4. \A ex \in key : [p |-> price[ex].value, psource |-> price[ex].source,
                       v |-> volume[ex].value, vsource |-> volume[ex].source] \in Choice
  BY <1>3 DEF Choice
<1> QED
  BY <1>2, <1>4

\* An era is resolved with a choice for each of its events, or not at all.
LEMMA EraIsResolved ==
  ASSUME NEW events, IsEvents(events), NEW era, IsEra(era, Dates(events)), NEW floors,
         NEW pcanon, Settles(pcanon), NEW vcanon, Settles(vcanon),
         ResolveEra(events, floors, era, pcanon, vcanon) # None
  PROVE  ResolveEra(events, floors, era, pcanon, vcanon) \in [era.key -> Choice]
<1> DEFINE win == {e \in events : e.ex \in era.key}
           pcum == Common({d.p : d \in era.days})
           opts == [ex \in era.key |-> Options(EventAt(events, ex).p, pcum, Lookup(pcanon, ex),
                       Forced("price", floors, era, ex), None)]
           price == ResolvePass("price", era, win, opts, pcum)
           chain == Total([ex \in era.key |-> price[ex].value], era.key)
           vcum == VolumeEstimator(era, chain)
           volume == VolumePass(events, floors, era, vcanon, price, vcum)
<1>1. /\ price # None
      /\ ResolveEra(events, floors, era, pcanon, vcanon) = BothSides(price, volume)
  <2>1. ResolveEra(events, floors, era, pcanon, vcanon) =
          ResolveVolume(events, floors, era, vcanon, price)
    <3>1. opts = [ex \in era.key |-> Options(EventAt(events, ex).p, pcum, Lookup(pcanon, ex),
                    [x \in era.key |-> Forced("price", floors, era, x)][ex], None)]
      OBVIOUS
    <3>2. \/ ResolveEra(events, floors, era, pcanon, vcanon) = None
          \/ ResolveEra(events, floors, era, pcanon, vcanon) =
               ResolveVolume(events, floors, era, vcanon, ResolvePass("price", era, win,
                 [ex \in era.key |-> Options(EventAt(events, ex).p, pcum, Lookup(pcanon, ex),
                    [x \in era.key |-> Forced("price", floors, era, x)][ex], None)], pcum))
      BY Zenon DEF ResolveEra
    <3> HIDE DEF opts, win, pcum
    <3> QED
      BY <3>1, <3>2
  <2>2. ResolveVolume(events, floors, era, vcanon, price) =
          IF price = None THEN None ELSE BothSides(price, volume)
    <3> HIDE DEF price
    <3> QED
      BY Zenon DEF ResolveVolume
  <2> HIDE DEF price, volume
  <2> QED
    BY <2>1, <2>2
<1>2. era.key \subseteq Dates(events)
  BY DEF IsEra
<1>3. Dates(win) = era.key /\ IsFiniteSet(era.key)
      /\ \A ex \in era.key : EventAt(events, ex).p \in Maybe
  BY <1>2, EventsInKey
<1>4. pcum \in Maybe
  <2>1. \A x \in {d.p : d \in era.days} : x \in Int
    BY DEF IsEra
  <2> QED
    BY <2>1, CommonIs
<1>5. ASSUME NEW ex \in era.key PROVE opts[ex] \in Seq(Offer(pcum))
  <2> DEFINE ours == EventAt(events, ex).p
             canon == Lookup(pcanon, ex)
             forced == Forced("price", floors, era, ex)
  <2>1. ours \in Maybe
    BY <1>3
  <2>2. canon \in Term \/ canon = None
    BY LookupIs
  <2>3. forced \in {None, Absent}
    BY ForcedIs
  <2>4. None \in Maybe
    BY DEF Maybe
  <2>5. opts[ex] = Options(ours, pcum, canon, forced, None)
    OBVIOUS
  <2> HIDE DEF opts, ours, canon, forced, pcum
  <2> QED
    BY <2>1, <2>2, <2>3, <2>4, <2>5, OptionsAreOffers
<1>6. price \in [era.key -> Term]
  <2> HIDE DEF win, opts, pcum
  <2>1. ResolvePass("price", era, win, opts, pcum) # None
    BY <1>1
  <2>2. ResolvePass("price", era, win, opts, pcum) \in [Dates(win) -> Term]
    BY <1>3, <1>4, <1>5, <2>1, PassesAreTerms
  <2> QED
    BY <1>3, <2>2
<1>7. vcum \in Maybe
  BY EstimateIs
<1> HIDE DEF price, vcum
<1>8. volume # None => volume \in [era.key -> Term]
  BY <1>6, <1>7, VolumesAreTerms
<1> HIDE DEF volume
<1> QED
  BY <1>1, <1>6, <1>8, BothAreChoices

-----------------------------------------------------------------------------
(* The eras of a map, refined by one another.                              *)

\* The refinement of a measured volume by the other eras is a number.
LEMMA RefinedVolumeIs ==
  ASSUME NEW exs, IsFiniteSet(exs), NEW done, IsFiniteSet(done),
         \A r \in done : IsEra(r.era, exs) /\ r.choices \in [r.era.key -> Choice],
         NEW ex, NEW own \in Int
  PROVE  RefinedVolume(done, ex, own) \in Int
<1> DEFINE used == {r \in done : ex \in DOMAIN r.choices /\ r.choices[ex].vsource = "measured"}
           rest(r) == DOMAIN r.choices \ {ex}
           vs(r) == [x \in DOMAIN r.choices |-> r.choices[x].v]
           others(r) == Total(vs(r), rest(r))
           seen(r) == PricePassing(r.era, Total([x \in DOMAIN r.choices |-> r.choices[x].p],
                                                DOMAIN r.choices))
           shown(r) == {d.v - others(r) : d \in seen(r)}
           vals == UNION {shown(r) : r \in used}
           counts == [r \in used |-> Cardinality(seen(r))]
<1>1. RefinedVolume(done, ex, own) =
        IF Total(counts, used) < MinEstimatorDays THEN own ELSE Min(vals)
  BY Zenon DEF RefinedVolume
<1>2. IsFiniteSet(used)
  <2>1. used \in SUBSET done
    OBVIOUS
  <2> HIDE DEF used
  <2> QED
    BY <2>1, FS_Subset
<1>3. ASSUME NEW r \in used
      PROVE  IsFiniteSet(shown(r)) /\ \A x \in shown(r) : x \in Int
  <2>1. r \in done
    OBVIOUS
  <2>2. DOMAIN r.choices = r.era.key /\ r.era.key \subseteq exs
        /\ \A x \in r.era.key : r.choices[x] \in Choice
    BY <2>1 DEF IsEra
  <2>3. IsFiniteSet(rest(r))
    <3>1. rest(r) \in SUBSET exs
      BY <2>2
    <3> HIDE DEF rest
    <3> QED
      BY <3>1, FS_Subset
  <2>4. \A x \in rest(r) : vs(r)[x] \in Int
    BY <2>2 DEF Choice
  <2>5. others(r) \in Int
    <3> HIDE DEF rest, vs
    <3> QED
      BY <2>3, <2>4, TotalIsInt
  <2>6. seen(r) \in SUBSET r.era.days /\ \A d \in seen(r) : d.v \in Int
    BY <2>1 DEF PricePassing, IsEra
  <2>7. IsFiniteSet(seen(r))
    <3>1. IsFiniteSet(r.era.days)
      BY <2>1 DEF IsEra
    <3> HIDE DEF seen
    <3> QED
      BY <2>6, <3>1, FS_Subset
  <2> HIDE DEF others, seen
  <2> DEFINE f == [d \in seen(r) |-> d.v - others(r)]
  <2>8. shown(r) = {f[d] : d \in seen(r)}
    OBVIOUS
  <2>9. IsFiniteSet({f[d] : d \in seen(r)})
    <3> HIDE DEF f
    <3> QED
      BY <2>7, ImageIsFinite
  <2>10. \A x \in shown(r) : x \in Int
    BY <2>5, <2>6
  <2> HIDE DEF f, shown
  <2> QED
    BY <2>8, <2>9, <2>10
<1>4. IsFiniteSet(vals) /\ \A x \in vals : x \in Int
  <2> DEFINE g == [r \in used |-> shown(r)]
             all == {g[r] : r \in used}
  <2>1. IsFiniteSet(all)
    <3> HIDE DEF g, used
    <3> QED
      BY <1>2, ImageIsFinite
  <2> HIDE DEF shown, used
  <2>2. \A T \in all : IsFiniteSet(T)
    BY <1>3
  <2>3. IsFiniteSet(UNION all)
    <3> HIDE DEF all
    <3> QED
      BY <2>1, <2>2, FS_UNION
  <2>4. vals = UNION all
    OBVIOUS
  <2>5. \A x \in vals : x \in Int
    BY <1>3
  <2> QED
    BY <2>3, <2>4, <2>5
<1>5. vals = {} => Total(counts, used) = 0
  <2> SUFFICES ASSUME vals = {} PROVE Total(counts, used) = 0
    OBVIOUS
  <2>1. \A r \in used : shown(r) = {}
    <3> HIDE DEF shown, used
    <3> QED
      OBVIOUS
  <2>2. \A r \in used : seen(r) = {}
    <3> HIDE DEF others, seen, used
    <3> QED
      BY <2>1
  <2>3. \A r \in used : counts[r] = 0
    <3> HIDE DEF seen, used
    <3> QED
      BY <2>2, FS_EmptySet
  <2> HIDE DEF counts, used
  <2> QED
    BY <1>2, <2>3, TotalOfNothing
<1> HIDE DEF vals, counts, used
<1>6. ~(Total(counts, used) < MinEstimatorDays) => vals # {}
  BY <1>5, VendorMapAssumption
<1> QED
  BY <1>1, <1>4, <1>6, MinIsThere

\* An era as the map keeps it.
IsMapped(r, exs) ==
    r.key \subseteq exs /\ (r.provable => r.choices \in [r.key -> Choice])

\* A refined era still has a choice for each event.
LEMMA RefinedIs ==
  ASSUME NEW exs, IsFiniteSet(exs), NEW done, IsFiniteSet(done),
         \A q \in done : IsEra(q.era, exs) /\ q.choices \in [q.era.key -> Choice],
         NEW r \in done
  PROVE  Refined(done, r) \in [r.era.key -> Choice]
<1>1. DOMAIN r.choices = r.era.key
  OBVIOUS
<1>2. ASSUME NEW ex \in r.era.key PROVE Refined(done, r)[ex] \in Choice
  <2> DEFINE c == r.choices[ex]
             v == RefinedVolume(done, ex, c.v)
  <2>1. c \in Choice
    OBVIOUS
  <2>2. v \in Int
    <3>1. c.v \in Int
      BY <2>1 DEF Choice
    <3> HIDE DEF c
    <3> QED
      BY <3>1, RefinedVolumeIs
  <2>3. Refined(done, r)[ex] = IF c.vsource = "measured" THEN [c EXCEPT !.v = v] ELSE c
    BY <1>1 DEF Refined
  <2> HIDE DEF c, v
  <2> QED
    BY <2>1, <2>2, <2>3 DEF Choice
<1>3. Refined(done, r) = [ex \in r.era.key |-> Refined(done, r)[ex]]
  BY <1>1 DEF Refined
<1> QED
  BY <1>2, <1>3

\* Where the resolution stands after some eras.
IsResolved(acc, exs) ==
    /\ DOMAIN acc = {"done", "undecided", "pcanon", "vcanon"}
    /\ IsFiniteSet(acc.done)
    /\ \A r \in acc.done : IsEra(r.era, exs) /\ r.choices \in [r.era.key -> Choice]
    /\ \A e \in acc.undecided : e.key \subseteq exs
    /\ Settles(acc.pcanon) /\ Settles(acc.vcanon)

\* The eras of a resolution may be put into a map.
LEMMA FinalErasAreMapped ==
  ASSUME NEW exs, IsFiniteSet(exs), NEW all, IsResolved(all, exs), NEW r \in FinalEras(all)
  PROVE  IsMapped(r, exs)
<1>1. CASE \E e \in all.undecided : r = Unproved(e)
  BY <1>1 DEF IsMapped, Unproved, IsResolved
<1>2. CASE \E q \in all.done : r = FinalEra(all.done, q, Refined(all.done, q))
  <2>1. PICK q \in all.done : r = FinalEra(all.done, q, Refined(all.done, q))
    BY <1>2
  <2>2. Refined(all.done, q) \in [q.era.key -> Choice]
    BY RefinedIs DEF IsResolved
  <2>3. q.era.key \subseteq exs
    BY DEF IsResolved, IsEra
  <2> QED
    BY <2>1, <2>2, <2>3 DEF FinalEra, Unproved, IsMapped
<1> QED
  BY <1>1, <1>2 DEF FinalEras

\* What an era settles is laid over what the newer ones did.
LEMMA OverrideSettles ==
  ASSUME NEW a, Settles(a), NEW b, Settles(b)
  PROVE  Settles(Override(a, b))
BY DEF Settles, Override

\* One more era decided leaves a resolution.
LEMMA DecideIs ==
  ASSUME NEW exs, NEW acc, IsResolved(acc, exs), NEW era, IsEra(era, exs),
         NEW r, r # None => r \in [era.key -> Choice]
  PROVE  IsResolved(Decide(acc, era, r), exs)
<1>1. CASE r = None
  BY <1>1 DEF Decide, IsResolved, IsEra
<1>2. CASE r # None
  <2> DEFINE p == [ex \in era.key |-> Opt(r[ex].psource, r[ex].p)]
             v == [ex \in era.key |-> Opt(r[ex].vsource, r[ex].v)]
             new == [era |-> era, choices |-> r]
  <2>1. \A ex \in era.key : r[ex].p \in Int /\ r[ex].psource \in Sources
                            /\ r[ex].v \in Int /\ r[ex].vsource \in Sources
    BY <1>2 DEF Choice
  <2>2. Settles(p) /\ Settles(v)
    BY <2>1 DEF Settles, Opt, Term
  <2>3. Settles(Override(acc.pcanon, p)) /\ Settles(Override(acc.vcanon, v))
    <3> HIDE DEF p, v
    <3> QED
      BY <2>2, OverrideSettles DEF IsResolved
  <2>4. IsFiniteSet(acc.done \cup {new})
    <3> HIDE DEF new
    <3> QED
      BY FS_AddElement DEF IsResolved
  <2>5. Decide(acc, era, r) = [acc EXCEPT !.done = @ \cup {new}, !.pcanon = Override(@, p),
                                          !.vcanon = Override(@, v)]
    BY <1>2 DEF Decide
  <2>6. new.era = era /\ new.choices = r
    OBVIOUS
  <2> HIDE DEF new, p, v
  <2> QED
    BY <1>2, <2>3, <2>4, <2>5, <2>6 DEF IsResolved
<1> QED
  BY <1>1, <1>2

-----------------------------------------------------------------------------
(* The resolution, from the newest era to the oldest.                      *)

\* Of some eras there is an oldest.
LEMMA OldestIsThere ==
  ASSUME NEW exs, IsFiniteSet(exs), NEW eras, IsFiniteSet(eras), eras # {},
         \A e \in eras : IsEra(e, exs)
  PROVE  Oldest(eras) \in eras
<1> DEFINE size == [e \in eras |-> 0 - Cardinality(e.key)]
           sizes == {size[e] : e \in eras}
<1>1. \A e \in eras : Cardinality(e.key) \in Nat
  <2>1. \A e \in eras : e.key \in SUBSET exs
    BY DEF IsEra
  <2> QED
    BY <2>1, FS_Subset, FS_CardinalityType
<1>2. \A e \in eras : size[e] \in Int
  BY <1>1
<1>3. IsFiniteSet(sizes)
  <2> HIDE DEF size
  <2> QED
    BY ImageIsFinite
<1>4. Min(sizes) \in sizes /\ \A n \in sizes : Min(sizes) <= n
  <2>1. sizes # {} /\ \A n \in sizes : n \in Int
    <3> HIDE DEF size
    <3> QED
      BY <1>2
  <2> HIDE DEF sizes
  <2> QED
    BY <1>3, <2>1, MinIsThere
<1>5. PICK e \in eras : \A o \in eras : size[e] <= size[o]
  <2> HIDE DEF size
  <2>1. PICK e \in eras : Min(sizes) = size[e]
    BY <1>4
  <2> QED
    BY <1>4, <2>1
<1>6. \A o \in eras : Cardinality(o.key) <= Cardinality(e.key)
  BY <1>1, <1>5
<1> QED
  BY <1>6 DEF Oldest

\* The recursion of Resolved, on these sets.
Resolves(events, floors, D, upto) ==
    upto = [some \in D |->
              IF some = {} THEN [done |-> {}, undecided |-> {}, pcanon |-> <<>>, vcanon |-> <<>>]
              ELSE LET era == Oldest(some)
                       acc == upto[some \ {era}]
                   IN Decide(acc, era, ResolveEra(events, floors, era, acc.pcanon, acc.vcanon))]

\* The resolution has a value for every set of eras.
LEMMA ResolutionExists ==
  ASSUME NEW events, NEW floors, NEW exs, IsFiniteSet(exs), NEW S, IsFiniteSet(S),
         \A x \in S : IsEra(x, exs)
  PROVE  \E upto : Resolves(events, floors, SUBSET S, upto)
<1> DEFINE e(T) == Oldest(T)
           Add(T, acc) == Decide(acc, Oldest(T),
                            ResolveEra(events, floors, Oldest(T), acc.pcanon, acc.vcanon))
           none == [done |-> {}, undecided |-> {}, pcanon |-> <<>>, vcanon |-> <<>>]
           B == {n \in Nat : ~\E g : Resolves(events, floors, Small(S, n), g)}
<1>0. \A D, g : Resolves(events, floors, D, g)
                  <=> g = [T \in D |-> IF T = {} THEN none ELSE Add(T, g[T \ {e(T)}])]
  BY DEF Resolves
<1>e. \A T \in SUBSET S : T # {} => e(T) \in T
  <2>1. \A T \in SUBSET S : IsFiniteSet(T)
    BY FS_Subset
  <2> QED
    BY <2>1, OldestIsThere
<1> HIDE DEF Add, e, none
<1>1. 0 \notin B
  <2>1. Small(S, 0) = {{}}
    BY SmallParts
  <2> DEFINE g == [T \in {{}} |-> none]
  <2>2. g = [T \in {{}} |-> IF T = {} THEN none ELSE Add(T, g[T \ {e(T)}])]
    OBVIOUS
  <2>3. Resolves(events, floors, Small(S, 0), g)
    BY <1>0, <2>1, <2>2
  <2> QED
    BY <2>3
<1>2. ASSUME B # {} PROVE FALSE
  <2>1. PICK n \in B : \A k \in B : n <= k
    <3>1. B \subseteq Nat
      OBVIOUS
    <3> HIDE DEF B
    <3> QED
      BY <1>2, <3>1, HasLeastNat
  <2>2. n \in Nat /\ n # 0
    BY <1>1, <2>1
  <2>3. n - 1 \in Nat /\ n - 1 \notin B /\ (n - 1) + 1 = n
    BY <2>1, <2>2
  <2>4. PICK g : Resolves(events, floors, Small(S, n - 1), g)
    BY <2>3
  <2>5. \A T \in Small(S, n - 1) : g[T] = IF T = {} THEN none ELSE Add(T, g[T \ {e(T)}])
    BY <1>0, <2>4
  <2> DEFINE h == [T \in Small(S, n) |-> IF T = {} THEN none ELSE Add(T, g[T \ {e(T)}])]
  <2>6. ASSUME NEW T \in Small(S, n)
        PROVE  h[T] = IF T = {} THEN none ELSE Add(T, h[T \ {e(T)}])
    <3>1. CASE T # {}
      <4> DEFINE U == T \ {e(T)}
      <4>1. T \in SUBSET S /\ e(T) \in T
        BY <1>e, <3>1 DEF Small
      <4>2. U \in Small(S, n - 1)
        BY <2>3, <4>1, SmallParts
      <4>3. U \in Small(S, n)
        BY <2>3, <4>2, SmallParts
      <4>4. h[U] = g[U]
        <5> HIDE DEF U
        <5> QED
          BY <2>5, <4>2, <4>3
      <4> QED
        BY <3>1, <4>4
    <3> QED
      BY <3>1
  <2>7. h = [T \in Small(S, n) |-> h[T]]
    OBVIOUS
  <2>8. Resolves(events, floors, Small(S, n), h)
    <3> HIDE DEF h
    <3>1. h = [T \in Small(S, n) |-> IF T = {} THEN none ELSE Add(T, h[T \ {e(T)}])]
      BY <2>6, <2>7
    <3> QED
      BY <1>0, <3>1
  <2> QED
    BY <2>1, <2>8
<1>3. Cardinality(S) \in Nat /\ Small(S, Cardinality(S)) = SUBSET S
  BY SmallParts
<1>4. Cardinality(S) \notin B
  BY <1>2
<1> QED
  BY <1>3, <1>4

\* Whatever eras are resolved, in their order, the outcome is a resolution.
LEMMA ResolvedIs ==
  ASSUME NEW events, IsEvents(events), NEW floors, NEW eras, IsFiniteSet(eras),
         \A e \in eras : IsEra(e, Dates(events))
  PROVE  IsResolved(Resolved(events, floors, eras), Dates(events))
<1> DEFINE exs == Dates(events)
           upto == CHOOSE g : g = [some \in SUBSET eras |->
              IF some = {} THEN [done |-> {}, undecided |-> {}, pcanon |-> <<>>, vcanon |-> <<>>]
              ELSE LET era == Oldest(some)
                       acc == g[some \ {era}]
                   IN Decide(acc, era, ResolveEra(events, floors, era, acc.pcanon, acc.vcanon))]
<1>0. IsFiniteSet(exs)
  BY DEF IsEvents
<1>1. \E g : g = [some \in SUBSET eras |->
              IF some = {} THEN [done |-> {}, undecided |-> {}, pcanon |-> <<>>, vcanon |-> <<>>]
              ELSE LET era == Oldest(some)
                       acc == g[some \ {era}]
                   IN Decide(acc, era, ResolveEra(events, floors, era, acc.pcanon, acc.vcanon))]
  <2>1. PICK g : Resolves(events, floors, SUBSET eras, g)
    <3> HIDE DEF exs
    <3> QED
      BY <1>0, ResolutionExists DEF exs
  <2> QED
    BY <2>1, Zenon DEF Resolves
<1>2. Resolves(events, floors, SUBSET eras, upto)
  <2>1. upto = [some \in SUBSET eras |->
              IF some = {} THEN [done |-> {}, undecided |-> {}, pcanon |-> <<>>, vcanon |-> <<>>]
              ELSE LET era == Oldest(some)
                       acc == upto[some \ {era}]
                   IN Decide(acc, era, ResolveEra(events, floors, era, acc.pcanon, acc.vcanon))]
    BY <1>1, Zenon
  <2> HIDE DEF upto
  <2> QED
    BY <2>1, Zenon DEF Resolves
<1>3. Resolved(events, floors, eras) = upto[eras]
  BY Zenon DEF Resolved
<1> HIDE DEF upto
<1> DEFINE W == {T \in SUBSET eras : ~IsResolved(upto[T], exs)}
<1>4. ASSUME W # {} PROVE FALSE
  <2>1. PICK T \in W : \A U \in W : U \subseteq T => U = T
    <3>1. W \subseteq SUBSET eras
      OBVIOUS
    <3> HIDE DEF W
    <3> QED
      BY <1>4, <3>1, HasMinimal
  <2>2. T \in SUBSET eras /\ ~IsResolved(upto[T], exs)
    BY <2>1
  <2> DEFINE era == Oldest(T)
             acc == upto[T \ {era}]
             r == ResolveEra(events, floors, era, acc.pcanon, acc.vcanon)
  <2>3. upto[T] = IF T = {} THEN [done |-> {}, undecided |-> {}, pcanon |-> <<>>, vcanon |-> <<>>]
                  ELSE Decide(acc, era, r)
    BY <1>2, <2>2, Zenon DEF Resolves
  <2>4. T # {}
    <3>1. IsResolved([done |-> {}, undecided |-> {}, pcanon |-> <<>>, vcanon |-> <<>>], exs)
      BY FS_EmptySet DEF IsResolved, Settles
    <3> QED
      BY <2>2, <2>3, <3>1
  <2>5. era \in T
    BY <1>0, <2>2, <2>4, FS_Subset, OldestIsThere
  <2> HIDE DEF era
  <2>6. T \ {era} \in SUBSET eras /\ T \ {era} # T /\ T \ {era} \subseteq T
    BY <2>2, <2>5
  <2>7. IsResolved(acc, exs)
    BY <2>1, <2>6
  <2>8. IsEra(era, exs)
    BY <2>2, <2>5
  <2> HIDE DEF acc
  <2>9. r # None => r \in [era.key -> Choice]
    BY <2>7, <2>8, EraIsResolved DEF IsResolved
  <2> HIDE DEF r, exs
  <2>10. IsResolved(Decide(acc, era, r), exs)
    BY <2>7, <2>8, <2>9, DecideIs
  <2> QED
    BY <2>2, <2>3, <2>4, <2>10
<1> QED
  BY <1>3, <1>4

-----------------------------------------------------------------------------
(* Maps, and what is read from them.                                       *)

(* What a run probes is of the events in its scope, and of days it has     *)
(* candles and a daily row for.                                            *)
LEMMA MeasuredIs ==
  ASSUME NEW s \in Symbols, NEW clamp, NEW end, NEW today,
         NEW exs, Dates(EventsOf(s, end)) \subseteq exs
  PROVE  /\ IsFiniteSet(Measured(s, clamp, end, today))
         /\ \A era \in Measured(s, clamp, end, today) : IsEra(era, exs)
<1> DEFINE scope == InScope(s, clamp, end)
           Picks(ex) == Newest(EraDays(s, clamp, scope, ex), ProbeDaysPerEra)
           Span(ex) == IF Picks(ex) = {} THEN {}
                       ELSE (Min(Picks(ex)) .. Max(Picks(ex))) \cap s.rows \cap s.candles
           Probed(ex) == {ProbeOneDay(s, d, today) : d \in Span(ex)}
           Era(ex) == [key |-> {x \in scope : x >= ex}, days |-> Probed(ex)]
           shown == {x \in scope : Probed(x) # {}}
           era == [ex \in shown |-> Era(ex)]
<1>1. scope \subseteq exs /\ IsFiniteSet(scope)
  <2>1. scope \in SUBSET Dates(EventsOf(s, end))
    BY DEF InScope, Dates
  <2> HIDE DEF scope
  <2> QED
    BY <2>1, EventsAreWhole, FS_Subset DEF IsEvents
<1>2. Measured(s, clamp, end, today) = {Era(ex) : ex \in shown}
  BY DEF Measured
<1>3. {Era(ex) : ex \in shown} = {era[ex] : ex \in shown}
  OBVIOUS
<1>4. IsFiniteSet(shown)
  <2>1. shown \in SUBSET scope
    OBVIOUS
  <2> HIDE DEF shown, scope
  <2> QED
    BY <1>1, <2>1, FS_Subset
<1>5. ASSUME NEW ex \in shown PROVE IsEra(Era(ex), exs)
  <2> DEFINE probe == [d \in Span(ex) |-> ProbeOneDay(s, d, today)]
  <2>1. Span(ex) \in SUBSET s.candles /\ Span(ex) \subseteq s.rows
    OBVIOUS
  <2>2. Probed(ex) = {probe[d] : d \in Span(ex)}
    OBVIOUS
  <2>3. IsFiniteSet(Probed(ex))
    <3> HIDE DEF Span, Probed, probe
    <3>1. IsFiniteSet(s.candles)
      BY SymbolIsWhole
    <3>2. IsFiniteSet(Span(ex))
      BY <2>1, <3>1, FS_Subset
    <3>3. IsFiniteSet({probe[d] : d \in Span(ex)})
      BY <3>2, ImageIsFinite
    <3> QED
      BY <2>2, <3>3
  <2>4. \A x \in Probed(ex) : x.p \in Int /\ x.v \in Int
    <3> SUFFICES ASSUME NEW d \in Span(ex)
                 PROVE  ProbeOneDay(s, d, today).p \in Int /\ ProbeOneDay(s, d, today).v \in Int
      OBVIOUS
    <3>1. d \in s.candles \cap s.rows
      BY <2>1
    <3>2. ProbeOneDay(s, d, today) =
            [day |-> d, p |-> VendorPrice(s, d, today), v |-> VendorVolume(s, d, today)]
      BY <3>1 DEF ProbeOneDay
    <3> QED
      BY <3>2, VendorIsWhole
  <2>5. Era(ex).key \subseteq exs /\ Era(ex).days = Probed(ex)
    BY <1>1
  <2> HIDE DEF Era, Probed
  <2> QED
    BY <2>3, <2>4, <2>5 DEF IsEra
<1>6. IsFiniteSet({era[ex] : ex \in shown})
  <2> HIDE DEF shown, era
  <2> QED
    BY <1>4, ImageIsFinite
<1> HIDE DEF Era, shown, era
<1> QED
  BY <1>2, <1>3, <1>5, <1>6

-----------------------------------------------------------------------------
\* One floor for an event.
OneEach(floors) == \A f, g \in floors : f.ex = g.ex => f = g

\* A map that may be read: eras of its own events, a factor for each event of
\* a proved one, and one floor for an event.
MayBeRead(m) ==
    /\ DOMAIN m = {"fetch", "exs", "floors", "eras", "model"}
    /\ m.fetch \in Nat /\ m.exs \subseteq Nat /\ IsFiniteSet(m.exs)
    /\ \A r \in m.eras : IsMapped(r, m.exs)
    /\ OneEach(m.floors)

\* A map built of probed eras may be read (build_adjustment_map).
LEMMA BuildMapIs ==
  ASSUME NEW fetch \in Nat, NEW model, NEW events, IsEvents(events), NEW eras, IsFiniteSet(eras),
         \A e \in eras : IsEra(e, Dates(events)), NEW floors, OneEach(floors)
  PROVE  MayBeRead(BuildMap(fetch, model, events, eras, floors))
<1> DEFINE known == {f \in floors : f.resolved \/ f.vresolved}
           all == Resolved(events, known, eras)
<1>1. IsResolved(all, Dates(events))
  <2> HIDE DEF known
  <2> QED
    BY ResolvedIs
<1>2. BuildMap(fetch, model, events, eras, floors) =
        [fetch |-> fetch, exs |-> Dates(events), floors |-> floors,
         eras |-> FinalEras(all), model |-> model]
  BY DEF BuildMap, Dates
<1> HIDE DEF all
<1>3. \A r \in FinalEras(all) : IsMapped(r, Dates(events))
  BY <1>1, FinalErasAreMapped DEF IsEvents
<1>4. Dates(events) \subseteq Nat /\ IsFiniteSet(Dates(events))
  BY DEF IsEvents
<1> DEFINE exs == Dates(events)
<1> HIDE DEF exs
<1> QED
  BY <1>2, <1>3, <1>4 DEF MayBeRead, exs

\* A map is read alike under other floors, when these are one for an event too.
LEMMA OtherFloorsRead ==
  ASSUME NEW m, MayBeRead(m), NEW floors, OneEach(floors)
  PROVE  /\ MayBeRead([m EXCEPT !.floors = floors])
         /\ [m EXCEPT !.floors = floors].floors = floors
BY DEF MayBeRead

\* Carrying the floors of the map on disk into a new one keeps it readable.
LEMMA CarriedFloorsRead ==
  ASSUME NEW previous, previous # None => OneEach(previous.floors), NEW fresh, MayBeRead(fresh)
  PROVE  MayBeRead(CarryFloors(previous, fresh))
<1>1. CASE previous = None
  BY <1>1 DEF CarryFloors
<1>2. CASE previous # None
  <2> DEFINE own == {f.ex : f \in fresh.floors}
             carried == {f \in previous.floors :
                 f.ex \notin own /\ KeepsFloor(CanonicalFactors(previous), CanonicalFactors(fresh), f)}
             both == fresh.floors \cup carried
  <2>1. CarryFloors(previous, fresh) = [fresh EXCEPT !.floors = both]
    BY <1>2 DEF CarryFloors
  <2>2. OneEach(both)
    <3>1. OneEach(fresh.floors) /\ OneEach(previous.floors)
      BY <1>2 DEF MayBeRead
    <3>2. \A f \in carried : f \in previous.floors /\ f.ex \notin own
      OBVIOUS
    <3>3. \A f \in fresh.floors : f.ex \in own
      OBVIOUS
    <3> HIDE DEF own, carried
    <3> QED
      BY <3>1, <3>2, <3>3 DEF OneEach
  <2> HIDE DEF both
  <2> QED
    BY <2>1, <2>2, OtherFloorsRead
<1> QED
  BY <1>1, <1>2

-----------------------------------------------------------------------------
\* The era a day falls in is one of the map's.
LEMMA EraForIs ==
  ASSUME NEW m, MayBeRead(m), NEW day, EraFor(m, day) # None
  PROVE  IsMapped(EraFor(m, day), m.exs) /\ IsFiniteSet(EraFor(m, day).key)
<1> DEFINE hits == {r \in m.eras : r.key = InWindow(m, day)}
<1>1. hits # {} /\ EraFor(m, day) = CHOOSE r \in hits : TRUE
  BY DEF EraFor
<1>2. EraFor(m, day) \in m.eras
  BY <1>1
<1>3. IsMapped(EraFor(m, day), m.exs) /\ IsFiniteSet(m.exs)
  BY <1>2 DEF MayBeRead
<1> QED
  BY <1>3, FS_Subset DEF IsMapped

\* The factors of a proved era, over some of its events, make a pair.
LEMMA ChainIsInt ==
  ASSUME NEW key, IsFiniteSet(key), NEW choices \in [key -> Choice], NEW S \in SUBSET key
  PROVE  /\ Total([ex \in key |-> choices[ex].p], S) \in Int
         /\ Total([ex \in key |-> choices[ex].v], S) \in Int
<1> DEFINE p == [ex \in key |-> choices[ex].p]
           v == [ex \in key |-> choices[ex].v]
<1>1. \A x \in S : p[x] \in Int /\ v[x] \in Int
  BY DEF Choice
<1>2. IsFiniteSet(S)
  BY FS_Subset
<1> HIDE DEF p, v
<1>3. Total(p, S) \in Int
  BY <1>1, <1>2, TotalIsInt
<1>4. Total(v, S) \in Int
  BY <1>1, <1>2, TotalIsInt
<1> QED
  BY <1>3, <1>4 DEF p, v

\* The factors a readable map gives a day are a pair of numbers.
LEMMA FactorsAreWhole ==
  ASSUME NEW m, MayBeRead(m), NEW day
  PROVE  /\ FactorsForDay(m, day) # None => IsPair(FactorsForDay(m, day))
         /\ EraChain(m, day) # None => IsPair(EraChain(m, day))
<1> DEFINE era == EraFor(m, day)
           none == [p |-> 0, v |-> 0]
<1>1. CASE InWindow(m, day) = {}
  <2>1. FactorsForDay(m, day) = none /\ EraChain(m, day) = none
    BY <1>1 DEF FactorsForDay, EraChain
  <2> QED
    BY <2>1 DEF IsPair
<1>2. CASE InWindow(m, day) # {} /\ (era = None \/ ~era.provable)
  BY <1>2 DEF FactorsForDay, EraChain
<1>3. CASE InWindow(m, day) # {} /\ era # None /\ era.provable
  <2> DEFINE near == {ex \in era.key : EventApplies(m, ex, day)}
             vnear == {ex \in era.key : EventAppliesVolume(m, ex, day)}
             p == [ex \in era.key |-> era.choices[ex].p]
             v == [ex \in era.key |-> era.choices[ex].v]
  <2>1. IsFiniteSet(era.key) /\ era.choices \in [era.key -> Choice]
    BY <1>3, EraForIs DEF IsMapped
  <2>2. FactorsForDay(m, day) = [p |-> Total(p, near), v |-> Total(v, vnear)]
    BY <1>3 DEF FactorsForDay
  <2>3. EraChain(m, day) = [p |-> Total(p, era.key), v |-> Total(v, era.key)]
    <3>1. DOMAIN era.choices = era.key
      BY <2>1
    <3> QED
      BY <1>3, <3>1 DEF EraChain, PriceChain, VolumeChain
  <2>4. near \in SUBSET era.key /\ vnear \in SUBSET era.key /\ era.key \in SUBSET era.key
    OBVIOUS
  <2> HIDE DEF near, vnear, era
  <2>5. \A S \in SUBSET era.key : Total(p, S) \in Int /\ Total(v, S) \in Int
    <3> TAKE S \in SUBSET era.key
    <3> DEFINE choices == era.choices
    <3>1. choices \in [era.key -> Choice]
      BY <2>1
    <3> HIDE DEF choices
    <3>2. /\ Total([ex \in era.key |-> choices[ex].p], S) \in Int
          /\ Total([ex \in era.key |-> choices[ex].v], S) \in Int
      BY <2>1, <3>1, ChainIsInt
    <3> QED
      BY <3>2 DEF choices
  <2> HIDE DEF p, v
  <2> QED
    BY <2>2, <2>3, <2>4, <2>5 DEF IsPair
<1> QED
  BY <1>1, <1>2, <1>3

\* So is what is left of them net of the table's.
LEMMA NetIsWhole ==
  ASSUME NEW k, k # None => IsPair(k), NEW table, table # None => IsPair(table),
         NetFactors(k, table) # None
  PROVE  IsPair(NetFactors(k, table))
<1>1. CASE k = None \/ table = None
  BY <1>1 DEF NetFactors
<1>2. CASE k # None /\ table # None
  BY <1>2 DEF NetFactors, Scaled, IsPair
<1> QED
  BY <1>1, <1>2

-----------------------------------------------------------------------------
(* The rebuild of a stored day.                                            *)

\* A side of a stored day that is judged to be off, and the factors undone then.
Judged(base, r, k, t) == base = NearestBaseline(r, k, t) /\ base \notin {"raw", "unknown"}
Undone(c, base, net, target) == c = BaselineCorrection(base, net, target)

\* What is left of a side once the correction of its baseline is undone.
LEMMA BaselineIsUndone ==
  ASSUME NEW net, IsPair(net), NEW target, IsPair(target), NEW r \in Int, NEW k \in Int, NEW t \in Int,
         NEW base, Judged(base, r, k, t), NEW c, Undone(c, base, net, target)
  PROVE  /\ IsPair(c)
         /\ k = net.p /\ t = target.p => r - c.p = 0
         /\ k = -net.v /\ t = -target.v => r + c.v = 0
         /\ net.p = 0 /\ target.p = 0 => c.p = 0
<1>0. net.p \in Int /\ net.v \in Int /\ target.p \in Int /\ target.v \in Int
  BY DEF IsPair
<1>1. CASE base = "as-fetched" /\ r = k
  <2>1. c = net
    BY <1>1 DEF Undone, BaselineCorrection
  <2> QED
    BY <1>0, <1>1, <2>1 DEF IsPair
<1>2. CASE base = "over-divided" /\ r = -k
  <2>1. c = Scaled(-1, net, 0, target)
    BY <1>2 DEF Undone, BaselineCorrection
  <2>2. c.p = -net.p /\ c.v = -net.v
    BY <1>0, <2>1 DEF Scaled
  <2> QED
    BY <1>0, <1>2, <2>2 DEF IsPair
<1>3. CASE base = "over-divided-twice" /\ r = -2 * k
  <2>1. c = Scaled(-2, net, 0, target)
    BY <1>3 DEF Undone, BaselineCorrection
  <2>2. c.p = -2 * net.p /\ c.v = -2 * net.v
    BY <1>0, <2>1 DEF Scaled
  <2> QED
    BY <1>0, <1>3, <2>2 DEF IsPair
<1>4. CASE base = "pre-floor-divided" /\ r = t - k
  <2>1. c = Scaled(-1, net, 1, target)
    BY <1>4 DEF Undone, BaselineCorrection
  <2>2. c.p = target.p - net.p /\ c.v = target.v - net.v
    BY <1>0, <2>1 DEF Scaled
  <2> QED
    BY <1>0, <1>4, <2>2 DEF IsPair
<1>5. CASE base = "floor-overreached" /\ r = k - t
  <2>1. c = Scaled(1, net, -1, target)
    BY <1>5 DEF Undone, BaselineCorrection
  <2>2. c.p = net.p - target.p /\ c.v = net.v - target.v
    BY <1>0, <2>1 DEF Scaled
  <2> QED
    BY <1>0, <1>5, <2>2 DEF IsPair
<1>6. CASE base = "as-fetched-floored" /\ r = t
  <2>1. c = target
    BY <1>6 DEF Undone, BaselineCorrection
  <2> QED
    BY <1>0, <1>6, <2>1 DEF IsPair
<1>7. \/ base = "as-fetched" /\ r = k
      \/ base = "over-divided" /\ r = -k
      \/ base = "over-divided-twice" /\ r = -2 * k
      \/ base = "pre-floor-divided" /\ r = t - k
      \/ base = "floor-overreached" /\ r = k - t
      \/ base = "as-fetched-floored" /\ r = t
  BY DEF Judged, NearestBaseline
<1> QED
  BY <1>1, <1>2, <1>3, <1>4, <1>5, <1>6, <1>7

\* A corrected day is raw on the side that was judged, and a day that was in
\* order by price and volume stays so.
LEMMA CorrectedIsRaw ==
  ASSUME NEW day, IsPair(day), NEW net, IsPair(net), NEW target, IsPair(target),
         NEW base, base = StoredDayBaseline(day, net, target), base \notin {"raw", "unknown"}
  PROVE  LET new == Unadjust(day, BaselineCorrection(base, net, target))
         IN  /\ IsPair(new) /\ StoredDayBaseline(new, net, target) = "raw"
             /\ day.p = 0 => new.p = 0 /\ new.v = 0
<1> DEFINE c == BaselineCorrection(base, net, target)
           new == Unadjust(day, c)
<1>0. new.p = day.p - c.p /\ new.v = day.v + c.v
  BY DEF Unadjust, UnadjustPrice, UnadjustVolume
<1>1. day.p \in Int /\ day.v \in Int /\ net.p \in Int /\ net.v \in Int
      /\ target.p \in Int /\ target.v \in Int
  BY DEF IsPair
<1> HIDE DEF c, new
<1>2. \A k, t \in Int : NearestBaseline(0, k, t) = "raw"
  BY DEF NearestBaseline
<1>3. CASE net.p # 0 \/ target.p # net.p
  <2>1. base = NearestBaseline(day.p, net.p, target.p)
    BY <1>3 DEF StoredDayBaseline
  <2>2. IsPair(c) /\ day.p - c.p = 0
    <3>1. Judged(base, day.p, net.p, target.p) /\ Undone(c, base, net, target)
      BY <2>1 DEF c, Judged, Undone
    <3>2. day.p \in Int /\ net.p \in Int /\ target.p \in Int
      BY <1>1
    <3> QED
      BY <3>1, <3>2, BaselineIsUndone
  <2>3. day.p # 0
    BY <1>1, <1>2, <2>1
  <2>4. IsPair(new) /\ new.p = 0
    BY <1>0, <1>1, <2>2 DEF IsPair
  <2>5. StoredDayBaseline(new, net, target) = "raw"
    BY <1>1, <1>2, <1>3, <2>4 DEF StoredDayBaseline
  <2> QED
    BY <2>3, <2>4, <2>5 DEF new, c
<1>4. CASE net.p = 0 /\ target.p = 0 /\ (net.v # 0 \/ target.v # net.v)
  <2>1. base = NearestBaseline(day.v, -net.v, -target.v)
    BY <1>4 DEF StoredDayBaseline
  <2>2. IsPair(c) /\ day.v + c.v = 0 /\ c.p = 0
    <3>1. -net.v \in Int /\ -target.v \in Int
      BY <1>1
    <3>2. Judged(base, day.v, -net.v, -target.v) /\ Undone(c, base, net, target)
      BY <2>1 DEF c, Judged, Undone
    <3>3. day.v \in Int /\ -net.v \in Int /\ -target.v \in Int
      BY <1>1
    <3> QED
      BY <1>4, <3>2, <3>3, BaselineIsUndone
  <2>3. IsPair(new) /\ new.v = 0 /\ (day.p = 0 => new.p = 0)
    BY <1>0, <1>1, <2>2 DEF IsPair
  <2>4. StoredDayBaseline(new, net, target) = "raw"
    <3>1. -net.v \in Int /\ -target.v \in Int
      BY <1>1
    <3> QED
      BY <1>2, <1>4, <2>3, <3>1 DEF StoredDayBaseline
  <2> QED
    BY <2>3, <2>4 DEF new, c
<1>5. CASE net.p = 0 /\ target.p = 0 /\ net.v = 0 /\ target.v = 0
  BY <1>5 DEF StoredDayBaseline
<1> QED
  BY <1>1, <1>3, <1>4, <1>5

\* A rebuild leaves what a second one leaves as it is, and takes no day that is
\* in order out of it (rebuild_symbol_raw_with_map).
LEMMA RebuiltOnce ==
  ASSUME NEW s, NEW m, MayBeRead(m), NEW table, table # None => IsPair(table),
         NEW d, NEW day, IsPair(day)
  PROVE  LET new == RebuiltDay(s, m, table, d, day)
         IN  /\ IsPair(new) /\ RebuiltDay(s, m, table, d, new) = new
             /\ PriceOk(day.p) /\ VolumeOk(day.v) => PriceOk(new.p) /\ VolumeOk(new.v)
<1> DEFINE target == NetFactors(FactorsForDay(m, d), table)
           net == NetFactors(EraChain(m, d), table)
           base == StoredDayBaseline(day, net, target)
           new == RebuiltDay(s, m, table, d, day)
<1>1. CASE d \notin s.rows \/ target = None \/ net = None \/ base \in {"raw", "unknown"}
  <2>1. new = day
    BY <1>1 DEF RebuiltDay
  <2> HIDE DEF new
  <2> QED
    BY <2>1 DEF new
<1>2. CASE d \in s.rows /\ target # None /\ net # None /\ base \notin {"raw", "unknown"}
  <2>1. new = Unadjust(day, BaselineCorrection(base, net, target))
    BY <1>2 DEF RebuiltDay
  <2>2. IsPair(target) /\ IsPair(net)
    <3>1. /\ FactorsForDay(m, d) # None => IsPair(FactorsForDay(m, d))
          /\ EraChain(m, d) # None => IsPair(EraChain(m, d))
      BY FactorsAreWhole
    <3> QED
      BY <1>2, <3>1, NetIsWhole
  <2>3. RebuiltDay(s, m, table, d, new) =
          IF StoredDayBaseline(new, net, target) \in {"raw", "unknown"} THEN new
          ELSE Unadjust(new, BaselineCorrection(StoredDayBaseline(new, net, target), net, target))
    <3> HIDE DEF new
    <3> QED
      BY <1>2 DEF RebuiltDay
  <2> HIDE DEF new, target, net
  <2>4. /\ IsPair(new) /\ StoredDayBaseline(new, net, target) = "raw"
        /\ day.p = 0 => new.p = 0 /\ new.v = 0
    BY <1>2, <2>1, <2>2, CorrectedIsRaw
  <2>5. VolumeOk(0)
    BY VendorMapAssumption DEF VolumeOk
  <2> QED
    BY <2>3, <2>4, <2>5 DEF PriceOk, new
<1> QED
  BY <1>1, <1>2

-----------------------------------------------------------------------------
(* One round of the hunt.                                                  *)

\* A search ends with nothing, or with a floor of the event it was for.
LEMMA SearchIsOfItsEvent ==
  ASSUME NEW m, NEW ex, NEW signed, NEW forced, SearchEvent(m, ex, signed, forced) # None
  PROVE  SearchEvent(m, ex, signed, forced).ex = ex
<1> DEFINE hyp == IF signed THEN Hypotheses(m, ex) ELSE <<>>
           days == CandidateDays(m, hyp, ex)
<1>1. SearchEvent(m, ex, signed, forced) = SearchAmong(m, ex, hyp, days, signed, forced)
  BY DEF SearchEvent, SearchUnder
<1> HIDE DEF hyp, days
<1>2. PICK day, resolved, factor :
        SearchAmong(m, ex, hyp, days, signed, forced) = NewFloor(ex, day, resolved, factor)
  <2> DEFINE verdicts == [i \in DOMAIN days |->
                 LiveVerdict(m, hyp, ex, days[i], ProbeOneDay(sym, days[i], Today))]
             era == EraFor(m, days[Len(days)])
             choices == IF era.provable THEN era.choices ELSE hyp[era.key]
             found == SearchFloor(days, verdicts, IF signed THEN ex ELSE None)
  <2>1. SearchAmong(m, ex, hyp, days, signed, forced) =
          NewFloor(ex, found.day, found.resolved, choices[ex].p)
    <3>1. SearchAmong(m, ex, hyp, days, signed, forced) # None
      BY <1>1
    <3> QED
      BY <3>1 DEF SearchAmong
  <2> HIDE DEF found, choices
  <2> QED
    BY <2>1
<1> QED
  BY <1>1, <1>2 DEF NewFloor

\* The recursion of HuntRound, on these sets.
Put(acc, f) ==
    IF f = None THEN acc
    ELSE [found |-> acc.found \cup {f}, map |-> [acc.map EXCEPT !.floors = acc.found \cup {f}]]
HuntStep(acc, ex, signed, forced) ==
    Put(acc, SearchEvent(acc.map, ex, ex \in signed \cup forced, ex \in forced))
Hunts(m, signed, forced, D, hunted) ==
    hunted = [some \in D |->
                IF some = {} THEN [found |-> {}, map |-> m]
                ELSE HuntStep(hunted[some \ {Min(some)}], Min(some), signed, forced)]

\* A round of the hunt has a value for every set of dates.
LEMMA HuntExists ==
  ASSUME NEW m, NEW signed, NEW forced, NEW S, IsFiniteSet(S), \A x \in S : x \in Int
  PROVE  \E hunted : Hunts(m, signed, forced, SUBSET S, hunted)
<1> DEFINE e(T) == Min(T)
           Add(T, acc) == HuntStep(acc, Min(T), signed, forced)
           none == [found |-> {}, map |-> m]
           B == {n \in Nat : ~\E g : Hunts(m, signed, forced, Small(S, n), g)}
<1>0. \A D, g : Hunts(m, signed, forced, D, g)
                  <=> g = [T \in D |-> IF T = {} THEN none ELSE Add(T, g[T \ {e(T)}])]
  BY DEF Hunts
<1>e. \A T \in SUBSET S : T # {} => e(T) \in T
  <2> SUFFICES ASSUME NEW T \in SUBSET S, T # {} PROVE Min(T) \in T
    OBVIOUS
  <2>1. IsFiniteSet(T) /\ \A x \in T : x \in Int
    BY FS_Subset
  <2> QED
    BY <2>1, MinIsThere
<1> HIDE DEF Add, e, none
<1>1. 0 \notin B
  <2>1. Small(S, 0) = {{}}
    BY SmallParts
  <2> DEFINE g == [T \in {{}} |-> none]
  <2>2. g = [T \in {{}} |-> IF T = {} THEN none ELSE Add(T, g[T \ {e(T)}])]
    OBVIOUS
  <2>3. Hunts(m, signed, forced, Small(S, 0), g)
    BY <1>0, <2>1, <2>2
  <2> QED
    BY <2>3
<1>2. ASSUME B # {} PROVE FALSE
  <2>1. PICK n \in B : \A k \in B : n <= k
    <3>1. B \subseteq Nat
      OBVIOUS
    <3> HIDE DEF B
    <3> QED
      BY <1>2, <3>1, HasLeastNat
  <2>2. n \in Nat /\ n # 0
    BY <1>1, <2>1
  <2>3. n - 1 \in Nat /\ n - 1 \notin B /\ (n - 1) + 1 = n
    BY <2>1, <2>2
  <2>4. PICK g : Hunts(m, signed, forced, Small(S, n - 1), g)
    BY <2>3
  <2>5. \A T \in Small(S, n - 1) : g[T] = IF T = {} THEN none ELSE Add(T, g[T \ {e(T)}])
    BY <1>0, <2>4
  <2> DEFINE h == [T \in Small(S, n) |-> IF T = {} THEN none ELSE Add(T, g[T \ {e(T)}])]
  <2>6. ASSUME NEW T \in Small(S, n)
        PROVE  h[T] = IF T = {} THEN none ELSE Add(T, h[T \ {e(T)}])
    <3>1. CASE T # {}
      <4> DEFINE U == T \ {e(T)}
      <4>1. T \in SUBSET S /\ e(T) \in T
        BY <1>e, <3>1 DEF Small
      <4>2. U \in Small(S, n - 1)
        BY <2>3, <4>1, SmallParts
      <4>3. U \in Small(S, n)
        BY <2>3, <4>2, SmallParts
      <4>4. h[U] = g[U]
        <5> HIDE DEF U
        <5> QED
          BY <2>5, <4>2, <4>3
      <4> QED
        BY <3>1, <4>4
    <3> QED
      BY <3>1
  <2>7. h = [T \in Small(S, n) |-> h[T]]
    OBVIOUS
  <2>8. Hunts(m, signed, forced, Small(S, n), h)
    <3> HIDE DEF h
    <3>1. h = [T \in Small(S, n) |-> IF T = {} THEN none ELSE Add(T, h[T \ {e(T)}])]
      BY <2>6, <2>7
    <3> QED
      BY <1>0, <3>1
  <2> QED
    BY <2>1, <2>8
<1>3. Cardinality(S) \in Nat /\ Small(S, Cardinality(S)) = SUBSET S
  BY SmallParts
<1>4. Cardinality(S) \notin B
  BY <1>2
<1> QED
  BY <1>3, <1>4

(* A round of the hunt finds at most one floor for an event. *)
LEMMA HuntRoundIs ==
  ASSUME NEW m, IsFiniteSet(m.exs), \A x \in m.exs : x \in Int, NEW signed, NEW forced, NEW skip
  PROVE  OneEach(HuntRound(m, signed, forced, skip))
<1> DEFINE due == {ex \in m.exs : ex <= m.fetch /\ ex \notin skip}
           hunted == CHOOSE g : g = [some \in SUBSET due |->
              IF some = {} THEN [found |-> {}, map |-> m]
              ELSE HuntStep(g[some \ {Min(some)}], Min(some), signed, forced)]
<1>0. IsFiniteSet(due) /\ \A x \in due : x \in Int
  <2>1. due \in SUBSET m.exs
    OBVIOUS
  <2> HIDE DEF due
  <2> QED
    BY <2>1, FS_Subset
<1>2. Hunts(m, signed, forced, SUBSET due, hunted)
  <2> HIDE DEF due
  <2>1. \E g : g = [some \in SUBSET due |->
              IF some = {} THEN [found |-> {}, map |-> m]
              ELSE HuntStep(g[some \ {Min(some)}], Min(some), signed, forced)]
    <3>1. PICK g : Hunts(m, signed, forced, SUBSET due, g)
      BY <1>0, HuntExists
    <3> QED
      BY <3>1, Zenon DEF Hunts
  <2>2. hunted = [some \in SUBSET due |->
              IF some = {} THEN [found |-> {}, map |-> m]
              ELSE HuntStep(hunted[some \ {Min(some)}], Min(some), signed, forced)]
    BY <2>1, Zenon
  <2> HIDE DEF hunted
  <2> QED
    BY <2>2, Zenon DEF Hunts
<1>3. HuntRound(m, signed, forced, skip) = hunted[due].found
  BY Zenon DEF HuntRound, HuntStep, Put
<1> HIDE DEF hunted
<1> DEFINE Fine(T) == OneEach(hunted[T].found) /\ \A f \in hunted[T].found : f.ex \in T
           W == {T \in SUBSET due : ~Fine(T)}
<1>4. ASSUME W # {} PROVE FALSE
  <2>1. PICK T \in W : \A U \in W : U \subseteq T => U = T
    <3>1. W \subseteq SUBSET due
      OBVIOUS
    <3> HIDE DEF W, due
    <3> QED
      BY <1>0, <1>4, <3>1, HasMinimal
  <2>2. T \in SUBSET due /\ ~Fine(T)
    BY <2>1
  <2> DEFINE ex == Min(T)
             acc == hunted[T \ {ex}]
             f == SearchEvent(acc.map, ex, ex \in signed \cup forced, ex \in forced)
  <2>3. hunted[T] = IF T = {} THEN [found |-> {}, map |-> m] ELSE HuntStep(acc, ex, signed, forced)
    BY <1>2, <2>2, Zenon DEF Hunts
  <2>4. T # {}
    <3>1. T = {} => hunted[T].found = {}
      BY <2>3
    <3> QED
      BY <2>2, <3>1 DEF OneEach
  <2>5. ex \in T
    <3>1. IsFiniteSet(T) /\ \A x \in T : x \in Int
      <4> HIDE DEF due
      <4> QED
        BY <1>0, <2>2, FS_Subset
    <3> QED
      BY <2>4, <3>1, MinIsThere
  <2>6. Fine(T \ {ex})
    <3>1. T \ {ex} \in SUBSET due /\ T \ {ex} # T /\ T \ {ex} \subseteq T
      BY <2>2, <2>5
    <3> HIDE DEF Fine, due, ex
    <3> QED
      BY <2>1, <3>1
  <2>7. f # None => f.ex = ex
    BY SearchIsOfItsEvent
  <2>8. hunted[T].found = IF f = None THEN acc.found ELSE acc.found \cup {f}
    <3>1. hunted[T] = Put(acc, f)
      BY <2>3, <2>4 DEF HuntStep
    <3> HIDE DEF f, acc
    <3> QED
      BY <3>1 DEF Put
  <2>9. OneEach(acc.found) /\ \A g \in acc.found : g.ex \in T \ {ex}
    BY <2>6
  <2> HIDE DEF acc, f, ex
  <2>10. OneEach(hunted[T].found) /\ \A g \in hunted[T].found : g.ex \in T
    BY <2>5, <2>7, <2>8, <2>9 DEF OneEach
  <2> QED
    BY <2>2, <2>10
<1>5. Fine(due)
  BY <1>4
<1> QED
  BY <1>3, <1>5

-----------------------------------------------------------------------------
(* The shape of the files and of what is in hand, in every reachable state. *)

\* A run's last day is not after the day it runs on.
LEMMA RunDatesAreOrdered ==
  ASSUME StoreInv PROVE End \in Nat /\ Today \in Nat /\ End <= Today
<1>1. now[1] \in Nat \ {0} /\ now[2] \in Nat /\ now[1] <= now[2]
  BY UniverseAssumption DEF StoreInv
<1> QED
  BY <1>1 DEF End, Today

(* A map that is built may be read (build_map_for). *)
LEMMA BuiltIsRead ==
  ASSUME StoreInv, amap # None => MayBeRead(amap), NEW given, OneEach(given), BuiltMap(given) # None
  PROVE  MayBeRead(BuiltMap(given))
<1> DEFINE used == UsedFloors(given)
           events == EventsOf(sym, Today)
           fresh == BuildMap(End, ruling.map, events, Probes, used)
<1>1. BuiltMap(given) = CarryFloors(amap, fresh)
  BY DEF BuiltMap
<1>2. OneEach(used)
  BY DEF UsedFloors, OneEach, MayBeRead
<1>3. sym \in Symbols /\ End \in Nat /\ Today \in Nat /\ End <= Today
  BY RunDatesAreOrdered DEF StoreInv
<1>4. IsEvents(events) /\ Dates(EventsOf(sym, End)) \subseteq Dates(events)
  BY <1>3, EventsAreWhole, EarlierEvents
<1>5. IsFiniteSet(Probes) /\ \A era \in Probes : IsEra(era, Dates(events))
  BY <1>3, <1>4, MeasuredIs DEF Probes
<1> HIDE DEF used, events
<1>6. MayBeRead(fresh)
  BY <1>2, <1>3, <1>4, <1>5, BuildMapIs
<1> HIDE DEF fresh
<1>7. amap # None => OneEach(amap.floors)
  BY DEF MayBeRead
<1> QED
  BY <1>1, <1>6, <1>7, CarriedFloorsRead

(* A map that a recovery tries floors on may be read. *)
LEMMA TriedIsRead ==
  ASSUME NEW m, NEW acc, MayBeRead(acc.map), NEW f
  PROVE  MayBeRead(TryFloor(m, acc, f).map)
<1>1. CASE f = None
  BY <1>1 DEF TryFloor
<1>2. CASE f # None
  <2> DEFINE trial == StoredFor(acc.map, f)
  <2>1. MayBeRead(trial)
    <3>1. OneEach(WithFloor(acc.map.floors, f))
      <4>1. OneEach(acc.map.floors)
        BY DEF MayBeRead
      <4> QED
        BY <4>1 DEF WithFloor, OneEach
    <3>2. trial = acc.map \/ trial = [acc.map EXCEPT !.floors = WithFloor(acc.map.floors, f)]
      BY DEF StoredFor
    <3> HIDE DEF trial
    <3> QED
      BY <3>1, <3>2, OtherFloorsRead
  <2> HIDE DEF trial
  <2>2. TryFloor(m, acc, f) = Better(acc, trial, Predicted(m, trial))
    BY <1>2 DEF TryFloor, trial
  <2>3. TryFloor(m, acc, f).map = acc.map \/ TryFloor(m, acc, f).map = trial
    BY <2>2 DEF Better
  <2> QED
    BY <2>1, <2>3
<1> QED
  BY <1>1, <1>2

\* The map the recovery accepts may be read.
LEMMA AcceptedIsRead ==
  ASSUME NEW m, MayBeRead(m)
  PROVE  MayBeRead(Accepted(m))
<1> DEFINE due == RecoveryEvents(sym, bars, m)
<1>0. m.fetch \in Nat
  BY DEF MayBeRead
<1>1. PICK tried : Tries(m, due, m.fetch, tried) /\ Accepted(m) = tried[m.fetch].map
  BY <1>0, AcceptedIsTried
<1> HIDE DEF due
<1> DEFINE Good(i) == MayBeRead(tried[i].map)
           first == [map |-> m, best |-> Predicted(m, m)]
           T == {i \in 1 .. m.fetch : ~Good(i)}
<1>2. \A i \in 0 .. m.fetch :
        tried[i] = IF i = 0 THEN first
                   ELSE IF m.fetch + 1 - i \notin due THEN tried[i - 1]
                   ELSE TryFloor(m, tried[i - 1], MeasuredFloor(tried[i - 1].map, m.fetch + 1 - i))
  <2>1. tried = [i \in 0 .. m.fetch |->
                   IF i = 0 THEN first
                   ELSE IF m.fetch + 1 - i \notin due THEN tried[i - 1]
                   ELSE TryFloor(m, tried[i - 1], MeasuredFloor(tried[i - 1].map, m.fetch + 1 - i))]
    BY <1>1 DEF Tries
  <2> HIDE DEF first
  <2> QED
    BY <2>1
<1>3. Good(0)
  <2>1. tried[0] = first
    BY <1>0, <1>2
  <2>2. first.map = m
    OBVIOUS
  <2> HIDE DEF first
  <2> QED
    BY <2>1, <2>2
<1> HIDE DEF first
<1>4. ASSUME T # {} PROVE FALSE
  <2>1. PICK x \in T : \A i \in T : x <= i
    <3>1. T \subseteq 1 .. m.fetch
      OBVIOUS
    <3> HIDE DEF T
    <3> QED
      BY <1>0, <1>4, <3>1, HasLeast
  <2>2. x \in 1 .. m.fetch /\ ~Good(x)
    BY <2>1
  <2>3. Good(x - 1)
    <3>1. CASE x = 1
      BY <1>3, <3>1
    <3>2. CASE x # 1
      <4>1. x - 1 \in 1 .. m.fetch /\ x - 1 \notin T
        BY <1>0, <2>1, <2>2, <3>2
      <4> QED
        BY <4>1
    <3> QED
      BY <3>1, <3>2
  <2> DEFINE ex == m.fetch + 1 - x
             acc == tried[x - 1]
  <2>4. tried[x] = IF ex \notin due THEN acc ELSE TryFloor(m, acc, MeasuredFloor(acc.map, ex))
    BY <1>0, <1>2, <2>2
  <2> HIDE DEF ex, acc
  <2>5. MayBeRead(acc.map) /\ MayBeRead(TryFloor(m, acc, MeasuredFloor(acc.map, ex)).map)
    BY <2>3, TriedIsRead DEF acc
  <2> QED
    BY <2>2, <2>4, <2>5
<1>5. Good(m.fetch)
  BY <1>0, <1>3, <1>4
<1> QED
  BY <1>1, <1>5

-----------------------------------------------------------------------------
WindowInv == pc # "write" => job.window = None

FilesInv ==
    /\ \A d \in DOMAIN bars : IsPair(bars[d])
    /\ \A w \in DOMAIN ledger :
         /\ ledger[w].outcome \in {"present", "empty", "error"}
         /\ w <= ledger[w].end /\ ledger[w].end <= ledger[w].fetch

HuntFields == {"round", "start", "floors", "rebuilt", "with", "forced", "signed"}

\* Every map on disk and in hand may be read.
MapsInv ==
    /\ amap # None => MayBeRead(amap)
    /\ job.map # None \/ pc \in {"mapped", "rebuild"} \/ Hunting => MayBeRead(job.map)
    /\ Hunting =>
         /\ DOMAIN job.hunt = HuntFields
         /\ MayBeRead(job.hunt.start)
         /\ OneEach(job.hunt.floors)
         /\ job.hunt.rebuilt # None => MayBeRead(job.hunt.rebuilt)

StatusInv ==
    /\ IsRow(job.work) /\ (rec # None => IsRow(rec) /\ rec.status \in Statuses)
    /\ Gated => job.work.status \in Settling
    /\ pc = "record" => job.work.status \in Statuses

ShapeInv == WindowInv /\ FilesInv /\ MapsInv /\ StatusInv

\* The invariant holds of an empty disk.
LEMMA ShapeInit == RecoveryInit => ShapeInv
<1> SUFFICES ASSUME RecoveryInit PROVE ShapeInv
  OBVIOUS
<1>1. /\ pc = "idle" /\ job = NoJob /\ amap = None /\ rec = None
      /\ DOMAIN bars = {} /\ DOMAIN ledger = {}
  BY DEF RecoveryInit, Init
<1>2. WindowInv /\ FilesInv /\ MapsInv
  BY <1>1 DEF WindowInv, NoJob, FilesInv, MapsInv, Hunting
<1>3. StatusInv
  BY <1>1, NewRow, NoJobIsEmpty DEF StatusInv, Gated, Recovering, Hunting, Hunted
<1> QED
  BY <1>2, <1>3 DEF ShapeInv

-----------------------------------------------------------------------------
\* The window in hand: only a fetch takes one up, and it is written next.
LEMMA WindowNext == ASSUME StoreInv, WindowInv, [RecoveryNext]_allVars PROVE WindowInv'
<1>0. DOMAIN job = {"work", "map", "left", "table", "then", "window", "hunt"} /\ job.then # "write"
  BY DEF StoreInv
<1>1. CASE UNCHANGED allVars
  BY <1>1 DEF allVars, vars, WindowInv
<1>2. CASE FetchWindow
  <2>1. job.window = None
    BY <1>2 DEF FetchWindow, WindowInv
  <2>2. CASE Owed = {}
    BY <1>2, <2>1, <2>2 DEF FetchWindow, WindowInv
  <2>3. CASE Owed # {}
    <3>1. PICK w : job' = [job EXCEPT !.left = @ \cup {w}] \/ pc' = "write"
      BY <1>2, <2>3 DEF FetchWindow
    <3> QED
      BY <1>0, <2>1, <3>1 DEF WindowInv
  <2> QED
    BY <2>2, <2>3
<1>3. CASE WriteMonth
  <2>1. (UNCHANGED <<job, pc>> /\ pc = "write") \/ job'.window = None
    BY <1>0, <1>3 DEF WriteMonth
  <2> QED
    BY <2>1 DEF WindowInv
<1>4. CASE RebuildDay
  BY <1>0, <1>4 DEF RebuildDay, WindowInv
<1>5. CASE StartRun \/ RecordSymbol \/ Resettle \/ Die
  <2>1. job' = NoJob
    BY <1>5 DEF StartRun, RecordSymbol, Resettle, Die
  <2> QED
    BY <2>1 DEF WindowInv, NoJob
<1>6. CASE FinishPeers \/ RulingMoves \/ Incident
  <2>1. job' = job /\ pc # "write"
    BY <1>6 DEF FinishPeers, RulingMoves, Incident
  <2> QED
    BY <2>1 DEF WindowInv
<1>7. CASE \/ Plan \/ BuildMapForIngest \/ UseMap \/ GateSymbol \/ Reroute \/ GateAgain \/ StartHunt
           \/ HuntOneRound \/ PromoteEras \/ Harvest \/ JudgeHunt \/ StartRegate
  <2>1. job'.window = job.window /\ pc # "write"
    <3>1. CASE Plan
      BY <1>0, <3>1 DEF Plan, Working
    <3>2. CASE BuildMapForIngest
      BY <1>0, <3>2 DEF BuildMapForIngest, Working
    <3>3. CASE UseMap
      BY <1>0, <3>3 DEF UseMap, Rebuild
    <3>4. CASE GateSymbol \/ GateAgain \/ JudgeHunt
      BY <1>0, <3>4 DEF GateSymbol, GateAgain, JudgeHunt, Working
    <3>5. CASE Reroute
      BY <1>0, <3>5 DEF Reroute, Working, Rebuild
    <3>6. CASE StartHunt
      BY <1>0, <3>6 DEF StartHunt, Working
    <3>7. CASE HuntOneRound \/ PromoteEras
      BY <1>0, <3>7 DEF HuntOneRound, PromoteEras, HuntStops
    <3>8. CASE Harvest
      BY <1>0, <3>8 DEF Harvest, Working, Rebuild
    <3>9. CASE StartRegate
      BY <1>0, <3>9 DEF StartRegate, Working, Rebuild
    <3> QED
      BY <1>7, <3>1, <3>2, <3>3, <3>4, <3>5, <3>6, <3>7, <3>8, <3>9
  <2> QED
    BY <2>1 DEF WindowInv
<1> QED
  BY <1>1, <1>2, <1>3, <1>4, <1>5, <1>6, <1>7 DEF RecoveryNext, Next, Step

-----------------------------------------------------------------------------
-----------------------------------------------------------------------------
(* The store and the ledger.                                               *)
\* The table factors of a stored day, where a rebuild is net of them.
LEMMA TableOfIsWhole == ASSUME StoreInv, NEW d, TableOf(d) # None PROVE IsPair(TableOf(d))
BY TableIsWhole DEF TableOf, StoreInv

\* The raw day a rebuild is for is a pair of numbers.
LEMMA RawIsWhole == ASSUME StoreInv, MapsInv, NEW d PROVE IsPair(Raw(d))
<1> DEFINE k == IF job.map = None THEN TableFactors(sym, Today, d, Today) ELSE FactorsForDay(job.map, d)
           fetched == Fetched(sym, d, Today)
<1>1. IsPair(fetched)
  BY FetchedIsWhole DEF StoreInv
<1>2. k # None => IsPair(k)
  <2>1. CASE job.map = None
    BY <2>1, TableIsWhole DEF StoreInv
  <2>2. CASE job.map # None
    <3>1. MayBeRead(job.map)
      BY <2>2 DEF MapsInv
    <3> QED
      BY <2>2, <3>1, FactorsAreWhole
  <2> QED
    BY <2>1, <2>2
<1>3. Raw(d) = IF k = None THEN fetched ELSE Unadjust(fetched, k)
  BY DEF Raw
<1> HIDE DEF k, fetched
<1> QED
  BY <1>1, <1>2, <1>3 DEF IsPair, Unadjust, UnadjustPrice, UnadjustVolume

\* A window resolved is a row of the ledger that ends no later than it was fetched.
LEMMA ResolvedRows ==
  ASSUME StoreInv, FilesInv, NEW w, IsWindow(w), NEW outcome \in {"present", "empty", "error"},
         Resolve(w, outcome)
  PROVE  \A x \in DOMAIN ledger' :
           /\ ledger'[x].outcome \in {"present", "empty", "error"}
           /\ x <= ledger'[x].end /\ ledger'[x].end <= ledger'[x].fetch
<1> DEFINE row == [end |-> w.end, outcome |-> outcome, fetch |-> Today]
<1>1. ledger' = [x \in DOMAIN ledger \cup {w.start} |-> IF x = w.start THEN row ELSE ledger[x]]
  BY DEF Resolve, Override
<1>2. w.start <= w.end /\ w.end <= Today
  <2>1. w.end \in Nat /\ w.start <= w.end /\ w.end <= End
    BY DEF IsWindow
  <2> QED
    BY <2>1, RunDatesAreOrdered
<1> SUFFICES ASSUME NEW x \in DOMAIN ledger'
             PROVE  /\ ledger'[x].outcome \in {"present", "empty", "error"}
                    /\ x <= ledger'[x].end /\ ledger'[x].end <= ledger'[x].fetch
  OBVIOUS
<1>3. CASE x = w.start
  <2>1. ledger'[x] = row
    BY <1>1, <1>3
  <2> QED
    BY <1>2, <1>3, <2>1
<1>4. CASE x # w.start
  <2>1. x \in DOMAIN ledger /\ ledger'[x] = ledger[x]
    BY <1>1, <1>4
  <2> QED
    BY <2>1 DEF FilesInv
<1> QED
  BY <1>3, <1>4

\* A step that leaves the ledger as it is needs to leave pairs in the store only.
LEMMA SameLedgerRows ==
  ASSUME FilesInv, UNCHANGED ledger, \A d \in DOMAIN bars' : IsPair(bars'[d])
  PROVE  FilesInv'
BY DEF FilesInv

\* A rebuild leaves each stored day, or corrects it.
LEMMA RebuildMovesDays ==
  ASSUME RebuildDay
  PROVE  /\ UNCHANGED <<sym, ledger>> /\ DOMAIN bars' = DOMAIN bars
         /\ \A d \in DOMAIN bars : bars'[d] \in {bars[d], Corrected(d)}
<1>1. CASE {d \in job.left : Corrected(d) # bars[d]} = {}
  BY <1>1 DEF RebuildDay
<1>2. CASE {d \in job.left : Corrected(d) # bars[d]} # {}
  <2> DEFINE d == Min({x \in job.left : Corrected(x) # bars[x]})
  <2>1. UNCHANGED <<sym, ledger>> /\ bars' = [bars EXCEPT ![d] = Corrected(d)]
    BY <1>2 DEF RebuildDay
  <2> HIDE DEF d
  <2> QED
    BY <2>1
<1> QED
  BY <1>1, <1>2

\* What each step does to the store and the ledger.
LEMMA FilesNext ==
  ASSUME StoreInv, MapsInv, FilesInv, [RecoveryNext]_allVars
  PROVE  FilesInv'
<1>1. CASE UNCHANGED <<bars, ledger>>
  BY <1>1 DEF FilesInv
<1>2. CASE RebuildDay
  <2>1. /\ UNCHANGED ledger /\ DOMAIN bars' = DOMAIN bars
        /\ \A d \in DOMAIN bars : bars'[d] \in {bars[d], Corrected(d)}
    BY <1>2, RebuildMovesDays
  <2>2. MayBeRead(job.map)
    BY <1>2 DEF RebuildDay, MapsInv
  <2>3. \A d \in DOMAIN bars : IsPair(bars[d]) /\ IsPair(Corrected(d))
    <3> SUFFICES ASSUME NEW d \in DOMAIN bars PROVE IsPair(bars[d]) /\ IsPair(Corrected(d))
      OBVIOUS
    <3>1. IsPair(bars[d]) /\ (TableOf(d) # None => IsPair(TableOf(d)))
      BY TableOfIsWhole DEF FilesInv
    <3> QED
      BY <2>2, <3>1, RebuiltOnce DEF Corrected
  <2>4. \A d \in DOMAIN bars' : IsPair(bars'[d])
    BY <2>1, <2>3
  <2> QED
    BY <2>1, <2>4, SameLedgerRows
<1>3. CASE FetchWindow
  <2>1. UNCHANGED bars /\ pc = "fetch"
    BY <1>3 DEF FetchWindow
  <2>2. CASE Owed = {}
    BY <1>1, <1>3, <2>2 DEF FetchWindow
  <2>3. CASE Owed # {}
    <3> DEFINE w == CHOOSE x \in Owed : \A y \in Owed : x.start <= y.start
    <3>1. IsWindow(w)
      BY <2>1, <2>3, OldestWindowIsOwed
    <3>2. UNCHANGED ledger \/ \E outcome \in {"error", "empty"} : Resolve(w, outcome)
      BY <1>3, <2>3 DEF FetchWindow
    <3> HIDE DEF w
    <3>3. CASE UNCHANGED ledger
      BY <1>1, <2>1, <3>3
    <3>4. CASE \E outcome \in {"error", "empty"} : Resolve(w, outcome)
      BY <2>1, <3>1, <3>4, ResolvedRows DEF FilesInv
    <3> QED
      BY <3>2, <3>3, <3>4
  <2> QED
    BY <2>2, <2>3
<1>4. CASE WriteMonth
  <2>1. IsWindow(job.window)
    BY <1>4 DEF WriteMonth, StoreInv
  <2>2. CASE Unwritten = {}
    <3> DEFINE w == job.window
    <3>1. UNCHANGED bars /\ Resolve(w, "present") /\ IsWindow(w)
      BY <1>4, <2>1, <2>2 DEF WriteMonth
    <3> HIDE DEF w
    <3> QED
      BY <3>1, ResolvedRows DEF FilesInv
  <2>3. CASE Unwritten # {}
    <3> DEFINE month == {d \in WindowDaysOf(job.window) : MonthOf(d) = MonthOf(Min(Unwritten))}
    <3>1. bars' = Override(bars, [d \in month |-> Raw(d)]) /\ UNCHANGED ledger
      BY <1>4, <2>3 DEF WriteMonth
    <3> HIDE DEF month
    <3>2. \A d \in month : IsPair(Raw(d))
      BY RawIsWhole
    <3>3. \A d \in DOMAIN bars' : IsPair(bars'[d])
      BY <3>1, <3>2 DEF Override, FilesInv
    <3> QED
      BY <3>1, <3>3, SameLedgerRows
  <2> QED
    BY <2>2, <2>3
<1>5. CASE Incident
  <2>1. DOMAIN bars' = {} /\ DOMAIN ledger' = {}
    BY <1>5 DEF Incident
  <2> QED
    BY <2>1 DEF FilesInv
<1>6. CASE UNCHANGED allVars
  BY <1>1, <1>6 DEF allVars, vars
<1>7. CASE \/ StartRun \/ StartRegate \/ Plan \/ BuildMapForIngest \/ UseMap \/ GateSymbol \/ Reroute
           \/ GateAgain \/ StartHunt \/ HuntOneRound \/ PromoteEras \/ Harvest \/ JudgeHunt
           \/ RecordSymbol \/ FinishPeers \/ Resettle \/ Die \/ RulingMoves
  <2>1. UNCHANGED <<bars, ledger>>
    BY <1>7 DEF StartRun, StartRegate, Plan, BuildMapForIngest, UseMap, GateSymbol, Reroute, GateAgain,
       StartHunt, HuntOneRound, HuntStops, PromoteEras, Harvest, JudgeHunt, RecordSymbol, FinishPeers,
       Resettle, Die, RulingMoves, disk
  <2> QED
    BY <1>1, <2>1
<1> QED
  BY <1>2, <1>3, <1>4, <1>5, <1>6, <1>7 DEF RecoveryNext, Next, Step

-----------------------------------------------------------------------------
(* The maps on disk and in hand.                                           *)

\* A step that ends outside a hunt keeps the maps when those it leaves on disk
\* and in hand may be read.
LEMMA MapsOutside ==
  ASSUME pc' \notin {"round", "promote", "harvest"}, amap' # None => MayBeRead(amap'),
         job'.map # None \/ pc' \in {"mapped", "rebuild"} => MayBeRead(job'.map)
  PROVE  MapsInv'
BY DEF MapsInv, Hunting

\* A map is written before the ingest, and again before a repair.
LEMMA BuiltMapsStay ==
  ASSUME StoreInv, MapsInv, BuildMapForIngest \/ Reroute PROVE MapsInv'
<1>0. DOMAIN job = {"work", "map", "left", "table", "then", "window", "hunt"}
      /\ (amap # None => MayBeRead(amap)) /\ (job.map # None => MayBeRead(job.map))
  BY DEF StoreInv, MapsInv
<1> DEFINE m == BuiltMap({})
<1>1. m # None => MayBeRead(m)
  <2>1. OneEach({})
    BY DEF OneEach
  <2> QED
    BY <1>0, <2>1, BuiltIsRead
<1>2. \/ /\ job'.map = job.map /\ amap' = amap /\ pc' \in {"record", "hunt"}
      \/ /\ m # None /\ job'.map = m /\ amap' = m /\ pc' \in {"mapped", "rebuild"}
  <2>1. CASE BuildMapForIngest
    BY <1>0, <2>1 DEF BuildMapForIngest, Working
  <2>2. CASE Reroute
    BY <1>0, <2>2 DEF Reroute, Working, Rebuild
  <2> QED
    BY <2>1, <2>2
<1> HIDE DEF m
<1> QED
  BY <1>0, <1>1, <1>2, MapsOutside

\* A run takes the map on disk in hand.
LEMMA PlannedMaps == ASSUME StoreInv, MapsInv, Plan PROVE MapsInv'
<1>0. DOMAIN job = {"work", "map", "left", "table", "then", "window", "hunt"}
      /\ (amap # None => MayBeRead(amap)) /\ (job.map # None => MayBeRead(job.map))
  BY DEF StoreInv, MapsInv
<1> DEFINE loaded == IF amap # None THEN IF MapCurrent(amap) THEN amap ELSE None ELSE None
<1>1. amap' = amap /\ pc' \in {"record", "fetch", "mapped", "map"}
  BY DEF Plan, disk
<1>2. \/ job'.map = job.map /\ pc' \in {"record", "fetch"}
      \/ job'.map = loaded /\ (pc' = "mapped" => loaded # None)
  BY <1>0 DEF Plan, Working
<1>3. loaded # None => MayBeRead(loaded)
  BY <1>0
<1> HIDE DEF loaded
<1> QED
  BY <1>0, <1>1, <1>2, <1>3, MapsOutside

\* The hunt's maps: the one it starts from, those it tries, and the promoted one.
LEMMA HuntedMaps ==
  ASSUME StoreInv, MapsInv, StartHunt \/ HuntOneRound \/ PromoteEras PROVE MapsInv'
<1>0. DOMAIN job = {"work", "map", "left", "table", "then", "window", "hunt"}
      /\ (amap # None => MayBeRead(amap)) /\ (job.map # None => MayBeRead(job.map))
  BY DEF StoreInv, MapsInv
<1>1. CASE StartHunt
  <2>1. CASE amap = None
    <3>1. job'.map = job.map /\ amap' = amap /\ pc' = "record"
      BY <1>0, <1>1, <2>1 DEF StartHunt, Working, disk
    <3> QED
      BY <1>0, <3>1, MapsOutside
  <2>2. CASE amap # None
    <3> DEFINE hunt == [round |-> 1, start |-> amap, floors |-> {}, rebuilt |-> None, with |-> {},
                   forced |-> job.work.floorEvents, signed |-> Signatures(sym, Today, bars)]
    <3>1. job' = [job EXCEPT !.map = amap, !.hunt = hunt] /\ amap' = amap
      BY <1>1, <2>2 DEF StartHunt, disk
    <3>2. DOMAIN hunt = HuntFields /\ hunt.start = amap /\ hunt.floors = {} /\ hunt.rebuilt = None
      BY DEF HuntFields
    <3> HIDE DEF hunt
    <3>3. job'.map = amap /\ job'.hunt = hunt
      BY <1>0, <3>1
    <3> QED
      BY <1>0, <2>2, <3>1, <3>2, <3>3 DEF MapsInv, OneEach
  <2> QED
    BY <2>1, <2>2
<1>2. ASSUME HuntStops PROVE MapsInv'
  <2>1. job' = job /\ amap' = amap /\ pc' = "record"
    BY <1>2 DEF HuntStops, disk
  <2> QED
    BY <1>0, <2>1, MapsOutside
<1>3. CASE HuntOneRound
  <2>0. /\ MayBeRead(job.map) /\ DOMAIN job.hunt = HuntFields
        /\ MayBeRead(job.hunt.start) /\ OneEach(job.hunt.floors)
        /\ job.hunt.rebuilt # None => MayBeRead(job.hunt.rebuilt)
    BY <1>3 DEF HuntOneRound, MapsInv, Hunting
  <2> DEFINE found == HuntRound(job.map, job.hunt.signed, job.hunt.forced,
                                {f.ex : f \in ResolvedIn(job.hunt.floors)})
             all == {f \in job.hunt.floors : ~HasFloor(found, f.ex)} \cup found
  <2>1. HuntStops \/ (job' = [job EXCEPT !.hunt.floors = all] /\ amap' = amap)
    BY <1>3 DEF HuntOneRound, disk
  <2>2. OneEach(found)
    <3>1. IsFiniteSet(job.map.exs) /\ \A x \in job.map.exs : x \in Int
      BY <2>0 DEF MayBeRead
    <3> QED
      BY <3>1, HuntRoundIs
  <2>3. OneEach(all)
    <3> HIDE DEF found
    <3> QED
      BY <2>0, <2>2 DEF OneEach, HasFloor
  <2> HIDE DEF all, found
  <2>4. CASE job' = [job EXCEPT !.hunt.floors = all] /\ amap' = amap
    <3>1. job'.map = job.map /\ job'.hunt = [job.hunt EXCEPT !.floors = all]
      BY <1>0, <2>4
    <3>2. /\ DOMAIN job'.hunt = HuntFields /\ job'.hunt.start = job.hunt.start
          /\ job'.hunt.floors = all /\ job'.hunt.rebuilt = job.hunt.rebuilt
      BY <2>0, <3>1 DEF HuntFields
    <3> QED
      BY <1>0, <2>0, <2>3, <2>4, <3>1, <3>2 DEF MapsInv
  <2> QED
    BY <1>2, <2>1, <2>4
<1>4. CASE PromoteEras
  <2>0. /\ MayBeRead(job.map) /\ DOMAIN job.hunt = HuntFields
        /\ MayBeRead(job.hunt.start) /\ OneEach(job.hunt.floors)
        /\ job.hunt.rebuilt # None => MayBeRead(job.hunt.rebuilt)
    BY <1>4 DEF PromoteEras, MapsInv, Hunting
  <2> DEFINE known == ResolvedIn(job.hunt.floors)
             built == BuiltMap(known)
  <2>1. OneEach(known)
    BY <2>0 DEF ResolvedIn, OneEach
  <2>2. built # None => MayBeRead(built)
    <3> HIDE DEF known
    <3> QED
      BY <1>0, <2>1, BuiltIsRead
  <2>3. CASE built = None /\ UNCHANGED <<amap, job>>
    BY <1>0, <2>0, <2>3 DEF MapsInv
  <2>4. CASE /\ built # None /\ amap' = built
             /\ job' = [job EXCEPT !.map = built, !.hunt =
                          [@ EXCEPT !.round = @ + 1, !.rebuilt = built, !.with = {f.ex : f \in known}]]
    <3> HIDE DEF built, known
    <3>1. /\ job'.map = built /\ DOMAIN job'.hunt = HuntFields /\ job'.hunt.start = job.hunt.start
          /\ job'.hunt.floors = job.hunt.floors /\ job'.hunt.rebuilt = built
      BY <1>0, <2>0, <2>4 DEF HuntFields
    <3> QED
      BY <2>0, <2>2, <2>4, <3>1 DEF MapsInv
  <2> QED
    BY <1>2, <1>4, <2>3, <2>4 DEF PromoteEras
<1> QED
  BY <1>1, <1>3, <1>4

\* What the recovery accepts goes to disk.
LEMMA HarvestedMaps == ASSUME StoreInv, MapsInv, Harvest PROVE MapsInv'
<1>0. DOMAIN job = {"work", "map", "left", "table", "then", "window", "hunt"}
      /\ (amap # None => MayBeRead(amap)) /\ (job.map # None => MayBeRead(job.map))
      /\ MayBeRead(job.hunt.start) /\ OneEach(job.hunt.floors)
      /\ (job.hunt.rebuilt # None => MayBeRead(job.hunt.rebuilt))
  BY DEF StoreInv, MapsInv, Harvest, Hunting
<1> DEFINE h == job.hunt
           ready == IF h.with = {f.ex : f \in ResolvedIn(h.floors)} THEN h.rebuilt ELSE None
           kept == [h.start EXCEPT !.floors = h.floors]
           m == BuiltMap(h.floors)
           put == IF m = None THEN kept ELSE m
<1>1. \/ job'.map = job.map /\ amap' = amap /\ pc' = "record"
      \/ ready # None /\ job'.map = ready /\ amap' = amap /\ pc' = "rebuild"
      \/ job'.map = put /\ amap' = put /\ pc' = "rebuild"
      \/ job'.map = kept /\ amap' = kept /\ pc' = "rebuild"
  <2> HIDE DEF kept, m
  <2> QED
    BY <1>0 DEF Harvest, Working, Rebuild, kept, m
<1>2. ready # None => MayBeRead(ready)
  BY <1>0
<1>3. MayBeRead(kept)
  BY <1>0, OtherFloorsRead
<1>4. m # None => MayBeRead(m)
  BY <1>0, BuiltIsRead
<1> HIDE DEF h, ready, kept, m
<1>5. MayBeRead(put)
  BY <1>3, <1>4
<1> HIDE DEF put
<1> QED
  BY <1>0, <1>1, <1>2, <1>3, <1>5, MapsOutside

\* A regate takes the map on disk, or none, in hand.
LEMMA RegatedMaps == ASSUME StoreInv, MapsInv, StartRegate PROVE MapsInv'
<1>0. DOMAIN job = {"work", "map", "left", "table", "then", "window", "hunt"}
      /\ (amap # None => MayBeRead(amap)) /\ (job.map # None => MayBeRead(job.map))
  BY DEF StoreInv, MapsInv
<1> DEFINE m == Accepted(amap)
<1>1. \/ job'.map = job.map /\ amap' = amap /\ pc' = "resettle"
      \/ amap # None /\ job'.map = m /\ amap' = m /\ pc' = "rebuild"
  <2> HIDE DEF m
  <2> QED
    BY <1>0 DEF StartRegate, Working, Rebuild, m
<1>2. amap # None => MayBeRead(m)
  BY <1>0, AcceptedIsRead
<1> HIDE DEF m
<1> QED
  BY <1>0, <1>1, <1>2, MapsOutside

\* What each step does to the maps on disk and in hand.
LEMMA MapsNext == ASSUME StoreInv, MapsInv, [RecoveryNext]_allVars PROVE MapsInv'
<1>0. DOMAIN job = {"work", "map", "left", "table", "then", "window", "hunt"}
      /\ job.then \in {"idle", "fetch", "regate", "verdict", "resettle"}
      /\ (amap # None => MayBeRead(amap)) /\ (job.map # None => MayBeRead(job.map))
  BY DEF StoreInv, MapsInv
<1>1. CASE UNCHANGED allVars
  BY <1>1 DEF allVars, vars, disk, MapsInv, Hunting
<1>2. CASE StartRun \/ RecordSymbol \/ Resettle \/ Die
  <2>1. job' = NoJob /\ amap' = amap /\ pc' \in {"idle", "peers", "plan"}
    BY <1>2 DEF StartRun, RecordSymbol, Resettle, Die, disk
  <2>2. job'.map = None
    BY <2>1 DEF NoJob
  <2> QED
    BY <1>0, <2>1, <2>2, MapsOutside
<1>3. CASE FinishPeers \/ RulingMoves \/ Incident
  <2>1. job' = job /\ amap' \in {amap, None} /\ pc' = "idle"
    BY <1>3 DEF FinishPeers, RulingMoves, Incident, disk
  <2> QED
    BY <1>0, <2>1, MapsOutside
<1>4. CASE FetchWindow \/ WriteMonth \/ GateSymbol \/ GateAgain \/ JudgeHunt
  <2>1. job'.map = job.map /\ amap' = amap /\ pc' \in {"fetch", "gate", "write", "reroute", "hunt", "record"}
    <3>1. CASE FetchWindow
      BY <1>0, <3>1 DEF FetchWindow
    <3>2. CASE WriteMonth
      BY <1>0, <3>2 DEF WriteMonth
    <3>3. CASE GateSymbol \/ GateAgain \/ JudgeHunt
      BY <1>0, <3>3 DEF GateSymbol, GateAgain, JudgeHunt, Working, AfterSettling, disk
    <3> QED
      BY <1>4, <3>1, <3>2, <3>3
  <2> QED
    BY <1>0, <2>1, MapsOutside
<1>5. CASE UseMap
  <2>1. job'.map = job.map /\ amap' = amap /\ pc' = "rebuild" /\ MayBeRead(job.map)
    BY <1>0, <1>5 DEF UseMap, Rebuild, disk, MapsInv
  <2> QED
    BY <1>0, <2>1, MapsOutside
<1>6. CASE RebuildDay
  <2>1. /\ job'.map = job.map /\ amap' = amap /\ pc' \in {"rebuild", job.then} /\ MayBeRead(job.map)
    BY <1>0, <1>6 DEF RebuildDay, MapsInv
  <2> QED
    BY <1>0, <2>1, MapsOutside
<1> QED
  BY <1>1, <1>2, <1>3, <1>4, <1>5, <1>6, BuiltMapsStay, PlannedMaps, HuntedMaps, HarvestedMaps,
     RegatedMaps DEF RecoveryNext, Next, Step

-----------------------------------------------------------------------------
(* The row on disk and the one in hand.                                    *)

\* A step that keeps the row on disk and the status in hand.
LEMMA SameStatus ==
  ASSUME StatusInv, rec' = rec, IsRow(job'.work),
         job'.work.status = job.work.status \/ job'.work.status \in Settling,
         pc' \in {"idle", "peers", "plan", "map", "mapped", "fetch", "write", "gate"}
           \/ job'.work.status \in Settling
  PROVE  StatusInv'
<1>1. Settling \subseteq Statuses /\ Statuses' = Statuses
  BY DEF Settling, Statuses
<1> QED
  BY <1>1 DEF StatusInv, Gated, Recovering, Hunting, Hunted

\* A hunt is over a row with a status that settles it.
LEMMA HuntStatus ==
  ASSUME StoreInv, StatusInv, StartHunt \/ HuntOneRound \/ PromoteEras \/ Harvest
  PROVE  StatusInv'
<1>0. DOMAIN job = {"work", "map", "left", "table", "then", "window", "hunt"}
      /\ IsRow(job.work) /\ job.work.status \in Settling
  BY DEF StoreInv, StatusInv, Gated, Recovering, Hunting, StartHunt, HuntOneRound, PromoteEras, Harvest
<1> DEFINE marked == [job.work EXCEPT !.hunted = TRUE, !.floors = ruling.floors]
<1>1. rec' = rec
  BY DEF StartHunt, HuntOneRound, HuntStops, PromoteEras, Harvest, disk
<1>2. IsRow(marked) /\ marked.status = job.work.status
  BY <1>0 DEF IsRow, Row
<1>3. \/ job'.work \in {job.work, marked}
      \/ \E a : job'.work = ClaimFloors(marked, a)
      \/ \E a, b : job'.work = ClaimFloors(ClaimFloors(marked, a), b)
  <2>1. CASE StartHunt
    BY <1>0, <2>1 DEF StartHunt, Working
  <2>2. CASE HuntOneRound \/ PromoteEras
    BY <1>0, <2>2 DEF HuntOneRound, PromoteEras, HuntStops
  <2>3. CASE Harvest
    <3> DEFINE done == ClaimFloors(marked, job.hunt.start)
    <3>1. \/ job' = Working(done)
          \/ \E m : job' = Rebuild(ClaimFloors(done, m), m, FALSE, "verdict")
      BY <2>3 DEF Harvest
    <3>2. job'.work = done \/ \E m : job'.work = ClaimFloors(done, m)
      <4> HIDE DEF done
      <4> QED
        BY <1>0, <3>1 DEF Working, Rebuild
    <3> QED
      BY <3>2
  <2> QED
    BY <2>1, <2>2, <2>3
<1> HIDE DEF marked
<1>4. \A r, x : IsRow(r) => IsRow(ClaimFloors(r, x)) /\ ClaimFloors(r, x).status = r.status
  BY DEF ClaimFloors, IsRow, Row
<1>5. IsRow(job'.work) /\ job'.work.status = job.work.status
  BY <1>0, <1>2, <1>3, <1>4
<1> QED
  BY <1>0, <1>1, <1>5, SameStatus

\* A run starts from the row on disk, or from a new one.
LEMMA PlannedStatus == ASSUME StoreInv, StatusInv, Plan PROVE StatusInv'
<1>0. DOMAIN job = {"work", "map", "left", "table", "then", "window", "hunt"}
      /\ (rec # None => IsRow(rec)) /\ rec' = rec
  BY DEF StoreInv, StatusInv, Plan, disk
<1>1. \A r : IsRow(r) /\ r.floorEvents = {} => IsRow(Carried(r)) /\ Carried(r).status = r.status
  BY <1>0, CarriedRow
<1>2. CASE ~sym.listed \/ sym.rows = {}
  <2> DEFINE r == [NewRecord EXCEPT !.status =
                     IF ~sym.listed THEN "no-instrument-token" ELSE "no-daily-equity-history"]
  <2>1. IsRow(r) /\ r.floorEvents = {} /\ r.status \in Unlisted
    BY NewRow DEF IsRow, Row, Unlisted
  <2>2. job'.work = Carried(r) /\ pc' = "record"
    BY <1>0, <1>2 DEF Plan, Working
  <2> HIDE DEF r
  <2> QED
    BY <1>0, <1>1, <2>1, <2>2 DEF StatusInv, Gated, Recovering, Hunting, Hunted, Statuses
<1>3. CASE ~(~sym.listed \/ sym.rows = {})
  <2> DEFINE r == [NewRecord EXCEPT !.route = ClassifyRoute(sym, Clamp, End)]
  <2>1. IsRow(r) /\ r.floorEvents = {}
    BY NewRow DEF IsRow, Row
  <2>2. job'.work = Carried(r) /\ pc' \in {"fetch", "mapped", "map"}
    BY <1>0, <1>3 DEF Plan, Working
  <2> HIDE DEF r
  <2> QED
    BY <1>0, <1>1, <2>1, <2>2 DEF StatusInv, Gated, Recovering, Hunting, Hunted
<1> QED
  BY <1>2, <1>3

\* What each step does to the row on disk and the one in hand.
LEMMA StatusNext == ASSUME StoreInv, StatusInv, [RecoveryNext]_allVars PROVE StatusInv'
<1>0. DOMAIN job = {"work", "map", "left", "table", "then", "window", "hunt"}
      /\ job.then \in {"idle", "fetch", "regate", "verdict", "resettle"}
      /\ IsRow(job.work)
  BY DEF StoreInv, StatusInv
<1>1. CASE UNCHANGED allVars
  BY <1>1 DEF allVars, vars, disk, StatusInv, IsRow, Gated, Recovering, Hunting, Hunted, Statuses
<1>2. CASE StartRun \/ Die
  <2>1. job'.work = NewRecord /\ rec' = rec /\ pc' \in {"idle", "peers", "plan"}
    BY <1>2, NoJobIsEmpty DEF StartRun, Die, disk
  <2> QED
    BY <2>1, NewRow DEF StatusInv, Gated, Recovering, Hunting, Hunted
<1>3. CASE FinishPeers \/ RulingMoves
  <2>1. job' = job /\ rec' = rec /\ pc' = "idle"
    BY <1>3 DEF FinishPeers, RulingMoves, disk
  <2> QED
    BY <1>0, <2>1, SameStatus
<1>4. CASE Incident
  <2>1. job' = job /\ rec' = None /\ pc' = "idle"
    BY <1>4 DEF Incident
  <2> QED
    BY <1>0, <2>1 DEF StatusInv, Gated, Recovering, Hunting, Hunted
<1>5. CASE FetchWindow \/ WriteMonth
  <2>1. job'.work = job.work /\ rec' = rec /\ pc' \in {"fetch", "gate", "write"}
    <3>1. CASE FetchWindow
      BY <1>0, <3>1 DEF FetchWindow
    <3>2. CASE WriteMonth
      BY <1>0, <3>2 DEF WriteMonth
    <3> QED
      BY <1>5, <3>1, <3>2
  <2> QED
    BY <1>0, <2>1, SameStatus
<1>6. CASE UseMap
  <2>1. /\ IsRow(job'.work) /\ job'.work.status = job.work.status /\ job'.then = "fetch"
        /\ rec' = rec /\ pc' = "rebuild"
    BY <1>0, <1>6 DEF UseMap, Rebuild, IsRow, Row, disk
  <2> QED
    BY <2>1 DEF StatusInv, Gated, Recovering, Hunting, Hunted
<1>7. CASE RebuildDay
  <2>1. /\ job'.work = job.work /\ job'.then = job.then /\ rec' = rec /\ pc = "rebuild"
        /\ pc' \in {"rebuild", job.then}
    BY <1>0, <1>7 DEF RebuildDay
  <2> QED
    BY <1>0, <2>1 DEF StatusInv, Gated, Recovering, Hunting, Hunted
<1>8. CASE GateSymbol \/ GateAgain \/ JudgeHunt
  <2> DEFINE w == Settled(job.work)
  <2>1. IsRow(w) /\ w.status \in Settling
    BY <1>0, SettledRow DEF ButFor
  <2>2. job'.work \in {w, [w EXCEPT !.errors = Errors]} /\ rec' = rec
    BY <1>0, <1>8 DEF GateSymbol, GateAgain, JudgeHunt, Working, disk
  <2> HIDE DEF w
  <2>3. IsRow(job'.work) /\ job'.work.status \in Settling
    BY <2>1, <2>2 DEF IsRow, Row
  <2> QED
    BY <2>2, <2>3, SameStatus
<1>9. CASE BuildMapForIngest
  <2>1. rec' = rec
    BY <1>9 DEF BuildMapForIngest
  <2>2. \/ /\ pc' = "record"
           /\ job'.work = [job.work EXCEPT !.status = "map-required-but-unbuildable"]
        \/ pc' = "mapped" /\ \E m : job'.work = Reopened(job.work, m)
    BY <1>0, <1>9 DEF BuildMapForIngest, Working
  <2>3. CASE pc' = "record" /\ job'.work = [job.work EXCEPT !.status = "map-required-but-unbuildable"]
    <3>1. IsRow(job'.work) /\ job'.work.status = "map-required-but-unbuildable"
      BY <1>0, <2>3 DEF IsRow, Row
    <3> QED
      BY <2>1, <2>3, <3>1 DEF StatusInv, Gated, Recovering, Hunting, Hunted, Statuses
  <2>4. CASE pc' = "mapped" /\ \E m : job'.work = Reopened(job.work, m)
    <3>1. IsRow(job'.work)
      BY <1>0, <2>4, ReopenedRow
    <3> QED
      BY <2>1, <2>4, <3>1 DEF StatusInv, Gated, Recovering, Hunting, Hunted
  <2> QED
    BY <2>2, <2>3, <2>4
<1>10. CASE Reroute
  <2>0. job.work.status \in Settling /\ rec' = rec
    BY <1>10 DEF Reroute, StatusInv, Gated
  <2> DEFINE tried == [job.work EXCEPT !.rerouted = TRUE]
             Routed(r) == [r EXCEPT !.route = "map-required", !.byRecovery = TRUE]
  <2>1. IsRow(tried) /\ tried.status = job.work.status
    BY <1>0 DEF IsRow, Row
  <2>2. job'.work = tried \/ \E m : job'.work = Routed(Reopened(tried, m))
    BY <1>0, <1>10 DEF Reroute, Working, Rebuild
  <2> HIDE DEF tried
  <2>3. \A r : IsRow(r) => IsRow(Routed(r)) /\ Routed(r).status = r.status
    BY DEF IsRow, Row
  <2> HIDE DEF Routed
  <2>4. \A m : IsRow(Reopened(tried, m)) /\ Reopened(tried, m).status = tried.status
    BY <2>1, ReopenedRow
  <2>5. IsRow(job'.work) /\ job'.work.status = job.work.status
    BY <2>1, <2>2, <2>3, <2>4
  <2> QED
    BY <2>0, <2>5, SameStatus
<1>11. CASE RecordSymbol
  <2> DEFINE r == [job.work EXCEPT !.end = End]
  <2>1. IsRow(r) /\ r.status = job.work.status /\ job.work.status \in Statuses
    BY <1>0, <1>11 DEF IsRow, Row, RecordSymbol, StatusInv
  <2>2. rec' = r /\ job'.work = NewRecord /\ pc' \in {"idle", "peers"}
    BY <1>11, NoJobIsEmpty DEF RecordSymbol
  <2> HIDE DEF r
  <2> QED
    BY <2>1, <2>2, NewRow DEF StatusInv, Gated, Recovering, Hunting, Hunted, Statuses
<1>12. CASE Resettle
  <2> DEFINE r == SyncFromMap(job.work)
  <2>1. IsRow(r)
    BY <1>0 DEF SyncFromMap, ClaimFloors, IsRow, Row
  <2>2. rec' = Settled(r) /\ job'.work = NewRecord /\ pc' = "idle"
    BY <1>12, NoJobIsEmpty DEF Resettle
  <2> HIDE DEF r
  <2>3. IsRow(rec') /\ rec'.status \in Settling
    BY <2>1, <2>2, SettledRow DEF ButFor
  <2> QED
    BY <2>2, <2>3, NewRow DEF StatusInv, Gated, Recovering, Hunting, Hunted, Statuses, Settling
<1>13. CASE StartRegate
  <2> DEFINE marked == RecoverOne(rec, RecoveryEvents(sym, bars, amap))
  <2>0. IsRow(rec) /\ rec' = rec
    BY <1>13 DEF StartRegate, StatusInv
  <2>1. IsRow(marked)
    BY <2>0 DEF RecoverOne, IsRow, Row
  <2>2. \/ job'.work \in {rec, marked} /\ pc' = "resettle"
        \/ /\ \E m : job'.work \in {ClaimFloors(rec, m), ClaimFloors(marked, m)}
           /\ pc' = "rebuild" /\ job'.then = "resettle"
    BY <1>0, <1>13 DEF StartRegate, Working, Rebuild
  <2> HIDE DEF marked
  <2>3. \A r, m : IsRow(r) => IsRow(ClaimFloors(r, m))
    BY DEF ClaimFloors, IsRow, Row
  <2>4. IsRow(job'.work)
    BY <2>0, <2>1, <2>2, <2>3
  <2> QED
    BY <2>0, <2>2, <2>4 DEF StatusInv, Gated, Recovering, Hunting, Hunted
<1> QED
  BY <1>1, <1>2, <1>3, <1>4, <1>5, <1>6, <1>7, <1>8, <1>9, <1>10, <1>11, <1>12, <1>13,
     HuntStatus, PlannedStatus DEF RecoveryNext, Next, Step

-----------------------------------------------------------------------------
\* The invariant is kept by every step, given the store's own.
LEMMA ShapeNext == StoreInv /\ ShapeInv /\ [RecoveryNext]_allVars => ShapeInv'
BY WindowNext, FilesNext, MapsNext, StatusNext DEF ShapeInv

\* It holds in every reachable state.
LEMMA ShapeAlways == RecoverySpec => []ShapeInv
BY ShapeInit, ShapeNext, StoreAlways, PTL DEF RecoverySpec

(* The files have the shape the code counts on, whatever was interrupted:   *)
(* a stored day is of the vendor's candles, a window ends no later than the *)
(* day it was fetched, the map on disk speaks of its own events and holds   *)
(* one floor for each, and a row is written only under a status the next    *)
(* run knows (universe_backfill.process_symbol, vendor_adjustment.AdjustmentMap). *)
THEOREM FilesHaveTheirShape == RecoverySpec => []TypeOK
<1>1. StoreInv /\ ShapeInv => TypeOK
  <2> SUFFICES ASSUME StoreInv, ShapeInv PROVE TypeOK
    OBVIOUS
  <2>1. amap # None => /\ \A r \in amap.eras : r.key \subseteq amap.exs
                       /\ \A f, g \in amap.floors : f.ex = g.ex => f = g
    BY DEF ShapeInv, MapsInv, MayBeRead, IsMapped, OneEach
  <2>2. (job.window # None) = (pc = "write")
    BY UniverseAssumption DEF StoreInv, IsWindow, ShapeInv, WindowInv
  <2>3. DOMAIN bars \subseteq sym.candles /\ FilesInv /\ (rec # None => rec.status \in Statuses)
    BY DEF StoreInv, ShapeInv, StatusInv
  <2> QED
    BY <2>1, <2>2, <2>3 DEF TypeOK, FilesInv, IsPair
<1> QED
  BY <1>1, StoreAlways, ShapeAlways, PTL

(* Applying the map to the stored days a second time changes nothing, so a  *)
(* rebuild that was cut off may be run again; and no rebuild, under         *)
(* whatever map, table or half-rebuilt store, takes a day that passes both  *)
(* per-day gates out of them (rebuild_symbol_raw_with_map).                 *)
THEOREM RebuildsAreSafe == RecoverySpec => RebuildIsSafe
<1> DEFINE Safe == pc = "rebuild" =>
              \A d \in DOMAIN bars :
                 /\ RebuiltDay(sym, job.map, TableOf(d), d, Corrected(d)) = Corrected(d)
                 /\ Usable(d) => Usable(d)'
<1>1. StoreInv /\ ShapeInv /\ [RecoveryNext]_allVars => [Safe]_vars
  <2> SUFFICES ASSUME StoreInv, ShapeInv, RecoveryNext, pc = "rebuild", NEW d \in DOMAIN bars
               PROVE  /\ RebuiltDay(sym, job.map, TableOf(d), d, Corrected(d)) = Corrected(d)
                      /\ Usable(d) => Usable(d)'
    BY DEF allVars
  <2>1. /\ MayBeRead(job.map) /\ IsPair(bars[d])
        /\ TableOf(d) # None => IsPair(TableOf(d))
    BY TableOfIsWhole DEF ShapeInv, MapsInv, FilesInv
  <2>2. /\ RebuiltDay(sym, job.map, TableOf(d), d, Corrected(d)) = Corrected(d)
        /\ PriceOk(bars[d].p) /\ VolumeOk(bars[d].v) => PriceOk(Corrected(d).p) /\ VolumeOk(Corrected(d).v)
    BY <2>1, RebuiltOnce DEF Corrected
  <2>3. sym' = sym /\ bars'[d] \in {bars[d], Corrected(d)}
    <3>1. RebuildDay \/ Die
      BY DEF RecoveryNext, Incident, Next, Step, StartRun, StartRegate, Plan, BuildMapForIngest, UseMap,
         FetchWindow, WriteMonth, GateSymbol, Reroute, GateAgain, StartHunt, HuntOneRound, PromoteEras,
         Harvest, JudgeHunt, RecordSymbol, FinishPeers, Resettle, RulingMoves
    <3>2. CASE RebuildDay
      BY <3>2, RebuildMovesDays
    <3>3. CASE Die
      BY <3>3 DEF Die, disk
    <3> QED
      BY <3>1, <3>2, <3>3
  <2> QED
    BY <2>2, <2>3 DEF Usable, Gate1, Gate1P
<1> QED
  BY <1>1, StoreAlways, ShapeAlways, PTL DEF RecoverySpec, RebuildIsSafe
=============================================================================
