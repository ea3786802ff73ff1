---------------------------- MODULE MinuteStore ----------------------------
(***************************************************************************)
(* One symbol's 1-minute store and what is computed from it: which windows *)
(* are still owed, what a stored day holds, the gates' tally, and the      *)
(* correction that brings a stored day to raw.                             *)
(*                                                                         *)
(* A stored day is [p, v]: the logarithms of stored / raw price and of     *)
(* stored / raw volume (VendorMap), <<0, 0>> when the day is raw.  A       *)
(* symbol s gives what its candles meet: s.factors and s.unknown are our   *)
(* corporate-action table, s.vendor what the vendor really applies         *)
(* [ex -> [p, v, pfrom, vfrom]], s.rows the days with a raw daily row and  *)
(* s.candles the days the vendor serves.                                   *)
(***************************************************************************)
EXTENDS VendorMap

CONSTANTS
    WindowDays,       \* days of one fetch window
    MonthDays,        \* days of one month file
    ProbeDaysPerEra,  \* newest days of an era that are probed
    MinCliffDays,     \* shortest run of days that counts as a systematic failure
    CliffPercent      \* share of it that must fail

ASSUME MinuteStoreAssumption ==
    /\ WindowDays \in Nat \ {0} /\ MonthDays \in Nat \ {0} /\ ProbeDaysPerEra \in Nat \ {0}
    /\ MinCliffDays \in Nat \ {0} /\ CliffPercent \in 0 .. 100

(***************************************************************************)
(* The vendor.                                                             *)
(***************************************************************************)
VendorPrice(s, d, today) ==
    Total([ex \in DOMAIN s.vendor |-> s.vendor[ex].p],
          {ex \in DOMAIN s.vendor : d < ex /\ ex <= today /\ d >= s.vendor[ex].pfrom})
VendorVolume(s, d, today) ==
    Total([ex \in DOMAIN s.vendor |-> s.vendor[ex].v],
          {ex \in DOMAIN s.vendor : d < ex /\ ex <= today /\ d >= s.vendor[ex].vfrom})

Fetched(s, d, today) ==
    [p |-> VendorPrice(s, d, today), v |-> -VendorVolume(s, d, today)]

(* A probe needs the vendor's candles and the raw daily row of the day.    *)
ProbeOneDay(s, d, today) ==
    IF d \in s.candles \cap s.rows
    THEN [day |-> d, p |-> VendorPrice(s, d, today), v |-> VendorVolume(s, d, today)]
    ELSE None

(***************************************************************************)
(* Our own factor table, as known on the day of a run.                     *)
(***************************************************************************)
KnownFactors(s, today) == Restrict(s.factors, {i \in DOMAIN s.factors : s.factors[i].ex <= today})
KnownUnknown(s, today) == {ex \in s.unknown : ex <= today}
EventsOf(s, today) == EventsFromTable(KnownFactors(s, today), KnownUnknown(s, today))

SumFactors(fs, day, fetch) ==
    Total([i \in DOMAIN fs |-> fs[i].p], {i \in DOMAIN fs : day < fs[i].ex /\ fs[i].ex <= fetch})

ShareCounts(fs) == Restrict(fs, {i \in DOMAIN fs : ShareCount(fs[i].kind)})

TableFactors(s, today, day, fetch) ==
    LET fs == KnownFactors(s, today)
    IN [p |-> SumFactors(fs, day, fetch), v |-> SumFactors(ShareCounts(fs), day, fetch)]

UnadjustPrice(p, k) == p - k
UnadjustVolume(v, k) == v + k

Unadjust(bar, k) == [p |-> UnadjustPrice(bar.p, k.p), v |-> UnadjustVolume(bar.v, k.v)]

(* A symbol with any event that is not a mere share count needs the map.   *)
ClassifyRoute(s, clamp, end) ==
    IF \/ \E f \in Range(s.factors) :
            f.ex \in clamp .. end /\ f.p # 0 /\ ~ShareCount(f.kind)
       \/ \E ex \in s.unknown : ex \in clamp .. end
    THEN "map-required" ELSE "table-path"

(***************************************************************************)
(* Windows and their ledger: [start -> [end, outcome, fetch]].             *)
(***************************************************************************)
PlanWindows(clamp, end) ==
    {[start |-> d, end |-> Min({d + WindowDays - 1, end})] :
        d \in {x \in clamp .. end : (x - clamp) % WindowDays = 0}}

Pending(ledger, windows) ==
    {w \in windows :
        \/ w.start \notin DOMAIN ledger
        \/ ledger[w.start].outcome = "error"
        \/ ledger[w.start].end < w.end}

MonthOf(d) == (d - 1) \div MonthDays

(* Windows are recorded under their start; the day of the first window     *)
(* that covers it dates a stored day's factors.                            *)
FetchDateForDay(ledger, d) ==
    LET hits == {w \in DOMAIN ledger :
                   w <= d /\ d <= ledger[w].end /\ ledger[w].outcome = "present"}
    IN IF hits = {} THEN None ELSE ledger[Min(hits)].fetch

(***************************************************************************)
(* Probing the eras a run will ingest.                                     *)
(***************************************************************************)
InScope(s, clamp, end) == {e.ex : e \in EventsOf(s, end)} \cap (clamp + 1 .. end)

EraStart(exs, clamp, ex) == Max({clamp} \cup {x \in exs : x < ex})

EraDays(s, clamp, exs, ex) == {d \in s.rows : EraStart(exs, clamp, ex) <= d /\ d < ex}

Newest(days, n) == {d \in days : Cardinality({x \in days : x > d}) < n}

Unprobeable(s, clamp, end) ==
    LET exs == InScope(s, clamp, end)
    IN {ex \in exs : EraDays(s, clamp, exs, ex) = {}}

(* One probe window per era: the newest days that have a raw daily row.    *)
Measured(s, clamp, end, today) ==
    LET exs == InScope(s, clamp, end)
        probed(ex) ==
            LET picked == Newest(EraDays(s, clamp, exs, ex), ProbeDaysPerEra)
            IN {ProbeOneDay(s, d, today) : d \in
                  IF picked = {} THEN {} ELSE (Min(picked) .. Max(picked)) \cap s.rows \cap s.candles}
    IN {[key |-> {x \in exs : x >= ex}, days |-> probed(ex)] :
            ex \in {x \in exs : probed(x) # {}}}

(***************************************************************************)
(* What a stored day holds, judged by its price when the chain moves the   *)
(* price and by its volume otherwise; the first matching baseline wins.    *)
(***************************************************************************)
NearestBaseline(r, k, t) ==
    IF r = 0 THEN "raw"
    ELSE IF r = k THEN "as-fetched"
    ELSE IF r = -k THEN "over-divided"
    ELSE IF r = -2 * k THEN "over-divided-twice"
    ELSE IF t # k /\ r = t - k THEN "pre-floor-divided"
    ELSE IF t # k /\ r = k - t THEN "floor-overreached"
    ELSE IF t # k /\ r = t THEN "as-fetched-floored"
    ELSE "unknown"

StoredDayBaseline(day, net, target) ==
    IF net.p # 0 \/ target.p # net.p THEN NearestBaseline(day.p, net.p, target.p)
    ELSE IF net.v # 0 \/ target.v # net.v THEN NearestBaseline(day.v, -net.v, -target.v)
    ELSE "raw"

Scaled(n, a, m, b) == [p |-> n * a.p + m * b.p, v |-> n * a.v + m * b.v]

BaselineCorrection(baseline, net, target) ==
    CASE baseline = "as-fetched"         -> net
      [] baseline = "as-fetched-floored" -> target
      [] baseline = "over-divided"       -> Scaled(-1, net, 0, target)
      [] baseline = "over-divided-twice" -> Scaled(-2, net, 0, target)
      [] baseline = "pre-floor-divided"  -> Scaled(-1, net, 1, target)
      [] baseline = "floor-overreached"  -> Scaled(1, net, -1, target)

(* The chain with floors, or the whole era's chain (hypothesis); net of    *)
(* the table chain when the store was ingested through the table.          *)
EraChain(amap, day) ==
    LET era == EraFor(amap, day)
    IN IF InWindow(amap, day) = {} THEN [p |-> 0, v |-> 0]
       ELSE IF era = None THEN None
       ELSE IF ~era.provable THEN None
       ELSE [p |-> PriceChain(era.choices), v |-> VolumeChain(era.choices)]

NetFactors(k, table) == IF k = None \/ table = None THEN k ELSE Scaled(1, k, -1, table)

RebuiltDayAnyway(s, amap, table, d, day) ==
    LET target == NetFactors(FactorsForDay(amap, d), table)
    IN IF d \notin s.rows \/ target = None THEN day
       ELSE Unadjust(day, target)

(* The stored day the in-place rebuild leaves: corrected, or untouched.    *)
RebuiltDay(s, amap, table, d, day) ==
    LET target == NetFactors(FactorsForDay(amap, d), table)
        net    == NetFactors(EraChain(amap, d), table)
        base   == StoredDayBaseline(day, net, target)
    IN IF d \notin s.rows THEN day
       ELSE IF target = None \/ net = None THEN day
       ELSE IF base \in {"raw", "unknown"} THEN day
       ELSE Unadjust(day, BaselineCorrection(base, net, target))

(***************************************************************************)
(* The gates over every stored day.                                        *)
(***************************************************************************)
Gate1(s, bars, d) == d \in s.rows /\ VolumeOk(bars[d].v)
Gate1P(s, bars, d) == d \in s.rows /\ PriceOk(bars[d].p)

ShareCountExs(s, today) ==
    {f.ex : f \in {g \in Range(s.factors) : g.ex <= today /\ ShareCount(g.kind) /\ g.p # 0}}

(* Gate 3 asks that the closes on both sides of a share-count ex-date      *)
(* differ by its factor, which two days scaled alike do; the step that is  *)
(* nearer to no move at all marks both sides as already in one domain.     *)
Gate3Rows(s, today, bars) ==
    LET days == DOMAIN bars
        k(ex) == SumFactors(ShareCounts(s.factors), ex - 1, ex)
        before(ex) == Max({d \in days : d < ex})
        after(ex) == Min({d \in days : d >= ex})
        gap(ex) == k(ex) + bars[after(ex)].p - bars[before(ex)].p
        checked == {ex \in ShareCountExs(s, today) :
                      (\E d \in days : d < ex) /\ (\E d \in days : d >= ex)}
    IN {[ex |-> ex, same |-> 2 * gap(ex) < -k(ex) /\ -2 * gap(ex) < -k(ex)] :
            ex \in {x \in checked : gap(x) # k(x)}}

Tally(s, today, bars) ==
    LET days == DOMAIN bars
    IN [days  |-> Cardinality(days),
        g1    |-> Cardinality({d \in days : Gate1(s, bars, d)}),
        g1tot |-> Cardinality(days \cap s.rows),
        g1p   |-> Cardinality({d \in days : Gate1P(s, bars, d)}),
        both  |-> Cardinality({d \in days : Gate1(s, bars, d) /\ Gate1P(s, bars, d)}),
        g3    |-> Gate3Rows(s, today, bars)]

(***************************************************************************)
(* Signatures that admit an event to a floor hunt.                         *)
(***************************************************************************)
Sorted(days) == SetToSortSeq(days, <)

Spans(exs, days) ==
    [ex \in exs |-> {d \in days : d < ex /\ \A x \in exs : x < ex => d >= x}]

Percent(part, whole, pct) == 100 * part >= pct * whole

CliffEvents(s, bars, exs) ==
    LET gated == DOMAIN bars \cap s.rows
        span == Spans(exs, gated)
    IN {ex \in exs : /\ Cardinality(span[ex]) >= MinCliffDays
                     /\ Percent(Cardinality({d \in span[ex] : ~Gate1(s, bars, d)}),
                                Cardinality(span[ex]), CliffPercent)}

(* The longest failing block at the old end of a span whose rest is clean. *)
HasClusterPrefix(span, failing) ==
    LET n == Len(span)
        fails(i, j) == Cardinality({x \in i .. j : span[x] \in failing})
        ends == {i \in MinCliffDays .. n :
                   span[i] \in failing /\ Percent(fails(1, i), i, CliffPercent)}
        best == Max(ends)
    IN ends # {} /\ (best < n =>
                       100 * fails(best + 1, n) <= (100 - CliffPercent) * (n - best))

ClusterEvents(s, bars, exs) ==
    LET gated == DOMAIN bars \cap s.rows
        span == Spans(exs, gated)
        failing == {d \in gated : ~Gate1P(s, bars, d)}
    IN {ex \in exs : HasClusterPrefix(Sorted(span[ex]), failing)}

Signatures(s, today, bars) ==
    LET exs == {e.ex : e \in EventsOf(s, today)}
    IN {r.ex : r \in {q \in Gate3Rows(s, today, bars) : q.same}}
       \cup CliffEvents(s, bars, exs) \cup ClusterEvents(s, bars, exs)

(* A cluster below a boundary admits every moving event of its era.        *)
RecoveryEvents(s, bars, amap) ==
    LET hits == ClusterEvents(s, bars, amap.exs)
        eras == {r \in amap.eras : r.provable /\ r.key # {} /\ Min(r.key) \in hits}
    IN UNION {{ex \in r.key : r.choices[ex].p # 0 \/ r.choices[ex].v # 0} : r \in eras}
=============================================================================
