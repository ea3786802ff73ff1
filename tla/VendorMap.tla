----------------------------- MODULE VendorMap -----------------------------
(***************************************************************************)
(* vendor_adjustment.py: from probe days to the map that un-adjusts the    *)
(* vendor's candles.                                                       *)
(*                                                                         *)
(* A multiplicative factor is modelled by its logarithm in whole steps:    *)
(* a product of factors is a sum, the factor one is 0, a factor of at most *)
(* one is a number of at most 0.  A probe day's p is the price chain       *)
(* fetched / raw it shows and its v the volume chain raw / fetched.  The   *)
(* price test then holds exactly at the true chain; the volume band, which *)
(* forgives a shortfall and no excess, holds on VolSlack steps below it.   *)
(***************************************************************************)
EXTENDS Integers, FiniteSets, SequencesExt

CONSTANTS
    None,               \* the absent value of the code
    VolSlack,           \* steps of volume the gate-1 band forgives, downwards
    MinEstimatorDays,   \* probe days the volume estimator asks for
    MaxFloorProbes,     \* budget of one floor search
    MaxUndecidedSteps   \* how far a search steps aside from a midpoint

ASSUME VendorMapAssumption == VolSlack \in Nat /\ MinEstimatorDays \in Nat \ {0}

PriceOk(x) == x = 0
VolumeOk(x) == x \in -VolSlack .. 0

Total(f, S) ==
    LET sum[T \in SUBSET S] ==
            IF T = {} THEN 0 ELSE LET e == CHOOSE x \in T : TRUE IN f[e] + sum[T \ {e}]
    IN sum[S]

(***************************************************************************)
(* The events our own corporate-action table names: one per ex-date.       *)
(***************************************************************************)
ShareCount(kind) == kind \in {"bonus", "split"}

ComponentVolume(c) ==
    IF ShareCount(c.kind) THEN c.p ELSE IF c.kind = "dividend" THEN 0 ELSE None

SumOrNone(vals) == IF None \in Range(vals) THEN None ELSE Total(vals, DOMAIN vals)

(* Several actions on one ex-date compose; a factor nobody knows spoils    *)
(* the composition of its own side only.                                   *)
ComposeEvent(ex, parts) ==
    LET kinds == {c.kind : c \in Range(parts)}
    IN [ex   |-> ex,
        kind |-> IF Cardinality(kinds) = 1 THEN CHOOSE k \in kinds : TRUE ELSE "compound",
        p    |-> SumOrNone([i \in DOMAIN parts |-> parts[i].p]),
        v    |-> SumOrNone([i \in DOMAIN parts |-> ComponentVolume(parts[i])])]

(* factors: [ex, kind, p] by position in the table; unknown: ex-dates that *)
(* are suppressed, pending or unparsed.                                    *)
EventsFromTable(factors, unknown) ==
    LET moving   == {i \in DOMAIN factors : factors[i].p # 0}
        known(ex) == {i \in moving : factors[i].ex = ex}
        parts(ex) ==
            [i \in known(ex) \cup (IF ex \in unknown THEN {0} ELSE {}) |->
               IF i = 0 THEN [ex |-> ex, kind |-> "unknown", p |-> None] ELSE factors[i]]
    IN {ComposeEvent(ex, parts(ex)) : ex \in {factors[i].ex : i \in moving} \cup unknown}

EventAt(events, ex) == CHOOSE e \in events : e.ex = ex
HasEvent(events, ex) == \E e \in events : e.ex = ex

(***************************************************************************)
(* Floors: from which day on the vendor's chain holds an event.            *)
(***************************************************************************)
NewFloor(ex, day, resolved, factor) ==
    [ex |-> ex, day |-> day, resolved |-> resolved, p |-> factor,
     vday |-> None, vresolved |-> FALSE, vmeasured |-> FALSE]

FloorApplies(f, day) == f.day = None \/ day >= f.day

FloorAppliesVolume(f, day) ==
    IF ~f.vmeasured THEN FloorApplies(f, day) ELSE f.vday = None \/ day >= f.vday

Reaches(side, f, day) ==
    IF side = "price" THEN FloorApplies(f, day) ELSE FloorAppliesVolume(f, day)

InForce(f) ==
    (f.resolved /\ f.day # None) \/ (f.vresolved /\ f.vday # None)

FloorOf(floors, ex) == CHOOSE f \in floors : f.ex = ex
HasFloor(floors, ex) == \E f \in floors : f.ex = ex

(***************************************************************************)
(* One era: the days whose set of events still ahead, up to the fetch, is  *)
(* the same.  An era's measurement is its key and its probe days.          *)
(***************************************************************************)
EraKey(exs, day, fetch) == {ex \in exs : day < ex /\ ex <= fetch}

(* Equal ratios have that median; unequal ones fail the oracle whatever    *)
(* the median is.                                                          *)
Common(vals) ==
    IF Cardinality(vals) = 1 THEN CHOOSE x \in vals : TRUE ELSE None

EraPriceOk(era, k) == \A d \in era.days : PriceOk(d.p - k)
EraVolumeOk(era, k) == \A d \in era.days : VolumeOk(k - d.v)

PricePassing(era, k) == {d \in era.days : PriceOk(d.p - k)}

VolumeEstimator(era, k) ==
    LET days == PricePassing(era, k)
    IN IF Cardinality(days) < MinEstimatorDays THEN None
       ELSE Min({d.v : d \in days})

(* A measured factor is at most one unless the event is a split.           *)
ValidMeasured(e, value) == e.kind = "split" \/ value <= 0

Opt(source, value) == [source |-> source, value |-> value]

Cost(side, source) ==
    CASE source = "ours" -> 0
      [] source = "price-factor" -> 1
      [] source = "measured" -> 2
      [] source = "absent" -> IF side = "price" THEN 1 ELSE 3

EraOk(side, era, k) == IF side = "price" THEN EraPriceOk(era, k) ELSE EraVolumeOk(era, k)

(* What one event may contribute: its forced value, what a newer era       *)
(* settled, or every hypothesis in the order the code lists them.          *)
Options(ours, cumulative, canon, forced, priced) ==
    IF forced # None THEN <<forced>>
    ELSE IF canon # None THEN
        CASE canon.source = "ours" ->
               <<Opt("ours", IF ours # None THEN ours ELSE canon.value)>>
          [] canon.source = "price-factor" ->
               LET tracked == IF priced = None THEN canon.value ELSE priced
               IN IF tracked = 0 THEN <<Opt("absent", 0)>>
                  ELSE <<Opt("price-factor", tracked)>>
          [] canon.source = "measured" ->
               <<canon>> \o IF ours = None THEN <<Opt("absent", 0)>> ELSE <<>>
          [] OTHER -> <<Opt("absent", 0)>>
    ELSE (IF ours # None THEN <<Opt("ours", ours)>> ELSE <<>>)
         \o (IF priced # None /\ priced # 0 THEN <<Opt("price-factor", priced)>> ELSE <<>>)
         \o <<Opt("absent", 0)>>
         \o (IF cumulative # None THEN <<Opt("measured", None)>> ELSE <<>>)

(* A combination takes of each event one option, by its number.  The one   *)
(* whose value is None is solved from the era's cumulative factor.         *)
Picked(opts, c) == [ex \in DOMAIN c |-> opts[ex][c[ex]]]
Unsolved(opts, c) == {ex \in DOMAIN c : Picked(opts, c)[ex].value = None}

Solved(opts, cumulative, c) ==
    LET open  == Unsolved(opts, c)
        known == Total([ex \in DOMAIN c |-> Picked(opts, c)[ex].value], DOMAIN c \ open)
    IN [ex \in DOMAIN c |->
          IF ex \in open THEN Opt("measured", cumulative - known) ELSE Picked(opts, c)[ex]]

(* The cheapest options first, then the fewest measured, then the order in *)
(* which the combinations are enumerated.                                  *)
CombinationCost(side, terms, c) ==
    LET exs  == DOMAIN c
        rank == Total([ex \in exs |-> c[ex] * 8^Cardinality({x \in exs : x > ex})], exs)
    IN 10000 * Total([ex \in exs |-> Cost(side, terms[ex].source)], exs)
       + 1000 * Cardinality({ex \in exs : terms[ex].source = "measured"}) + rank

(* The cheapest combination the oracle accepts; one measured at most.      *)
ResolvePass(side, era, win, opts, cumulative) ==
    LET exs     == {e.ex : e \in win}
        combos  == {c \in [exs -> 1 .. 4] : \A ex \in exs : c[ex] <= Len(opts[ex])}
        terms(c) == Solved(opts, cumulative, c)
        fits == {c \in combos :
            /\ Cardinality(Unsolved(opts, c)) <= 1
            /\ \A ex \in Unsolved(opts, c) : ValidMeasured(EventAt(win, ex), terms(c)[ex].value)
            /\ EraOk(side, era, Total([ex \in exs |-> terms(c)[ex].value], exs))}
        cost(c) == CombinationCost(side, terms(c), c)
        best == {c \in fits : \A d \in fits : cost(c) <= cost(d)}
    IN IF best = {} THEN None ELSE terms(CHOOSE c \in best : TRUE)

(***************************************************************************)
(* The map.  Eras are resolved newest first; what a newer era settled for  *)
(* an event is all an older one may use.                                   *)
(***************************************************************************)
Forced(side, floors, era, ex) ==
    IF HasFloor(floors, ex) /\ era.days # {}
       /\ \A d \in era.days : ~Reaches(side, FloorOf(floors, ex), d.day)
    THEN Opt("absent", 0) ELSE None

Straddles(floors, era, ex) ==
    /\ HasFloor(floors, ex)
    /\ \/ Cardinality({FloorApplies(FloorOf(floors, ex), d.day) : d \in era.days}) > 1
       \/ Cardinality({FloorAppliesVolume(FloorOf(floors, ex), d.day) : d \in era.days}) > 1

Lookup(canon, ex) == IF ex \in DOMAIN canon THEN canon[ex] ELSE None

BothSides(price, volume) ==
    IF volume = None THEN None
    ELSE [ex \in DOMAIN price |->
            [p |-> price[ex].value, psource |-> price[ex].source,
             v |-> volume[ex].value, vsource |-> volume[ex].source]]

(* The volume side is estimated from the days the price side explains.     *)
VolumePass(events, floors, era, vcanon, price, vcum) ==
    ResolvePass("volume", era, {e \in events : e.ex \in era.key},
        [ex \in era.key |-> Options(EventAt(events, ex).v, vcum, Lookup(vcanon, ex),
            Forced("volume", floors, era, ex), price[ex].value)],
        vcum)

ResolveVolume(events, floors, era, vcanon, price) ==
    LET chain == Total([ex \in era.key |-> price[ex].value], era.key)
    IN IF price = None THEN None
       ELSE BothSides(price, VolumePass(events, floors, era, vcanon, price,
                                        VolumeEstimator(era, chain)))

ResolveEra(events, floors, era, pcanon, vcanon) ==
    LET win == {e \in events : e.ex \in era.key}
        fp == [ex \in era.key |-> Forced("price", floors, era, ex)]
        fv == [ex \in era.key |-> Forced("volume", floors, era, ex)]
        fresh == {ex \in era.key : ex \notin DOMAIN pcanon /\ (fp[ex] = None \/ fv[ex] = None)}
        pcum == Common({d.p : d \in era.days})
    IN IF \E ex \in era.key : Straddles(floors, era, ex) THEN None
       ELSE IF Cardinality(fresh) > 1 THEN None
       ELSE ResolveVolume(events, floors, era, vcanon,
              ResolvePass("price", era, win,
                [ex \in era.key |-> Options(EventAt(events, ex).p, pcum, Lookup(pcanon, ex),
                                            fp[ex], None)],
                pcum))

Override(old, new) ==
    [ex \in DOMAIN old \cup DOMAIN new |-> IF ex \in DOMAIN new THEN new[ex] ELSE old[ex]]

(* A measured volume factor is refined to the least recovery, over all the *)
(* eras that measured it; a measured price factor is the same in every     *)
(* era, so refining it changes nothing.                                    *)
RefinedVolume(done, ex, own) ==
    LET used == {r \in done : ex \in DOMAIN r.choices /\ r.choices[ex].vsource = "measured"}
        others(r) == Total([x \in DOMAIN r.choices |-> r.choices[x].v], DOMAIN r.choices \ {ex})
        seen(r) == PricePassing(r.era, Total([x \in DOMAIN r.choices |-> r.choices[x].p],
                                             DOMAIN r.choices))
        vals == UNION {{d.v - others(r) : d \in seen(r)} : r \in used}
    IN IF Total([r \in used |-> Cardinality(seen(r))], used) < MinEstimatorDays THEN own
       ELSE Min(vals)

Refined(done, r) ==
    [ex \in DOMAIN r.choices |->
        IF r.choices[ex].vsource = "measured"
        THEN [r.choices[ex] EXCEPT !.v = RefinedVolume(done, ex, @)] ELSE r.choices[ex]]

PriceChain(choices) == Total([ex \in DOMAIN choices |-> choices[ex].p], DOMAIN choices)
VolumeChain(choices) == Total([ex \in DOMAIN choices |-> choices[ex].v], DOMAIN choices)

Unproved(era) == [key |-> era.key, provable |-> FALSE, choices |-> <<>>]

(* What an era settled is canonical for the older ones.                    *)
Decide(acc, era, r) ==
    IF r = None THEN [acc EXCEPT !.undecided = @ \cup {era}]
    ELSE [acc EXCEPT
           !.done = @ \cup {[era |-> era, choices |-> r]},
           !.pcanon = Override(@, [ex \in era.key |-> Opt(r[ex].psource, r[ex].p)]),
           !.vcanon = Override(@, [ex \in era.key |-> Opt(r[ex].vsource, r[ex].v)])]

(* A refined chain has to satisfy its own probe days still.                *)
FinalEra(done, r, c) ==
    IF EraPriceOk(r.era, PriceChain(c)) /\ EraVolumeOk(r.era, VolumeChain(c))
    THEN [key |-> r.era.key, provable |-> TRUE, choices |-> c]
    ELSE Unproved(r.era)

FinalEras(all) ==
    {FinalEra(all.done, r, Refined(all.done, r)) : r \in all.done}
    \cup {Unproved(e) : e \in all.undecided}

(* Newest first: an era's set of events still ahead holds that of every    *)
(* newer one.                                                              *)
Oldest(eras) == CHOOSE e \in eras : \A o \in eras : Cardinality(o.key) <= Cardinality(e.key)

Resolved(events, floors, eras) ==
    LET upto[some \in SUBSET eras] ==
            IF some = {} THEN [done |-> {}, undecided |-> {}, pcanon |-> <<>>, vcanon |-> <<>>]
            ELSE LET era == Oldest(some)
                     acc == upto[some \ {era}]
                 IN Decide(acc, era, ResolveEra(events, floors, era, acc.pcanon, acc.vcanon))
    IN upto[eras]

BuildMap(fetch, model, events, eras, floors) ==
    LET known == {f \in floors : f.resolved \/ f.vresolved}
    IN [fetch |-> fetch, exs |-> {e.ex : e \in events}, floors |-> floors,
        eras |-> FinalEras(Resolved(events, known, eras)), model |-> model]

(***************************************************************************)
(* Reading the map.                                                        *)
(***************************************************************************)
InWindow(amap, day) == EraKey(amap.exs, day, amap.fetch)

EraFor(amap, day) ==
    LET hits == {r \in amap.eras : r.key = InWindow(amap, day)}
    IN IF hits = {} THEN None ELSE CHOOSE r \in hits : TRUE

EventApplies(amap, ex, day) ==
    HasFloor(amap.floors, ex) => FloorApplies(FloorOf(amap.floors, ex), day)
EventAppliesVolume(amap, ex, day) ==
    HasFloor(amap.floors, ex) => FloorAppliesVolume(FloorOf(amap.floors, ex), day)

(* The day's two chains, or None when its era was never proved.            *)
FactorsForDay(amap, day) ==
    LET era == EraFor(amap, day)
    IN IF InWindow(amap, day) = {} THEN [p |-> 0, v |-> 0]
       ELSE IF era = None THEN None
       ELSE IF ~era.provable THEN None
       ELSE [p |-> Total([ex \in era.key |-> era.choices[ex].p],
                         {ex \in era.key : EventApplies(amap, ex, day)}),
             v |-> Total([ex \in era.key |-> era.choices[ex].v],
                         {ex \in era.key : EventAppliesVolume(amap, ex, day)})]

(* Each event's committed factors, from the smallest proved era that has it *)
CanonicalFactors(amap) ==
    LET proved == {r \in amap.eras : r.provable}
        exs == UNION {r.key : r \in proved}
        least(ex) == CHOOSE r \in proved : ex \in r.key /\
                       \A q \in proved : ex \in q.key => Cardinality(r.key) <= Cardinality(q.key)
    IN [ex \in exs |-> least(ex).choices[ex]]

(* Floors a rebuilt map keeps from the one before: those of events it does *)
(* not place, and those classified under the factor it still uses.         *)
KeepsFloor(was, now, f) ==
    LET under == IF f.p # None THEN f.p
                 ELSE IF f.ex \in DOMAIN was THEN was[f.ex].p ELSE None
    IN \/ f.ex \notin DOMAIN now
       \/ now[f.ex].p = 0
       \/ under # None /\ under = now[f.ex].p

CarryEveryFloor(previous, fresh) ==
    IF previous = None THEN fresh ELSE [fresh EXCEPT !.floors = @ \cup previous.floors]

CarryFloors(previous, fresh) ==
    IF previous = None THEN fresh
    ELSE LET own == {f.ex : f \in fresh.floors}
             was == CanonicalFactors(previous)
             now == CanonicalFactors(fresh)
         IN [fresh EXCEPT !.floors = @ \cup
               {f \in previous.floors : f.ex \notin own /\ KeepsFloor(was, now, f)}]

(* The chain an unproved era is searched under: committed factors, and our *)
(* own for the event whose floor is sought; None when one is missing.      *)
EraHypothesis(amap, key, events, target) ==
    LET known == CanonicalFactors(amap)
        ours(ex) ==
            LET e == EventAt(events, ex)
            IN [p |-> e.p, psource |-> "ours",
                v |-> IF e.v # None THEN e.v ELSE e.p,
                vsource |-> IF e.v # None THEN "ours" ELSE "price-factor"]
    IN IF \E ex \in key : ex \notin DOMAIN known /\
            (ex # target \/ ~HasEvent(events, ex) \/ EventAt(events, ex).p = None)
       THEN None
       ELSE [ex \in key |-> IF ex \in DOMAIN known THEN known[ex] ELSE ours(ex)]

(***************************************************************************)
(* Classifying one day of a floor search.                                  *)
(***************************************************************************)
Verdict(in, out) ==
    IF in /\ ~out THEN "in" ELSE IF out /\ ~in THEN "out" ELSE "undecided"

ClassifyFloorDay(probe, kIn, kOut) ==
    IF kIn = None \/ kOut = None THEN "undecided"
    ELSE Verdict(PriceOk(probe.p - kIn), PriceOk(probe.p - kOut))

(* A stored day was un-adjusted under the map in force: it holds the event *)
(* if it is already raw, and lacks it if undoing the factor makes it raw.  *)
ClassifyStoredPrice(stored, k) ==
    IF k = 0 THEN "undecided" ELSE Verdict(PriceOk(stored.p), PriceOk(stored.p + k))
ClassifyStoredVolume(stored, k) ==
    IF k = 0 THEN "undecided" ELSE Verdict(VolumeOk(stored.v), VolumeOk(stored.v - k))

(* The chain of a day without one event, and the verdict of a fresh probe. *)
ChainWithout(choices, amap, day, drop) ==
    Total([ex \in DOMAIN choices |-> choices[ex].p],
          {ex \in DOMAIN choices \ {drop} : EventApplies(amap, ex, day)})

LiveVerdict(amap, hypotheses, ex, day, probe) ==
    LET era == EraFor(amap, day)
        choices == IF era.provable THEN era.choices ELSE hypotheses[era.key]
        out == ChainWithout(choices, amap, day, ex)
    IN IF era = None THEN "undecided"
       ELSE IF ~era.provable /\ era.key \notin DOMAIN hypotheses THEN "undecided"
       ELSE IF ex \notin DOMAIN choices \/ probe = None THEN "undecided"
       ELSE IF choices[ex].p = 0 THEN "undecided"
       ELSE ClassifyFloorDay(probe, out + choices[ex].p, out)

StoredVerdict(amap, ex, day, stored, side) ==
    LET era == EraFor(amap, day)
        k == IF side = "price" THEN era.choices[ex].p ELSE era.choices[ex].v
    IN IF era = None THEN "undecided"
       ELSE IF ~era.provable \/ ex \notin era.key \/ stored = None THEN "undecided"
       ELSE IF side = "price" THEN ClassifyStoredPrice(stored, k)
       ELSE ClassifyStoredVolume(stored, k)

(***************************************************************************)
(* The search for a boundary.  verdicts is the answer of each candidate    *)
(* day in date order; looking at a day spends one probe of the budget.     *)
(***************************************************************************)
Found(day) == [resolved |-> TRUE, day |-> day]
NotFound == [resolved |-> FALSE, day |-> None]

Offsets == FlattenSeq([i \in 1 .. MaxUndecidedSteps |-> <<i, -i>>])

(* Looks at a midpoint and then to its sides for a decisive day.           *)
Decisive(verdicts, mid, low, high, seen) ==
    LET try(acc, offset) ==
            LET i == mid + offset
            IN IF acc.done \/ i <= low \/ i >= high THEN acc
               ELSE IF i \notin acc.seen /\ Cardinality(acc.seen) >= MaxFloorProbes
                    THEN [acc EXCEPT !.done = TRUE]
               ELSE [seen |-> acc.seen \cup {i},
                     done |-> verdicts[i] # "undecided",
                     at   |-> IF verdicts[i] # "undecided" THEN i ELSE None]
    IN FoldLeft(try, [seen |-> seen, done |-> FALSE, at |-> None], <<0>> \o Offsets)

\* The position of the oldest day that holds the event, between the oldest,
\* which lacks it, and the newest, which has it.
Bisect(verdicts) ==
    LET positions == DOMAIN verdicts
        between[low \in positions, high \in positions, seen \in SUBSET positions] ==
            LET hit == Decisive(verdicts, (low + high) \div 2, low, high, seen)
            IN IF high - low <= 1 THEN high
               ELSE IF hit.at = None THEN None
               ELSE IF verdicts[hit.at] = "in" THEN between[low, hit.at, hit.seen]
               ELSE between[hit.at, high, hit.seen]
    IN between[1, Len(verdicts), {1, Len(verdicts)}]

(* An event that no chain ever held has its floor at its own ex-date, once *)
(* the newest, the oldest and the middle day all say so.                   *)
AbsentThroughout(verdicts, ex) ==
    LET n == Len(verdicts)
        checked == {n} \cup (IF n > 1 THEN {1} ELSE {})
                       \cup (IF n > 2 THEN {n \div 2 + 1} ELSE {})
    IN IF Cardinality(checked) <= MaxFloorProbes /\ \A i \in checked : verdicts[i] = "out"
       THEN Found(ex) ELSE NotFound

SearchFloor(days, verdicts, absent) ==
    LET n == Len(days)
        high == Bisect(verdicts)
    IN IF n = 0 THEN NotFound
       ELSE IF verdicts[n] # "in" THEN
            IF absent # None /\ verdicts[n] = "out" THEN AbsentThroughout(verdicts, absent)
            ELSE NotFound
       ELSE IF n = 1 \/ verdicts[1] = "in" THEN Found(None)
       ELSE IF verdicts[1] = "undecided" THEN NotFound
       ELSE IF high = None THEN NotFound
       ELSE Found(days[high])
=============================================================================
