----------------------------- MODULE Benchmark -----------------------------
(***************************************************************************)
(* The benchmark beside a run: the same capital held, in equal parts, in   *)
(* every symbol with a close on the first day a trade was made             *)
(* (portfolio.py, report_9b.py).  It is read three times: on the prices as *)
(* they were quoted, with every factor of the span taken out, and with     *)
(* those of events that change the number of shares.                       *)
(***************************************************************************)
EXTENDS Report

(* A close is a price, and announcements have been read. *)
ASSUME BenchmarkAssumption ==
    \A w \in Worlds : \A x \in DOMAIN w.symbols :
        LET s == w.symbols[x]
        IN /\ DOMAIN s.rows \subseteq Nat /\ IsFiniteSet(DOMAIN s.rows)
           /\ \A d \in DOMAIN s.rows : s.rows[d].c >= 0
           /\ Len(s.actions) \in Nat /\ DOMAIN s.actions = 1 .. Len(s.actions)
           /\ \A i \in DOMAIN s.actions : IsAnnouncement(s.actions[i])
           /\ \A ex \in DOMAIN s.overrides : s.overrides[ex] \in Int

FirstTradeDay(rows) == Min({r.day : r \in ToSet(Executed(rows))})
LastWalkedDay(rows) == Max(WalkedDays(rows))

Closes(s, first, last) ==
    [d \in {x \in DOMAIN s.rows : first <= x /\ x <= last} |-> s.rows[d].c]

(* The factors of the manifest that a reading takes out. *)
AnyKind == {"bonus", "split", "rights", "dividend", "buyback"}
ShareCountKinds == {"bonus", "split", "rights"}

KindsOf == [raw |-> {}, adjusted |-> AnyKind, shares |-> ShareCountKinds]

(* Slip: an event on the first day, whose close already has it. *)
AppliedFromFirst(s, first, last, kinds) ==
    LET factors == TableOf(s).factors
    IN {i \in FactorsBetween(factors, first - 1, last) :
          factors[i].kn # factors[i].kd /\ factors[i].kind \in kinds}

Applied(s, first, last, kinds) ==
    LET factors == TableOf(s).factors
    IN {i \in FactorsBetween(factors, first, last) :
          factors[i].kn # factors[i].kd /\ factors[i].kind \in kinds}

(* The first close, scaled and cut to whole paise. *)
Scaled(closes, first, k) == [closes EXCEPT ![first] = (@ * k.kn) \div k.kd]

Members(w, first, last) ==
    {x \in DOMAIN w.symbols : first \in DOMAIN Closes(w.symbols[x], first, last)}

(* What one unit of money in each member has become. *)
Growth(closes, first) == Ratio(closes[Max(DOMAIN closes)], closes[first])

BuyAndHold(w, first, last, kinds) ==
    [x \in Members(w, first, last) |->
        LET s == w.symbols[x]
            k == Product(TableOf(s).factors, Applied(s, first, last, kinds))
        IN Growth(Scaled(Closes(s, first, last), first, k), first)]

BenchmarkPair(rows) ==
    [reading \in DOMAIN KindsOf |->
        BuyAndHold(world, FirstTradeDay(rows), LastWalkedDay(rows), KindsOf[reading])]

-----------------------------------------------------------------------------
(* A reading is what a holder would have seen, who lives through the days  *)
(* one by one: between two closes his holding changes by their ratio and   *)
(* by the factors of the days between them.  The scaled close is cut, so   *)
(* the reading may say a little more.  It does not hold for a symbol with  *)
(* an event after its last close: the factor is taken out of a span that   *)
(* no longer has its effect (report_9b.py:711-756).                        *)
Held(s, closes, kinds) ==
    LET factors == TableOf(s).factors
        days == InOrder(DOMAIN closes)
        between(i) == {j \in FactorsBetween(factors, days[i - 1], days[i]) : factors[j].kind \in kinds}
        held[i \in DOMAIN days] ==
            IF i = 1 THEN Ratio(1, 1)
            ELSE Ratio(held[i - 1].kn * closes[days[i]] * Product(factors, between(i)).kd,
                       held[i - 1].kd * closes[days[i - 1]] * Product(factors, between(i)).kn)
    IN held[Len(days)]

EventAfter(s, day, last) ==
    \E f \in Range(TableOf(s).factors) : day < f.ex /\ f.ex <= last /\ f.kn # f.kd

Agrees(said, held, cut) ==
    /\ held.kn * said.kd <= said.kn * held.kd
    /\ held.kn * (said.kd + cut) >= said.kn * held.kd

BenchmarkIsHeld ==
    WalkedLedger # <<>> /\ Executed(WalkedLedger) # <<>> =>
        LET first == FirstTradeDay(WalkedLedger)
            last  == LastWalkedDay(WalkedLedger)
            pair  == BenchmarkPair(WalkedLedger)
            closes(x) == Closes(world.symbols[x], first, last)
        IN \A reading \in DOMAIN KindsOf : \A x \in DOMAIN pair[reading] :
             LET s == world.symbols[x]
                 kinds == KindsOf[reading]
             IN \/ kinds # {} /\ EventAfter(s, Max(DOMAIN closes(x)), last)
                \/ Agrees(pair[reading][x], Held(s, closes(x), kinds), 1)
=============================================================================
