---------------------------- MODULE CorpActions ----------------------------
(***************************************************************************)
(* Corporate actions, corp_actions.py: what an announcement is, the factor *)
(* it has, and the factor table of one symbol.                             *)
(*                                                                         *)
(* An announcement carries the words its subject matches and the numbers   *)
(* the patterns take from it; a number that is not there is Nil.  Prices   *)
(* are paise.  A factor is a ratio kn / kd, exact as the Decimal of the    *)
(* code is for every ratio it meets.                                       *)
(***************************************************************************)
EXTENDS Gates, SequencesExt

Nil == NoRow      \* a number that is not given

(* Numbers, or nothing; a ratio has both of its parts or neither. *)
IsAnnouncement(a) ==
    /\ a.ex \in Nat
    /\ {a.new, a.held, a.from, a.to, a.face, a.premium, a.price} \subseteq {Nil} \cup Int
    /\ a.new = Nil <=> a.held = Nil
    /\ \A i \in 1 .. Len(a.amounts) : a.amounts[i] \in {Nil} \cup Int
    /\ Len(a.amounts) \in Nat /\ DOMAIN a.amounts = 1 .. Len(a.amounts)

PriceEvents == {"demerger", "bonus", "split", "rights", "buyback", "dividend"}

(* The code tries the kinds in this order; the first that matches decides. *)
Precedence == <<"demerger", "bonus", "split", "rights", "buyback", "dividend", "meeting">>

BadRatio(a) == a.new <= 0 \/ a.held <= 0
BadFaces(a) == a.from = Nil \/ a.to = Nil \/ (a.from <= 0 \/ a.to <= 0)

(* A bonus and a rights issue are only recognised with their ratio.  The   *)
(* amounts are those of the components that mention a dividend.            *)
Matches(a, kind) ==
    /\ kind \in a.words
    /\ kind \in {"bonus", "rights"} => a.new # Nil

KindOf(a) ==
    LET hits == {i \in DOMAIN Precedence : Matches(a, Precedence[i])}
    IN IF hits = {} THEN "unknown" ELSE Precedence[Min(hits)]

ParseFails(a) ==
    LET kind == KindOf(a)
    IN \/ kind = "unknown"
       \/ kind \in {"bonus", "rights"} /\ BadRatio(a)
       \/ kind = "split" /\ BadFaces(a)
       \/ kind = "dividend" /\ (a.amounts = <<>> \/ \E i \in DOMAIN a.amounts : a.amounts[i] = Nil)
       \/ kind = "meeting" /\ (a.new # Nil \/ a.amounts # <<>>)

(* The sum of the first n numbers of a sequence. *)
SumTo(f, n) ==
    LET sum[i \in 0 .. n] == IF i = 0 THEN 0 ELSE sum[i - 1] + f[i]
    IN sum[n]

ParsedEvent(a) ==
    [ex |-> a.ex, kind |-> KindOf(a), new |-> a.new, held |-> a.held,
     from |-> a.from, to |-> a.to, face |-> a.face,
     premium |-> a.premium, price |-> IF a.premium # Nil THEN Nil ELSE a.price,
     amount |-> SumTo(a.amounts, Len(a.amounts))]

(* Rows of other instruments are ignored, meetings and failures set aside. *)
(* An event goes by the position at which it was announced.                *)
Parse(list) ==
    LET ours == {i \in DOMAIN list : list[i].equity}
        read == {i \in ours : ~ParseFails(list[i]) /\ KindOf(list[i]) # "meeting"}
    IN [events     |-> [i \in read |-> ParsedEvent(list[i])],
        exceptions |-> {list[i] : i \in {j \in ours : ParseFails(list[j])}}]

(***************************************************************************)
(* Factors.                                                                *)
(***************************************************************************)
DividendBand(amount, cum) ==
    IF 50 * amount >= cum THEN "special"
    ELSE IF 100 * amount >= cum THEN "near-threshold" ELSE "ordinary"

Ratio(n, d) == [kn |-> n, kd |-> d]

(* Rights: k = (P - (P - S) A / (A + B)) / P.                              *)
RightsFactor(cum, issue, new, held) ==
    IF cum <= 0 \/ issue <= 0 \/ issue >= cum THEN Nil
    ELSE Ratio(cum * (new + held) - (cum - issue) * new, cum * (new + held))

(* Nil: this event has no factor (yet).  A factor is positive.             *)
FactorFor(e, cum, issue) ==
    LET k == CASE e.kind = "bonus"    -> Ratio(e.held, e.new + e.held)
               [] e.kind = "split"    -> Ratio(e.to, e.from)
               [] e.kind = "buyback"  -> Ratio(1, 1)
               [] e.kind = "demerger" -> Nil
               [] e.kind = "rights"   -> IF issue = Nil \/ cum = Nil THEN Nil
                                         ELSE RightsFactor(cum, issue, e.new, e.held)
               [] e.kind = "dividend" ->
                      IF cum = Nil \/ (cum # Nil /\ cum <= 0) THEN Nil
                      ELSE IF DividendBand(e.amount, cum) = "special" THEN Ratio(cum - e.amount, cum)
                      ELSE Ratio(1, 1)
    IN IF k = Nil THEN Nil ELSE IF k.kn <= 0 THEN Nil ELSE k

(* The face value on an ex-date, from the splits of the parsed history.    *)
ReconstructFace(ex, splits) ==
    LET before == {i \in DOMAIN splits : splits[i].ex <= ex}
        last   == Max({splits[i].ex : i \in before})
        first  == Min({splits[i].ex : i \in DOMAIN splits})
    IN IF DOMAIN splits = {} THEN Nil
       ELSE IF before # {} THEN splits[Max({i \in before : splits[i].ex = last})].to
       ELSE splits[Min({i \in DOMAIN splits : splits[i].ex = first})].from

(* The rights issue price: given, curated, or face value plus premium.     *)
IssuePrice(e, splits, overrides) ==
    LET face == ReconstructFace(e.ex, splits)
    IN IF e.price # Nil THEN e.price
       ELSE IF e.ex \in DOMAIN overrides THEN overrides[e.ex]
       ELSE IF e.premium = Nil THEN Nil
       ELSE IF face # Nil THEN face + e.premium
       ELSE IF e.face # Nil THEN e.face + e.premium
       ELSE Nil

(***************************************************************************)
(* The factor table of one symbol: each event ends in exactly one of the   *)
(* three parts.  cum[ex] is the close of the last daily row before ex.     *)
(***************************************************************************)
BuildFactorTable(events, cum, overrides) ==
    LET splits == [i \in {j \in DOMAIN events : events[j].kind = "split"} |-> events[i]]
        issue(e) == IF e.kind = "rights" THEN IssuePrice(e, splits, overrides) ELSE Nil
        lost == {i \in DOMAIN events : \/ events[i].kind = "demerger"
                                       \/ events[i].kind = "rights" /\ issue(events[i]) = Nil}
        k(e) == FactorFor(e, cum[e.ex], issue(e))
        built == {i \in DOMAIN events \ lost : k(events[i]) # Nil}
    IN [suppressions |-> {events[i].ex : i \in lost},
        pending |-> {events[i] : i \in (DOMAIN events \ lost) \ built},
        factors |-> [i \in built |->
                       [ex |-> events[i].ex, kind |-> events[i].kind,
                        kn |-> k(events[i]).kn, kd |-> k(events[i]).kd]]]

LastRowBefore(rows, ex) ==
    LET days == {d \in DOMAIN rows : d < ex}
    IN IF days = {} THEN Nil ELSE rows[Max(days)].c

(* A file of curated issue prices that does not load counts as an empty one. *)
SymbolActions(list, rows, overrides) ==
    LET events == Parse(list).events
        cum == [ex \in {events[i].ex : i \in DOMAIN events} |-> LastRowBefore(rows, ex)]
    IN BuildFactorTable(events, cum, overrides)

(***************************************************************************)
(* The use of the table: a pair of daily candles is compared in the later  *)
(* one's domain.                                                           *)
(***************************************************************************)
FactorsBetween(factors, previous, current) ==
    {i \in DOMAIN factors : previous < factors[i].ex /\ factors[i].ex <= current}

(* n / d to the nearest integer, halves to the even one. *)
HalfEven(n, d) ==
    LET q == n \div d
        rest == 2 * (n % d)
    IN IF rest > d \/ (rest = d /\ q % 2 = 1) THEN q + 1 ELSE q

(* The product of the numbers at these positions, up to the n-th. *)
TimesTo(f, at, n) ==
    LET times[i \in 0 .. n] ==
            IF i = 0 THEN 1 ELSE IF i \in at THEN times[i - 1] * f[i] ELSE times[i - 1]
    IN times[n]

Product(factors, at) ==
    LET n == IF at = {} THEN 0 ELSE Max(at)
    IN Ratio(TimesTo([i \in at |-> factors[i].kn], at, n), TimesTo([i \in at |-> factors[i].kd], at, n))

AdjustPrice(price, k) == HalfEven(price * k.kn, k.kd)
=============================================================================
