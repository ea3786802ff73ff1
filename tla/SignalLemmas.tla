----------------------------- MODULE SignalLemmas -----------------------------
(***************************************************************************)
(* Facts about the rules of a stock-day, for every grid of candles, used   *)
(* by SignalLoopProofs and SignalDayProofs: which candle is the first      *)
(* cross, why it can always be sized, and on which side of the POC the     *)
(* stop lies.                                                              *)
(***************************************************************************)
EXTENDS SignalRules, NumberLemmas

(* What the rules are applied to. *)
IsDay(bars) ==
  /\ bars = [n \in DOMAIN bars |-> bars[n]]
  /\ DOMAIN bars \subseteq Ordinals
  /\ \A n \in DOMAIN bars : IsCandle(bars[n])

FirstCross(bars, side, poc2, n) ==
  /\ Crosses(bars, side, poc2, n)
  /\ \A m \in Window(bars) : m < n => ~Crosses(bars, side, poc2, m)

-----------------------------------------------------------------------------
(* The least and the greatest of a non-empty set of ordinals. *)

LEMMA EarliestOf ==
  ASSUME NEW T, T \subseteq Ordinals, T # {}
  PROVE  Earliest(T) \in T /\ \A y \in T : Earliest(T) <= y
<1>1. \E x \in T : \A y \in T : x <= y
  BY HasLeast, GridAssumption DEF Ordinals
<1> QED
  BY <1>1, Zenon DEF Earliest

LEMMA LatestOf ==
  ASSUME NEW T, T \subseteq Ordinals, T # {}
  PROVE  Latest(T) \in T /\ \A y \in T : y <= Latest(T)
<1>1. \E x \in T : \A y \in T : y <= x
  BY HasGreatest, GridAssumption DEF Ordinals
<1> QED
  BY <1>1, Zenon DEF Latest

(* The least element is the only one below all others. *)
LEMMA EarliestIs ==
  ASSUME NEW T, T \subseteq Ordinals, NEW x \in T, \A y \in T : x <= y
  PROVE  Earliest(T) = x
<1> DEFINE e == Earliest(T)
<1>1. e \in T /\ e <= x
  BY EarliestOf
<1>2. x <= e
  BY <1>1, Zenon
<1>3. T \subseteq Int
  BY GridAssumption DEF Ordinals
<1> HIDE DEF e
<1>4. e = x
  BY <1>1, <1>2, <1>3
<1> QED
  BY <1>4 DEF e

LEMMA LatestIs ==
  ASSUME NEW T, T \subseteq Ordinals, NEW x \in T, \A y \in T : y <= x
  PROVE  Latest(T) = x
<1> DEFINE e == Latest(T)
<1>1. e \in T /\ x <= e
  BY LatestOf
<1>2. e <= x
  BY <1>1, Zenon
<1>3. T \subseteq Int
  BY GridAssumption DEF Ordinals
<1> HIDE DEF e
<1>4. e = x
  BY <1>1, <1>2, <1>3
<1> QED
  BY <1>4 DEF e

-----------------------------------------------------------------------------
(* Why a cross can always be sized. *)

(* The last candle before the first cross exists and did not close on the   *)
(* trigger side: it would have been the cross itself, or nothing after it   *)
(* could have armed the day.                                                *)
LEMMA BeforeTheCross ==
  ASSUME NEW bars, IsDay(bars), NEW side \in Sides, NEW poc2 \in Int,
         HasReference(bars), NEW n, FirstCross(bars, side, poc2, n)
  PROVE  /\ EarlierBars(bars, n) # {}
         /\ Latest(EarlierBars(bars, n)) \in DOMAIN bars
         /\ Latest(EarlierBars(bars, n)) < n
         /\ ~ClosesOn(bars, Latest(EarlierBars(bars, n)), poc2, TriggerSide(side))
<1> DEFINE T == EarlierBars(bars, n)
           p == Latest(T)
<1>1. n \in Window(bars) /\ ArmedBefore(bars, side, poc2, n)
  BY DEF FirstCross, Crosses
<1>2. T \subseteq Ordinals /\ T # {}
  <2>1. PICK m \in EarlyBars(bars) : TRUE
    BY DEF HasReference
  <2>2. m < n
    BY <1>1, <2>1, GridAssumption DEF EarlyBars, Window, IsDay, Ordinals
  <2> QED
    BY <2>1, <2>2 DEF EarlyBars, EarlierBars, IsDay
<1>3. p \in T /\ \A y \in T : y <= p
  BY <1>2, LatestOf
<1>4. p \in DOMAIN bars /\ p < n /\ p \in Ordinals
  BY <1>2, <1>3 DEF EarlierBars
<1>5. TriggerSide(side) # ArmingSide(side)
  BY DEF Sides, TriggerSide, ArmingSide
<1>6. ASSUME ClosesOn(bars, p, poc2, TriggerSide(side)) PROVE FALSE
  <2>1. ~ClosesOn(bars, p, poc2, ArmingSide(side))
    BY <1>5, <1>6 DEF ClosesOn
  <2>2. \A m \in Window(bars) : m < n => m <= p
    BY <1>3 DEF Window, EarlierBars
  <2>3. CASE p \in Window(bars)
    <3>1. ~ArmedBefore(bars, side, poc2, p)
      BY <1>4, <1>6, <2>3 DEF FirstCross, Crosses
    <3>2. PICK m \in Window(bars) : m < n /\ ClosesOn(bars, m, poc2, ArmingSide(side))
      BY <1>1, <3>1 DEF ArmedBefore
    <3>3. m < p
      BY <1>4, <2>1, <2>2, <3>2, GridAssumption DEF Window, IsDay, Ordinals
    <3> QED
      BY <3>1, <3>2, <3>3 DEF ArmedBefore
  <2>4. CASE p \notin Window(bars)
    <3>1. p <= ReferenceBar
      BY <1>1, <1>4, <2>4, GridAssumption DEF Window, Ordinals, IsDay
    <3>2. \A m \in Window(bars) : ~(m < n)
      BY <2>2, <3>1, <1>4, GridAssumption DEF Window, Ordinals, IsDay
    <3>3. InitialState(Reference(bars), side, poc2) = "armed"
      BY <1>1, <3>2 DEF ArmedBefore
    <3>4. Latest(EarlyBars(bars)) = p
      <4>1. p \in EarlyBars(bars)
        BY <1>4, <3>1 DEF EarlyBars
      <4>2. \A y \in EarlyBars(bars) : y <= p
        <5>1. EarlyBars(bars) \subseteq T
          BY <1>1, GridAssumption DEF EarlyBars, EarlierBars, Window, IsDay, Ordinals
        <5> QED
          BY <5>1, <1>3
      <4> QED
        BY <4>1, <4>2, LatestIs DEF EarlyBars, IsDay
    <3>5. PocSide(bars[p].close, poc2) = TriggerSide(side)
      BY <1>6 DEF ClosesOn
    <3> QED
      BY <3>3, <3>4, <3>5, <1>5 DEF InitialState, Reference, WaitState, TriggerSide, ArmingSide, Sides
  <2> QED
    BY <2>3, <2>4
<1> QED
  BY <1>2, <1>4, <1>6

(* The POC lies between the stop of a cross and its entry. *)
LEMMA CrossSplits ==
  ASSUME NEW bars, IsDay(bars), NEW side \in Sides, NEW poc2 \in Int,
         HasReference(bars), NEW n, FirstCross(bars, side, poc2, n)
  PROVE  /\ Stop(bars, n, side, poc2) \in Int
         /\ bars[n].close \in Int
         /\ IF side = "long"
              THEN 2 * Stop(bars, n, side, poc2) <= poc2 /\ poc2 < 2 * bars[n].close
              ELSE 2 * Stop(bars, n, side, poc2) >= poc2 /\ poc2 > 2 * bars[n].close
         /\ Sizable(bars, n, side, poc2)
<1> DEFINE p == Latest(EarlierBars(bars, n))
<1>1. n \in DOMAIN bars /\ PocSide(bars[n].close, poc2) = TriggerSide(side)
  BY DEF FirstCross, Crosses, Window, ClosesOn
<1>2. /\ p \in DOMAIN bars
      /\ EarlierBars(bars, n) # {}
      /\ PocSide(bars[p].close, poc2) # TriggerSide(side)
  BY BeforeTheCross DEF ClosesOn
<1>3. /\ bars[n].close \in Int /\ bars[n].low \in Int /\ bars[n].high \in Int
      /\ bars[p].close \in Int
  BY <1>1, <1>2 DEF IsDay, IsCandle
<1>4. Stop(bars, n, side, poc2) \in Int
  BY <1>3 DEF Stop
<1>5. IF side = "long"
        THEN 2 * Stop(bars, n, side, poc2) <= poc2 /\ poc2 < 2 * bars[n].close
        ELSE 2 * Stop(bars, n, side, poc2) >= poc2 /\ poc2 > 2 * bars[n].close
  BY <1>1, <1>2, <1>3 DEF Stop, IsGap, PocSide, TriggerSide, Sides
<1>6. Risk(bars[n].close, Stop(bars, n, side, poc2), side) > 0
  <2>1. \A x, y, z \in Int : (2 * x <= z /\ z < 2 * y) => y - x > 0
    BY SMT
  <2>2. \A x, y, z \in Int : (2 * x >= z /\ z > 2 * y) => x - y > 0
    BY SMT
  <2> HIDE DEF p
  <2> QED
    BY <1>3, <1>4, <1>5, <2>1, <2>2 DEF Risk
<1> QED
  BY <1>2, <1>3, <1>4, <1>5, <1>6 DEF Sizable

-----------------------------------------------------------------------------
(* The answer to a day that crosses, and the trade in it. *)

LEMMA CrossIsEarliest ==
  ASSUME NEW b, IsDay(b), NEW s \in Sides, NEW p \in Int,
         NEW n, FirstCross(b, s, p, n)
  PROVE  CrossBars(b, s, p) # {} /\ Earliest(CrossBars(b, s, p)) = n
<1>1. n \in CrossBars(b, s, p)
  BY DEF FirstCross, Crosses, CrossBars, Window
<1>2. CrossBars(b, s, p) \subseteq Window(b) /\ CrossBars(b, s, p) \subseteq Ordinals
  BY DEF CrossBars, Crosses, Window, IsDay
<1>3. \A m \in CrossBars(b, s, p) : n <= m
  BY <1>1, <1>2, GridAssumption DEF FirstCross, CrossBars, Ordinals
<1> QED
  BY <1>1, <1>2, <1>3, EarliestIs

LEMMA CrossedAnswer ==
  ASSUME NEW b, IsDay(b), NEW s \in Sides, NEW p \in Int, HasReference(b),
         NEW n, FirstCross(b, s, p, n)
  PROVE  EvaluateDay(b, s, p)
           = Answer("entered", "armed", Entry(b, n, s, p), Exit(b, Entry(b, n, s, p), s))
<1>1. CrossBars(b, s, p) # {} /\ Earliest(CrossBars(b, s, p)) = n
  BY CrossIsEarliest
<1>2. Sizable(b, n, s, p)
  BY CrossSplits
<1> QED
  BY <1>1, <1>2 DEF EvaluateDay, CrossAnswer

LEMMA TradeOf ==
  ASSUME NEW b, IsDay(b), NEW s \in Sides, NEW p \in Int, HasReference(b),
         NEW n, FirstCross(b, s, p, n)
  PROVE  LET e == Entry(b, n, s, p)
         IN  /\ e \in [at : Nat, price : Int, stop : Int, target : Int]
             /\ e.at = n /\ n \in DOMAIN b
             /\ IF s = "long"
                  THEN 2 * e.stop <= p /\ p < 2 * e.price /\ e.price < e.target
                  ELSE 2 * e.stop >= p /\ p > 2 * e.price /\ e.price > e.target
<1> DEFINE price == b[n].close
           stop  == Stop(b, n, s, p)
           risk  == Risk(price, stop, s)
           reach == TargetRiskMultiple * risk
           e     == Entry(b, n, s, p)
<1>1. /\ stop \in Int /\ price \in Int
      /\ IF s = "long" THEN 2 * stop <= p /\ p < 2 * price
                       ELSE 2 * stop >= p /\ p > 2 * price
      /\ risk > 0
  BY CrossSplits DEF Sizable
<1>2. n \in DOMAIN b /\ n \in Nat
  BY GridAssumption DEF FirstCross, Crosses, Window, IsDay, Ordinals
<1>3. risk \in Int
  BY <1>1 DEF Risk
<1>4. reach \in Int /\ reach > 0
  <2>1. \A k, r \in Nat \ {0} : k * r \in Int /\ k * r > 0
    OBVIOUS
  <2>2. risk \in Nat \ {0}
    BY <1>1, <1>3
  <2> QED
    BY <2>1, <2>2, MultipleAssumption
<1>5. e = [at |-> n, price |-> price, stop |-> stop,
           target |-> IF s = "long" THEN price + reach ELSE price - reach]
  BY DEF Entry
<1> HIDE DEF price, stop, risk, reach, e
<1>6. price + reach \in Int /\ price - reach \in Int
      /\ price < price + reach /\ price > price - reach
  BY <1>1, <1>4
<1>7. /\ e \in [at : Nat, price : Int, stop : Int, target : Int]
      /\ e.at = n /\ e.price = price /\ e.stop = stop
      /\ e.target = IF s = "long" THEN price + reach ELSE price - reach
  BY <1>1, <1>2, <1>5, <1>6
<1> QED
  BY <1>1, <1>2, <1>6, <1>7 DEF e

LEMMA ExitOf ==
  ASSUME NEW b, IsDay(b), NEW e, e.at \in Nat, NEW s
  PROVE  Exit(b, e, s) \in [kind : {"stop", "target", "square-off"}, at : Nat]
<1>1. Watched(b, e) \subseteq Ordinals /\ TouchBars(b, e, s) \subseteq Ordinals
  BY DEF Watched, TouchBars, IsDay
<1>2. Ordinals \subseteq Nat
  BY GridAssumption DEF Ordinals
<1>3. TouchBars(b, e, s) # {} => Earliest(TouchBars(b, e, s)) \in Nat
  BY <1>1, <1>2, EarliestOf
<1>4. Watched(b, e) # {} => Latest(Watched(b, e)) \in Nat
  BY <1>1, <1>2, LatestOf
<1> QED
  BY <1>3, <1>4 DEF Exit, TouchExit, SquareOff

(* A day without a reference, a day that never crosses, or one trade.       *)
LEMMA AnswerOf ==
  ASSUME NEW b, IsDay(b), NEW s \in Sides, NEW p \in Int
  PROVE  \/ /\ ~HasReference(b)
            /\ EvaluateDay(b, s, p) = NoReferenceAnswer(b)
         \/ /\ HasReference(b) /\ CrossBars(b, s, p) = {}
            /\ EvaluateDay(b, s, p)
                 = Answer(NoCrossOutcome(UncrossedState(b, s, p)), UncrossedState(b, s, p),
                          NoEntry, NoExit)
         \/ /\ HasReference(b)
            /\ \E n \in Window(b) :
                 /\ FirstCross(b, s, p, n)
                 /\ EvaluateDay(b, s, p)
                      = Answer("entered", "armed", Entry(b, n, s, p), Exit(b, Entry(b, n, s, p), s))
<1>1. CASE ~HasReference(b)
  BY <1>1 DEF EvaluateDay
<1>2. CASE HasReference(b) /\ CrossBars(b, s, p) = {}
  BY <1>2 DEF EvaluateDay
<1>3. CASE HasReference(b) /\ CrossBars(b, s, p) # {}
  <2> DEFINE n == Earliest(CrossBars(b, s, p))
  <2>1. CrossBars(b, s, p) \subseteq Ordinals
    BY DEF CrossBars, IsDay
  <2>2. n \in CrossBars(b, s, p) /\ \A m \in CrossBars(b, s, p) : n <= m
    BY <1>3, <2>1, EarliestOf
  <2>3. \A m \in CrossBars(b, s, p) : ~(m < n)
    BY <2>1, <2>2, GridAssumption DEF Ordinals
  <2>4. FirstCross(b, s, p, n) /\ n \in Window(b)
    BY <2>2, <2>3 DEF FirstCross, CrossBars, Crosses, Window
  <2> HIDE DEF n
  <2> QED
    BY <1>3, <2>4, CrossedAnswer
<1> QED
  BY <1>1, <1>2, <1>3
=============================================================================
