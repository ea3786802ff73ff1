---------------------------- MODULE SignalDayProofs ----------------------------
(***************************************************************************)
(* A day evaluated from scratch at every boundary is one trade, for every  *)
(* grid of candles and every set of prices: one more candle never moves    *)
(* the first cross or the first touch, it can only be one (DayStep).       *)
(***************************************************************************)
EXTENDS Parity, SignalLemmas, SequenceTheorems

(* `l' is `b' after candle k closed: the same candles, and perhaps that one. *)
IsLonger(b, l, k) ==
  /\ IsDay(b) /\ IsDay(l)
  /\ k \in Ordinals /\ ReferenceBar < k
  /\ DOMAIN b \subseteq 1..(k - 1)
  /\ DOMAIN b \subseteq DOMAIN l
  /\ DOMAIN l \subseteq DOMAIN b \cup {k}
  /\ \A m \in DOMAIN b : l[m] = b[m]

NoTradeYet(d) == d.outcome # "entered" /\ d.entry = NoEntry /\ d.exit = NoExit

(* What a boundary may do to the day's answer. *)
StaysOut(d, d2) ==
  /\ NoTradeYet(d) /\ NoTradeYet(d2)
  /\ d.state = "armed" => d2.state = "armed"

Opens(d, d2, k) ==
  /\ NoTradeYet(d) /\ d.state = "armed"
  /\ d2.outcome = "entered" /\ d2.state = "armed"
  /\ d2.entry \in TradeNumbers /\ d2.entry.at = k
  /\ d2.exit.kind = "square-off"
  /\ k < SquareOffBar

(* A touch is final; the square-off mark only moves before 15:00. *)
Holds(d, d2, k) ==
  /\ d.outcome = "entered" /\ d.state = "armed" /\ d2.outcome = "entered" /\ d2.state = "armed"
  /\ d2.entry = d.entry
  /\ d.exit.kind \in {"stop", "target", "square-off"}
  /\ \/ d2.exit = d.exit
     \/ /\ d.exit.kind = "square-off" /\ k <= SquareOffBar
        /\ \/ d2.exit.kind = "square-off"
           \/ d2.exit.kind \in {"stop", "target"} /\ d2.exit.at = k

-----------------------------------------------------------------------------
LEMMA LongerGrid ==
  ASSUME NEW b, NEW l, NEW k, IsLonger(b, l, k)
  PROVE  /\ k \in Nat /\ \A m \in DOMAIN l : m \in Nat
         /\ \A m \in DOMAIN b : m < k /\ m # k
         /\ \A m \in DOMAIN l : m = k \/ m \in DOMAIN b
         /\ Window(b) \subseteq Window(l)
         /\ \A m \in Window(l) : m = k \/ m \in Window(b)
<1>1. k \in Nat /\ \A m \in DOMAIN l : m \in Nat
  BY GridAssumption DEF IsLonger, IsDay, Ordinals
<1>2. \A m \in 1..(k - 1) : m < k /\ m # k
  BY <1>1
<1> QED
  BY <1>1, <1>2 DEF IsLonger, Window

LEMMA SameReference ==
  ASSUME NEW b, NEW l, NEW k, IsLonger(b, l, k)
  PROVE  /\ HasReference(l) <=> HasReference(b)
         /\ HasReference(b) => Reference(l) = Reference(b)
<1>1. EarlyBars(l) = EarlyBars(b)
  <2>1. ~(k <= ReferenceBar)
    BY LongerGrid, GridAssumption DEF IsLonger
  <2> QED
    BY <2>1, LongerGrid DEF EarlyBars, IsLonger
<1>2. HasReference(b) => Latest(EarlyBars(b)) \in DOMAIN b
  <2>1. EarlyBars(b) \subseteq DOMAIN b /\ EarlyBars(b) \subseteq Ordinals
    BY DEF EarlyBars, IsLonger, IsDay
  <2> QED
    BY <2>1, LatestOf DEF HasReference
<1> QED
  BY <1>1, <1>2 DEF HasReference, Reference, IsLonger

LEMMA SameCrosses ==
  ASSUME NEW b, NEW l, NEW k, IsLonger(b, l, k), HasReference(b), NEW s, NEW p, NEW n \in Nat,
         n <= k
  PROVE  /\ ArmedBefore(l, s, p, n) <=> ArmedBefore(b, s, p, n)
         /\ n \in DOMAIN b => (Crosses(l, s, p, n) <=> Crosses(b, s, p, n))
<1>1. Reference(l) = Reference(b)
  BY SameReference
<1>2. \A m \in Window(b) : m \in Window(l) /\ l[m] = b[m]
  BY LongerGrid DEF Window, IsLonger
<1>3. \A m \in Window(l) : m < n => m \in Window(b)
  BY LongerGrid
<1>4. ArmedBefore(l, s, p, n) <=> ArmedBefore(b, s, p, n)
  BY <1>1, <1>2, <1>3 DEF ArmedBefore, ClosesOn
<1>5. n \in DOMAIN b => (n \in Window(l) <=> n \in Window(b)) /\ l[n] = b[n]
  BY LongerGrid DEF IsLonger, Window
<1> QED
  BY <1>4, <1>5 DEF Crosses, ClosesOn

LEMMA CrossStays ==
  ASSUME NEW b, NEW l, NEW k, IsLonger(b, l, k), HasReference(b),
         NEW s \in Sides, NEW p \in Int, NEW n, FirstCross(b, s, p, n)
  PROVE  FirstCross(l, s, p, n) /\ Entry(l, n, s, p) = Entry(b, n, s, p)
<1>1. n \in DOMAIN b /\ n \in Nat /\ n < k /\ n <= k
  BY LongerGrid DEF FirstCross, Crosses, Window, IsLonger
<1>2. Crosses(l, s, p, n)
  BY <1>1, SameCrosses DEF FirstCross
<1>3. ASSUME NEW m \in Window(l), m < n PROVE ~Crosses(l, s, p, m)
  <2>1. m # k
    BY <1>1, <1>3, LongerGrid
  <2>2. m \in Window(b) /\ m \in DOMAIN b /\ m \in Nat /\ m <= k
    BY <2>1, LongerGrid DEF Window, IsLonger
  <2> QED
    BY <1>3, <2>2, SameCrosses DEF FirstCross
<1>4. EarlierBars(l, n) = EarlierBars(b, n)
  BY <1>1, LongerGrid DEF EarlierBars, IsLonger
<1>5. Latest(EarlierBars(b, n)) \in DOMAIN b /\ l[n] = b[n]
  BY <1>1, BeforeTheCross DEF IsLonger
<1>6. Entry(l, n, s, p) = Entry(b, n, s, p)
  BY <1>4, <1>5 DEF Entry, Stop, IsGap, IsLonger
<1> QED
  BY <1>2, <1>3, <1>6 DEF FirstCross

LEMMA CrossIsNew ==
  ASSUME NEW b, NEW l, NEW k, IsLonger(b, l, k), HasReference(b),
         NEW s \in Sides, NEW p \in Int, CrossBars(b, s, p) = {},
         NEW n, FirstCross(l, s, p, n)
  PROVE  /\ n = k
         /\ UncrossedState(b, s, p) = "armed"
<1>1. n \in Window(l) /\ Crosses(l, s, p, n) /\ n \in DOMAIN l /\ n \in Nat
  BY LongerGrid DEF FirstCross, Crosses, Window
<1>2. n = k
  <2>1. CASE n \in DOMAIN b
    <3>1. Crosses(b, s, p, n)
      BY <1>1, <2>1, LongerGrid, SameCrosses
    <3> QED
      BY <2>1, <3>1 DEF CrossBars
  <2> QED
    BY <1>1, <2>1, LongerGrid
<1>3. ArmedBefore(b, s, p, k)
  BY <1>1, <1>2, SameCrosses DEF Crosses
<1>4. \A m \in Window(b) : m < LastTriggerBar + 1
  BY GridAssumption DEF Window, IsLonger, IsDay, Ordinals
<1>5. ArmedBefore(b, s, p, LastTriggerBar + 1)
  BY <1>3, <1>4 DEF ArmedBefore
<1>6. ~(/\ InitialState(Reference(b), s, p) = "side-unset"
        /\ \A m \in Window(b) : ClosesOn(b, m, p, "at"))
  BY <1>5 DEF ArmedBefore, ClosesOn, ArmingSide
<1> QED
  BY <1>2, <1>5, <1>6 DEF UncrossedState

LEMMA ArmedStays ==
  ASSUME NEW b, NEW l, NEW k, IsLonger(b, l, k), HasReference(b), NEW s \in Sides, NEW p \in Int,
         UncrossedState(b, s, p) = "armed"
  PROVE  UncrossedState(l, s, p) = "armed"
<1> DEFINE K == LastTriggerBar + 1
<1>1. WaitState(s) # "armed"
  BY DEF WaitState
<1>2. ArmedBefore(b, s, p, K)
  <2>1. ~ArmedBefore(b, s, p, K) => UncrossedState(b, s, p) \in {"side-unset", WaitState(s)}
    BY DEF UncrossedState
  <2> QED
    BY <1>1, <2>1
<1>3. Reference(l) = Reference(b) /\ \A m \in Window(b) : m \in Window(l) /\ l[m] = b[m]
  BY SameReference, LongerGrid DEF Window, IsLonger
<1>4. ArmedBefore(l, s, p, K)
  BY <1>2, <1>3 DEF ArmedBefore, ClosesOn
<1>5. ~(/\ InitialState(Reference(l), s, p) = "side-unset"
        /\ \A m \in Window(l) : ClosesOn(l, m, p, "at"))
  BY <1>4 DEF ArmedBefore, ClosesOn, ArmingSide
<1> QED
  BY <1>4, <1>5 DEF UncrossedState

(* The exit of a trade opened at a candle of the shorter day. *)
LEMMA ExitStays ==
  ASSUME NEW b, NEW l, NEW k, IsLonger(b, l, k), NEW s, NEW e, e.at \in DOMAIN b
  PROVE  \/ Exit(l, e, s) = Exit(b, e, s)
         \/ /\ Exit(b, e, s).kind = "square-off" /\ k <= SquareOffBar
            /\ \/ Exit(l, e, s).kind = "square-off"
               \/ Exit(l, e, s).kind \in {"stop", "target"} /\ Exit(l, e, s).at = k
<1>1. \A m \in DOMAIN b : m \in DOMAIN l /\ l[m] = b[m]
  BY DEF IsLonger
<1>2. TouchBars(b, e, s) \subseteq TouchBars(l, e, s)
  BY <1>1 DEF TouchBars, Watched
<1>3. \A m \in TouchBars(l, e, s) : m = k \/ m \in TouchBars(b, e, s)
  BY <1>1, LongerGrid DEF TouchBars, Watched
<1>4. TouchBars(l, e, s) \subseteq Ordinals /\ TouchBars(b, e, s) \subseteq Ordinals
  BY DEF TouchBars, Watched, IsLonger, IsDay
<1>5. CASE TouchBars(b, e, s) # {}
  <2> DEFINE t == Earliest(TouchBars(b, e, s))
  <2>1. t \in TouchBars(b, e, s) /\ \A m \in TouchBars(b, e, s) : t <= m
    BY <1>4, <1>5, EarliestOf
  <2>2. t \in DOMAIN b /\ t < k /\ t <= k
    <3>1. t \in DOMAIN b /\ t \in DOMAIN l
      BY <1>1, <2>1 DEF TouchBars, Watched
    <3> HIDE DEF t
    <3> QED
      BY <3>1, LongerGrid
  <2>3. \A m \in TouchBars(l, e, s) : t <= m
    BY <1>3, <2>1, <2>2
  <2>4. Earliest(TouchBars(l, e, s)) = t
    <3>1. t \in TouchBars(l, e, s)
      BY <1>2, <2>1
    <3> HIDE DEF t
    <3> QED
      BY <1>4, <2>3, <3>1, EarliestIs
  <2>5. TouchExit(l, t, e, s) = TouchExit(b, t, e, s)
    BY <1>1, <2>2 DEF TouchExit
  <2> QED
    BY <1>2, <1>5, <2>4, <2>5 DEF Exit
<1>6. CASE TouchBars(b, e, s) = {} /\ k <= SquareOffBar
  <2>1. Exit(b, e, s).kind = "square-off"
    BY <1>6 DEF Exit, SquareOff
  <2>2. CASE TouchBars(l, e, s) = {}
    BY <1>6, <2>1, <2>2 DEF Exit, SquareOff
  <2>3. CASE TouchBars(l, e, s) # {}
    <3>1. Earliest(TouchBars(l, e, s)) = k
      <4>1. Earliest(TouchBars(l, e, s)) \in TouchBars(l, e, s)
        BY <1>4, <2>3, EarliestOf
      <4> QED
        BY <1>3, <1>6, <4>1
    <3>2. Exit(l, e, s) = TouchExit(l, k, e, s)
      BY <2>3, <3>1 DEF Exit
    <3>3. Exit(l, e, s).kind \in {"stop", "target"} /\ Exit(l, e, s).at = k
      BY <3>2 DEF TouchExit
    <3> QED
      BY <1>6, <2>1, <3>3
  <2> QED
    BY <2>2, <2>3
<1>7. CASE TouchBars(b, e, s) = {} /\ ~(k <= SquareOffBar)
  <2>1. Watched(l, e) = Watched(b, e)
    BY <1>1, <1>7, LongerGrid DEF Watched
  <2>2. TouchBars(l, e, s) = TouchBars(b, e, s)
    BY <1>1, <2>1 DEF TouchBars, Watched
  <2> QED
    BY <1>7, <2>1, <2>2 DEF Exit, SquareOff
<1> QED
  BY <1>5, <1>6, <1>7

-----------------------------------------------------------------------------
LEMMA DayStep ==
  ASSUME NEW b, NEW l, NEW k, IsLonger(b, l, k), NEW s \in Sides, NEW p \in Int
  PROVE  LET d == EvaluateDay(b, s, p)
             d2 == EvaluateDay(l, s, p)
         IN  StaysOut(d, d2) \/ Opens(d, d2, k) \/ Holds(d, d2, k)
<1> DEFINE d == EvaluateDay(b, s, p)
           d2 == EvaluateDay(l, s, p)
<1> SUFFICES StaysOut(d, d2) \/ Opens(d, d2, k) \/ Holds(d, d2, k)
  OBVIOUS
<1>1. IsDay(b) /\ IsDay(l)
  BY DEF IsLonger
<1>2. CASE ~HasReference(b)
  <2>1. d = NoReferenceAnswer(b) /\ d2 = NoReferenceAnswer(l)
    BY <1>2, SameReference DEF EvaluateDay
  <2> HIDE DEF d, d2
  <2> QED
    BY <2>1 DEF StaysOut, NoTradeYet, NoReferenceAnswer, Answer
<1>3. CASE HasReference(b) /\ CrossBars(b, s, p) = {}
  <2>1. d = Answer(NoCrossOutcome(UncrossedState(b, s, p)), UncrossedState(b, s, p), NoEntry, NoExit)
    BY <1>3 DEF EvaluateDay
  <2>2. HasReference(l)
    BY <1>3, SameReference
  <2>3. CASE CrossBars(l, s, p) = {}
    <3>1. d2 = Answer(NoCrossOutcome(UncrossedState(l, s, p)), UncrossedState(l, s, p), NoEntry, NoExit)
      BY <2>2, <2>3 DEF EvaluateDay
    <3>2. UncrossedState(b, s, p) = "armed" => UncrossedState(l, s, p) = "armed"
      BY <1>3, ArmedStays
    <3> HIDE DEF d, d2
    <3> QED
      BY <2>1, <3>1, <3>2 DEF StaysOut, NoTradeYet, Answer, NoCrossOutcome
  <2>4. CASE CrossBars(l, s, p) # {}
    <3>1. PICK n \in Window(l) :
            /\ FirstCross(l, s, p, n)
            /\ d2 = Answer("entered", "armed", Entry(l, n, s, p), Exit(l, Entry(l, n, s, p), s))
      BY <1>1, <2>2, <2>4, AnswerOf
    <3>2. n = k /\ UncrossedState(b, s, p) = "armed"
      BY <1>3, <3>1, CrossIsNew
    <3> DEFINE e == Entry(l, k, s, p)
    <3>3. e \in TradeNumbers /\ e.at = k
      BY <1>1, <2>2, <3>1, <3>2, TradeOf DEF TradeNumbers
    <3>4. k < SquareOffBar
      BY <3>1, <3>2, LongerGrid, GridAssumption DEF Window
    <3>5. TouchBars(l, e, s) = {}
      <4>1. \A m \in DOMAIN l : ~(k < m)
        BY LongerGrid
      <4> QED
        BY <3>3, <4>1 DEF TouchBars, Watched
    <3>6. Exit(l, e, s).kind = "square-off"
      BY <3>5 DEF Exit, SquareOff
    <3>7. d2 = Answer("entered", "armed", e, Exit(l, e, s))
      BY <3>1, <3>2
    <3> HIDE DEF d, d2, e
    <3> QED
      BY <2>1, <3>2, <3>3, <3>4, <3>6, <3>7 DEF Opens, NoTradeYet, Answer, NoCrossOutcome
  <2> QED
    BY <2>3, <2>4
<1>4. CASE HasReference(b) /\ CrossBars(b, s, p) # {}
  <2>1. PICK n \in Window(b) :
          /\ FirstCross(b, s, p, n)
          /\ d = Answer("entered", "armed", Entry(b, n, s, p), Exit(b, Entry(b, n, s, p), s))
    BY <1>1, <1>4, AnswerOf
  <2> DEFINE e == Entry(b, n, s, p)
  <2>2. FirstCross(l, s, p, n) /\ Entry(l, n, s, p) = e /\ HasReference(l)
    BY <1>4, <2>1, CrossStays, SameReference
  <2>3. d2 = Answer("entered", "armed", e, Exit(l, e, s))
    BY <1>1, <2>2, CrossedAnswer
  <2>4. e.at \in DOMAIN b /\ e.at \in Nat
    BY LongerGrid DEF Entry, Window, IsLonger
  <2>5. Exit(b, e, s) \in [kind : {"stop", "target", "square-off"}, at : Nat]
    BY <1>1, <2>4, ExitOf
  <2>6. \/ Exit(l, e, s) = Exit(b, e, s)
        \/ /\ Exit(b, e, s).kind = "square-off" /\ k <= SquareOffBar
           /\ \/ Exit(l, e, s).kind = "square-off"
              \/ Exit(l, e, s).kind \in {"stop", "target"} /\ Exit(l, e, s).at = k
    BY <2>4, ExitStays
  <2> HIDE DEF d, d2, e
  <2>7. d = Answer("entered", "armed", e, Exit(b, e, s))
    BY <2>1 DEF e
  <2> QED
    BY <2>3, <2>5, <2>6, <2>7 DEF Holds, Answer
<1> QED
  BY <1>2, <1>3, <1>4

-----------------------------------------------------------------------------
(* The machine. *)

LEMMA DaysSoFar ==
  ASSUME TypeOK
  PROVE  IsDay(bars) /\ poc2 \in Int /\ now \in Nat /\ now <= SessionBars /\ ReferenceBar <= now
<1>1. now \in Nat /\ now <= SessionBars /\ ReferenceBar <= now /\ DOMAIN bars \subseteq Ordinals
  <2>1. now \in Nat /\ now <= SessionBars /\ ReferenceBar <= now
    BY GridAssumption DEF TypeOK
  <2>2. 1..now \subseteq Ordinals
    BY <2>1, GridAssumption DEF Ordinals
  <2> QED
    BY <2>1, <2>2 DEF TypeOK
<1>2. /\ bars = [n \in DOMAIN bars |-> bars[n]]
      /\ \A n \in DOMAIN bars : IsCandle(bars[n])
  BY CandleAssumption DEF TypeOK
<1> QED
  BY <1>1, <1>2, PocAssumption DEF TypeOK, IsDay

LEMMA DayInit == Init => TypeOK
<1> SUFFICES ASSUME Init PROVE TypeOK
  OBVIOUS
<1>1. PICK D \in SUBSET (1..ReferenceBar) : bars \in [D -> Candle]
  BY DEF Init, Prefixes
<1> QED
  BY <1>1, GridAssumption DEF Init, TypeOK

LEMMA CloseIsLonger ==
  ASSUME TypeOK, CloseCandle
  PROVE  /\ IsLonger(bars, bars', now + 1) /\ TypeOK'
         /\ today = EvaluateDay(bars, side, poc2) /\ today' = EvaluateDay(bars', side, poc2)
<1>1. /\ IsDay(bars) /\ now \in Nat /\ ReferenceBar <= now /\ now < SessionBars
      /\ SessionBars \in Nat /\ ReferenceBar \in Nat /\ 1 <= ReferenceBar
  BY DaysSoFar, GridAssumption DEF CloseCandle
<1>2. /\ now + 1 \in Ordinals /\ ReferenceBar < now + 1 /\ (now + 1) - 1 = now
      /\ now + 1 \in ReferenceBar..SessionBars
      /\ 1..now \subseteq 1..(now + 1) /\ now + 1 \in 1..(now + 1) /\ now + 1 \notin 1..now
  BY <1>1 DEF Ordinals
<1>3. /\ now' = now + 1 /\ today' = EvaluateDay(bars', side, poc2)
      /\ side' = side /\ poc2' = poc2
      /\ bars' = bars \/ \E c \in Candle : bars' = WithBar(now + 1, c)
  BY DEF CloseCandle
<1>4. /\ DOMAIN bars \subseteq DOMAIN bars' /\ DOMAIN bars' \subseteq DOMAIN bars \cup {now + 1}
      /\ \A m \in DOMAIN bars : bars'[m] = bars[m]
      /\ bars' \in [DOMAIN bars' -> Candle]
  <2>1. CASE bars' = bars
    BY <2>1 DEF TypeOK
  <2>2. ASSUME NEW c \in Candle, bars' = WithBar(now + 1, c)
        PROVE  /\ DOMAIN bars' = DOMAIN bars \cup {now + 1}
               /\ \A m \in DOMAIN bars : bars'[m] = bars[m]
               /\ bars' \in [DOMAIN bars' -> Candle]
    <3>1. now + 1 \notin DOMAIN bars
      BY <1>2 DEF TypeOK
    <3> QED
      BY <2>2, <3>1 DEF TypeOK, WithBar
  <2> QED
    BY <1>3, <2>1, <2>2
<1>5. TypeOK'
  BY <1>2, <1>3, <1>4 DEF TypeOK
<1>6. IsDay(bars')
  <2>1. DOMAIN bars' \subseteq Ordinals
    BY <1>1, <1>2, <1>4 DEF IsDay
  <2> QED
    BY <1>4, <2>1, CandleAssumption DEF IsDay
<1>7. DOMAIN bars \subseteq 1..((now + 1) - 1)
  BY <1>2 DEF TypeOK
<1> QED
  BY <1>1, <1>2, <1>3, <1>4, <1>5, <1>6, <1>7 DEF IsLonger, TypeOK

LEMMA BoundaryStep ==
  ASSUME TypeOK, CloseCandle
  PROVE  StaysOut(today, today') \/ Opens(today, today', now') \/ Holds(today, today', now')
<1>1. /\ IsLonger(bars, bars', now + 1)
      /\ today = EvaluateDay(bars, side, poc2) /\ today' = EvaluateDay(bars', side, poc2)
      /\ side \in Sides /\ poc2 \in Int /\ now' = now + 1
  BY CloseIsLonger, DaysSoFar DEF TypeOK, CloseCandle
<1> QED
  BY <1>1, DayStep

LEMMA PhaseIs ==
  /\ NoTradeYet(today) =>
       /\ Phase(today) = IF today.state = "armed" THEN "armed" ELSE "watching"
       /\ ExitShown(today) = "none"
  /\ today.outcome = "entered" =>
       Phase(today) = IF ExitBelieved(today) THEN "over" ELSE "in-trade"
BY DEF NoTradeYet, NoExit, Phase, ExitShown, ExitBelieved

(* The same, in the next state. *)
LEMMA PhaseBecomes ==
  /\ NoTradeYet(today') =>
       /\ Phase(today)' = IF today'.state = "armed" THEN "armed" ELSE "watching"
       /\ ExitShown(today)' = "none"
  /\ today'.outcome = "entered" =>
       Phase(today)' = IF ExitBelieved(today)' THEN "over" ELSE "in-trade"
BY DEF NoTradeYet, NoExit, Phase, ExitShown, ExitBelieved

LEMMA BoundaryIsTraderStep ==
  ASSUME TypeOK, CloseCandle
  PROVE  [Trader!Next]_(Trader!vars)
<1>1. /\ now \in Nat /\ now' \in Nat /\ now' = now + 1
      /\ SquareOffBar \in Nat
  BY DaysSoFar, GridAssumption DEF CloseCandle
<1>2. CASE StaysOut(today, today')
  <2>1. NoTradeYet(today) /\ NoTradeYet(today') /\ today'.entry = today.entry
        /\ ExitShown(today)' = ExitShown(today)
        /\ (today.state = "armed" => today'.state = "armed")
    BY <1>2, PhaseIs, PhaseBecomes DEF StaysOut, NoTradeYet
  <2>2. \/ Phase(today)' = Phase(today)
        \/ Phase(today) = "watching" /\ Phase(today)' = "armed"
    BY <2>1, PhaseIs, PhaseBecomes
  <2> QED
    BY <2>1, <2>2 DEF Trader!Next, Trader!Arm, Trader!vars
<1>3. CASE Opens(today, today', now')
  <2>1. Phase(today) = "armed" /\ ExitShown(today) = "none"
    BY <1>3, PhaseIs DEF Opens
  <2>2. ~ExitBelieved(today)'
    BY <1>1, <1>3 DEF Opens, ExitBelieved
  <2>3. Phase(today)' = "in-trade" /\ ExitShown(today)' = "none"
    BY <1>3, <2>2, PhaseBecomes DEF Opens, ExitShown
  <2> QED
    BY <1>3, <2>1, <2>3 DEF Opens, Trader!Next, Trader!Enter
<1>4. CASE Holds(today, today', now')
  <2>1. /\ Phase(today) = IF ExitBelieved(today) THEN "over" ELSE "in-trade"
        /\ Phase(today)' = IF ExitBelieved(today)' THEN "over" ELSE "in-trade"
        /\ today'.entry = today.entry
    BY <1>4, PhaseIs, PhaseBecomes DEF Holds
  <2>2. CASE ExitBelieved(today)
    <3>1. today'.exit = today.exit
      BY <1>1, <1>4, <2>2 DEF Holds, ExitBelieved
    <3>2. ExitBelieved(today)'
      BY <1>1, <2>2, <3>1 DEF ExitBelieved
    <3>3. ExitShown(today)' = ExitShown(today)
      BY <2>2, <3>1, <3>2 DEF ExitShown
    <3> QED
      BY <2>1, <2>2, <3>2, <3>3 DEF Trader!vars
  <2>3. CASE ~ExitBelieved(today) /\ ~ExitBelieved(today)'
    BY <2>1, <2>3 DEF Trader!vars, ExitShown
  <2>4. CASE ~ExitBelieved(today) /\ ExitBelieved(today)'
    <3>1. today'.exit.kind \in {"stop", "target", "square-off"}
      BY <2>4 DEF ExitBelieved
    <3>2. ExitShown(today)' \in {"stop", "target", "square-off"}
      BY <2>4, <3>1 DEF ExitShown
    <3> QED
      BY <2>1, <2>4, <3>2 DEF Trader!Next, Trader!Leave
  <2> QED
    BY <2>2, <2>3, <2>4
<1> QED
  BY <1>2, <1>3, <1>4, BoundaryStep

LEMMA MorningHasNoTrade == Init => NoTradeYet(today)
<1> SUFFICES ASSUME Init PROVE NoTradeYet(today)
  OBVIOUS
<1>1. TypeOK /\ IsDay(bars) /\ poc2 \in Int /\ side \in Sides
  BY DayInit, DaysSoFar DEF TypeOK
<1>2. Window(bars) = {}
  BY <1>1, GridAssumption DEF Init, TypeOK, Window
<1>3. today = EvaluateDay(bars, side, poc2)
  BY DEF Init
<1>4. \/ today = NoReferenceAnswer(bars)
      \/ today = Answer(NoCrossOutcome(UncrossedState(bars, side, poc2)),
                        UncrossedState(bars, side, poc2), NoEntry, NoExit)
  BY <1>1, <1>2, <1>3, AnswerOf
<1> QED
  BY <1>4 DEF NoTradeYet, NoReferenceAnswer, NoCrossOutcome, Answer

LEMMA MorningIsTraderInit == Init => Trader!Init
BY MorningHasNoTrade, PhaseIs DEF NoTradeYet, Trader!Init

-----------------------------------------------------------------------------
(* The variables keep their types, and today is always the answer to the    *)
(* candles so far.                                                          *)
THEOREM TypeCorrect == Spec => []TypeOK
<1>1. TypeOK /\ [Next]_vars => TypeOK'
  <2> SUFFICES ASSUME TypeOK, [Next]_vars PROVE TypeOK'
    OBVIOUS
  <2>1. CASE CloseCandle
    BY <2>1, CloseIsLonger
  <2>2. CASE UNCHANGED vars
    BY <2>2 DEF vars, TypeOK
  <2> QED
    BY <2>1, <2>2 DEF Next
<1> QED
  BY <1>1, DayInit, PTL DEF Spec

(* Evaluating the day again at every boundary implements one trade: opened  *)
(* only from the armed state, with numbers that never change, left once.    *)
THEOREM DayIsOneTrade == Spec => OneTradeADay
<1>1. TypeOK /\ [Next]_vars => [Trader!Next]_(Trader!vars)
  <2> SUFFICES ASSUME TypeOK, [Next]_vars PROVE [Trader!Next]_(Trader!vars)
    OBVIOUS
  <2>1. CASE CloseCandle
    BY <2>1, BoundaryIsTraderStep
  <2>2. CASE UNCHANGED vars
    BY <2>2 DEF vars, Trader!vars, Phase, ExitShown, ExitBelieved
  <2> QED
    BY <2>1, <2>2 DEF Next
<1> QED
  BY <1>1, MorningIsTraderInit, TypeCorrect, PTL DEF Spec, OneTradeADay, Trader!Spec

(* What a boundary has shown stays: an armed day stays armed, a trade keeps *)
(* its numbers, a touch is final.                                           *)
THEOREM AnswersAreKept == Spec => AnswersOnlyGrow
<1> DEFINE A == /\ today.state = "armed" => today'.state = "armed"
                /\ today.outcome = "entered"
                     => today'.outcome = "entered" /\ today'.entry = today.entry
                /\ today.exit.kind \in {"stop", "target"} => today'.exit = today.exit
<1>1. TypeOK /\ [Next]_vars => [A]_vars
  <2> SUFFICES ASSUME TypeOK, CloseCandle PROVE A
    BY DEF Next
  <2>1. StaysOut(today, today') => A
    BY DEF StaysOut, NoTradeYet, NoExit
  <2>2. Opens(today, today', now') => A
    BY DEF Opens, NoTradeYet, NoExit
  <2>3. Holds(today, today', now') => A
    BY DEF Holds
  <2> QED
    BY <2>1, <2>2, <2>3, BoundaryStep
<1> QED
  BY <1>1, TypeCorrect, PTL DEF Spec, AnswersOnlyGrow

(* A trigger and a touch are seen at the boundary of their own candle.      *)
THEOREM NothingIsSeenLate == Spec => SeenOnTime
<1> DEFINE A == /\ today.outcome # "entered" /\ today'.outcome = "entered"
                     => today'.entry.at = now'
                /\ /\ today.exit.kind \notin {"stop", "target"}
                   /\ today'.exit.kind \in {"stop", "target"}
                   => today'.exit.at = now'
<1>1. TypeOK /\ [Next]_vars => [A]_vars
  <2> SUFFICES ASSUME TypeOK, CloseCandle PROVE A
    BY DEF Next
  <2>1. StaysOut(today, today') => A
    BY DEF StaysOut, NoTradeYet, NoExit
  <2>2. Opens(today, today', now') => A
    BY DEF Opens, NoTradeYet
  <2>3. Holds(today, today', now') => A
    BY DEF Holds
  <2> QED
    BY <2>1, <2>2, <2>3, BoundaryStep
<1> QED
  BY <1>1, TypeCorrect, PTL DEF Spec, SeenOnTime

-----------------------------------------------------------------------------
(* What the whole day's answer, walked onto a boundary, owes to the candles *)
(* closed by then.                                                          *)

LEMMA UncrossedIsArmed ==
  ASSUME NEW b, NEW s, NEW p
  PROVE  UncrossedState(b, s, p) = "armed" <=> ArmedBefore(b, s, p, LastTriggerBar + 1)
<1>1. WaitState(s) # "armed"
  BY DEF WaitState
<1>2. ArmedBefore(b, s, p, LastTriggerBar + 1) =>
        ~(/\ InitialState(Reference(b), s, p) = "side-unset"
          /\ \A m \in Window(b) : ClosesOn(b, m, p, "at"))
  BY DEF ArmedBefore, ClosesOn, ArmingSide
<1> QED
  BY <1>1, <1>2 DEF UncrossedState

\* The candles up to a candle of the window.
Upto(b, n) == [k \in {x \in DOMAIN b : x <= n} |-> b[k]]

\* Without a cross, the state by a boundary after all candles is the day's.
LEMMA StateByIsState ==
  ASSUME NEW b, IsDay(b), NEW n \in Nat, DOMAIN b \subseteq 1..n, NEW s \in Sides, NEW p \in Int,
         side = s, poc2 = p, HasReference(b), CrossBars(b, s, p) = {}
  PROVE  StateBy(b, n) = "armed" <=> UncrossedState(b, s, p) = "armed"
<1>1. Trail(b) = Window(b)
  BY DEF Trail
<1>2. {m \in Trail(b) : m <= n} = Window(b)
  <2>1. \A m \in 1..n : m <= n
    OBVIOUS
  <2> QED
    BY <1>1, <2>1 DEF Window
<1>3. \A m \in Window(b) : m \in Nat /\ m < LastTriggerBar + 1
  BY GridAssumption DEF Window, IsDay, Ordinals
<1>4. CASE Window(b) = {}
  <2>1. StateBy(b, n) = InitialState(Reference(b), s, p)
    BY <1>2, <1>4 DEF StateBy
  <2>2. ArmedBefore(b, s, p, LastTriggerBar + 1) <=> InitialState(Reference(b), s, p) = "armed"
    BY <1>4 DEF ArmedBefore
  <2> QED
    BY <2>1, <2>2, UncrossedIsArmed
<1>5. CASE Window(b) # {}
  <2> DEFINE last == Latest(Window(b))
             c == Upto(b, last)
  <2>1. last \in Window(b) /\ \A m \in Window(b) : m <= last
    BY <1>5, LatestOf DEF Window, IsDay
  <2>2. StateBy(b, n) = UncrossedState(c, s, p)
    BY <1>2, <1>5 DEF StateBy, StateAfter, Upto
  <2> HIDE DEF last
  <2>3. DOMAIN c = {x \in DOMAIN b : x <= last} /\ \A k \in DOMAIN c : c[k] = b[k]
    BY DEF Upto
  <2> HIDE DEF c
  <2>4. Window(c) = Window(b)
    BY <2>1, <2>3 DEF Window
  <2>5. EarlyBars(c) = EarlyBars(b)
    <3>1. \A m \in DOMAIN b : m <= ReferenceBar => m <= last
      BY <2>1, GridAssumption DEF Window, IsDay, Ordinals
    <3> QED
      BY <2>3, <3>1 DEF EarlyBars
  <2>6. Reference(c) = Reference(b)
    <3>1. Latest(EarlyBars(b)) \in EarlyBars(b)
      BY LatestOf DEF HasReference, EarlyBars, IsDay
    <3>2. Latest(EarlyBars(b)) \in DOMAIN c
      BY <2>5, <3>1 DEF EarlyBars
    <3> QED
      BY <2>3, <2>5, <3>2 DEF Reference
  <2>7. \A m \in Window(b) : c[m] = b[m]
    BY <2>3, <2>4 DEF Window
  <2>8. ArmedBefore(c, s, p, LastTriggerBar + 1) <=> ArmedBefore(b, s, p, LastTriggerBar + 1)
    BY <2>4, <2>6, <2>7 DEF ArmedBefore, ClosesOn
  <2> QED
    BY <2>2, <2>8, UncrossedIsArmed
<1> QED
  BY <1>4, <1>5

\* Of a trade in a day: where its entry and its exit stand.
LEMMA TradeInDay ==
  ASSUME NEW b, IsDay(b), NEW s \in Sides, NEW p \in Int, EvaluateDay(b, s, p).outcome = "entered"
  PROVE  LET d == EvaluateDay(b, s, p)
         IN  /\ HasReference(b) /\ d.state = "armed"
             /\ d.entry \in TradeNumbers /\ d.entry.at \in Window(b) /\ d.entry # NoEntry
             /\ d.exit.at \in DOMAIN b /\ d.exit.kind \in {"stop", "target", "square-off"}
             /\ FirstCross(b, s, p, d.entry.at)
<1> DEFINE d == EvaluateDay(b, s, p)
<1>1. PICK n \in Window(b) :
        /\ HasReference(b) /\ FirstCross(b, s, p, n)
        /\ d = Answer("entered", "armed", Entry(b, n, s, p), Exit(b, Entry(b, n, s, p), s))
  BY AnswerOf DEF NoReferenceAnswer, NoCrossOutcome, Answer
<1> DEFINE e == Entry(b, n, s, p)
<1>2. e \in TradeNumbers /\ e.at = n /\ n \in DOMAIN b
  BY <1>1, TradeOf DEF TradeNumbers
<1>3. n \in Nat \ {0}
  BY <1>2, GridAssumption DEF IsDay, Ordinals
<1>4. e # NoEntry
  BY <1>2, <1>3 DEF NoEntry
<1>5. Exit(b, e, s) \in [kind : {"stop", "target", "square-off"}, at : Nat]
  <2>1. e.at \in Nat
    BY <1>2, <1>3
  <2> HIDE DEF e
  <2> QED
    BY <2>1, ExitOf
<1>6. Exit(b, e, s).at \in DOMAIN b
  <2>1. Watched(b, e) \subseteq Ordinals /\ Watched(b, e) \subseteq DOMAIN b
        /\ TouchBars(b, e, s) \subseteq Watched(b, e)
    BY DEF Watched, TouchBars, IsDay
  <2>2. TouchBars(b, e, s) # {} => Earliest(TouchBars(b, e, s)) \in DOMAIN b
    <3> HIDE DEF e
    <3> QED
      BY <2>1, EarliestOf
  <2>3. Watched(b, e) # {} => Latest(Watched(b, e)) \in DOMAIN b
    <3> HIDE DEF e
    <3> QED
      BY <2>1, LatestOf
  <2> HIDE DEF e
  <2> QED
    BY <1>2, <2>2, <2>3 DEF Exit, TouchExit, SquareOff
<1>7. d.entry = e /\ d.exit = Exit(b, e, s) /\ d.state = "armed"
  BY <1>1 DEF Answer
<1> QED
  BY <1>1, <1>2, <1>4, <1>5, <1>6, <1>7

\* Read when all candles have closed, the day shows what is walked onto it.
LEMMA ReadIsProjected ==
  ASSUME NEW b, IsDay(b), NEW n \in Nat, DOMAIN b \subseteq 1..n, side \in Sides, poc2 \in Int,
         HasReference(b)
  PROVE  Read(n, b, EvaluateDay(b, side, poc2)) = Project(b, EvaluateDay(b, side, poc2), n)
<1> DEFINE d == EvaluateDay(b, side, poc2)
<1> SUFFICES Read(n, b, d) = Project(b, d, n)
  OBVIOUS
<1>1. \A m \in DOMAIN b : m <= n
  <2>1. \A m \in 1..n : m <= n
    OBVIOUS
  <2> QED
    BY <2>1
<1>2. CASE d.outcome = "entered"
  <2>1. /\ d.entry.at <= n /\ d.exit.at <= n
        /\ d.exit.kind \in {"stop", "target", "square-off"}
    BY <1>1, <1>2, TradeInDay DEF Window
  <2> HIDE DEF d
  <2> QED
    BY <1>2, <2>1 DEF Read, Project, Position, Evaluated
<1>3. CASE d.outcome # "entered"
  <2>1. CrossBars(b, side, poc2) = {} /\ d.state = UncrossedState(b, side, poc2)
    BY <1>3, AnswerOf DEF Answer
  <2>2. StateBy(b, n) = "armed" <=> d.state = "armed"
    BY <2>1, StateByIsState
  <2> HIDE DEF d
  <2> QED
    BY <1>3, <2>2 DEF Read, Project, Evaluated
<1> QED
  BY <1>2, <1>3

\* One more candle leaves what was walked onto the boundaries before it.
LEMMA StateByStays ==
  ASSUME NEW b, NEW l, NEW k, IsLonger(b, l, k), HasReference(b),
         side \in Sides, poc2 \in Int, NEW n \in Nat, n < k
  PROVE  StateBy(l, n) = StateBy(b, n)
<1>1. IsDay(b) /\ IsDay(l) /\ HasReference(l) /\ k \in Nat
  BY SameReference, LongerGrid DEF IsLonger
<1>2. \A m \in Window(b) : m \in DOMAIN b /\ m \in Ordinals /\ m \in Nat
  BY LongerGrid DEF Window, IsLonger, IsDay
<1>3. ASSUME NEW m \in Nat, m <= n PROVE m \in Trail(l) <=> m \in Trail(b)
  <2>1. m # k /\ m <= k
    BY <1>1, <1>3
  <2>2. m \in Window(l) <=> m \in Window(b)
    BY <2>1, LongerGrid
  <2>3. CASE CrossBars(b, side, poc2) = {} /\ CrossBars(l, side, poc2) = {}
    BY <2>2, <2>3 DEF Trail
  <2>4. CASE CrossBars(b, side, poc2) = {} /\ CrossBars(l, side, poc2) # {}
    <3>1. PICK c \in Window(l) : FirstCross(l, side, poc2, c)
      BY <1>1, <2>4, AnswerOf
    <3>2. Earliest(CrossBars(l, side, poc2)) = k
      BY <1>1, <2>4, <3>1, CrossIsNew, CrossIsEarliest
    <3> QED
      BY <2>1, <2>2, <2>4, <3>2 DEF Trail
  <2>5. CASE CrossBars(b, side, poc2) # {}
    <3>1. PICK c \in Window(b) : FirstCross(b, side, poc2, c)
      BY <1>1, <2>5, AnswerOf
    <3>2. FirstCross(l, side, poc2, c)
      BY <3>1, CrossStays
    <3>3. /\ CrossBars(l, side, poc2) # {}
          /\ Earliest(CrossBars(l, side, poc2)) = Earliest(CrossBars(b, side, poc2))
      BY <1>1, <3>1, <3>2, CrossIsEarliest
    <3> QED
      BY <2>2, <2>5, <3>3 DEF Trail
  <2> QED
    BY <2>3, <2>4, <2>5
<1> DEFINE seen == {m \in Trail(b) : m <= n}
<1>4. {m \in Trail(l) : m <= n} = seen
  <2>1. \A m \in Trail(l) : m \in Nat
    BY LongerGrid DEF Trail, Window
  <2>2. \A m \in Trail(b) : m \in Nat
    BY <1>2 DEF Trail
  <2> QED
    BY <1>3, <2>1, <2>2
<1>5. CASE seen = {}
  <2>1. Reference(l) = Reference(b)
    BY SameReference
  <2> QED
    BY <1>4, <1>5, <2>1 DEF StateBy
<1>6. CASE seen # {}
  <2> DEFINE m == Latest(seen)
  <2>1. m \in seen
    <3>1. seen \subseteq Ordinals
      BY <1>2 DEF Trail
    <3> HIDE DEF seen
    <3> QED
      BY <1>6, <3>1, LatestOf
  <2>2. m \in Nat /\ m <= n
    BY <1>2, <2>1 DEF Trail
  <2>3. StateBy(l, n) = StateAfter(l, m) /\ StateBy(b, n) = StateAfter(b, m)
    <3> HIDE DEF seen
    <3>1. StateBy(b, n) = IF seen # {} THEN StateAfter(b, Latest(seen))
                                       ELSE InitialState(Reference(b), side, poc2)
      BY DEF StateBy, seen
    <3>2. StateBy(l, n) = IF seen # {} THEN StateAfter(l, Latest(seen))
                                       ELSE InitialState(Reference(l), side, poc2)
      BY <1>4 DEF StateBy
    <3> QED
      BY <1>6, <3>1, <3>2
  <2> HIDE DEF m
  <2>4. {x \in DOMAIN l : x <= m} = {x \in DOMAIN b : x <= m}
    <3>1. ~(k <= m)
      BY <1>1, <2>2
    <3> QED
      BY <3>1, LongerGrid DEF IsLonger
  <2>5. [x \in {y \in DOMAIN l : y <= m} |-> l[x]] = [x \in {y \in DOMAIN b : y <= m} |-> b[x]]
    BY <2>4 DEF IsLonger
  <2>6. StateAfter(l, m) = StateAfter(b, m)
    BY <2>5 DEF StateAfter
  <2> QED
    BY <2>3, <2>6
<1> QED
  BY <1>5, <1>6

LEMMA ProjectionStays ==
  ASSUME NEW b, NEW l, NEW k, IsLonger(b, l, k), HasReference(b),
         side \in Sides, poc2 \in Int, NEW n \in Nat, n < k
  PROVE  Project(l, EvaluateDay(l, side, poc2), n) = Project(b, EvaluateDay(b, side, poc2), n)
<1> DEFINE d == EvaluateDay(b, side, poc2)
           d2 == EvaluateDay(l, side, poc2)
<1> SUFFICES Project(l, d2, n) = Project(b, d, n)
  OBVIOUS
<1>1. IsDay(b) /\ IsDay(l) /\ HasReference(l) /\ k \in Nat /\ SquareOffBar \in Nat
  BY SameReference, LongerGrid, GridAssumption DEF IsLonger
<1>2. StateBy(l, n) = StateBy(b, n)
  BY StateByStays
<1>3. StaysOut(d, d2) \/ Opens(d, d2, k) \/ Holds(d, d2, k)
  BY DayStep
<1>4. CASE StaysOut(d, d2)
  <2> HIDE DEF d, d2
  <2> QED
    BY <1>1, <1>2, <1>4 DEF StaysOut, NoTradeYet, Project, Evaluated
<1>5. CASE Opens(d, d2, k)
  <2>1. ~(d2.entry.at <= n)
    BY <1>1, <1>5 DEF Opens
  <2> HIDE DEF d, d2
  <2> QED
    BY <1>1, <1>2, <1>5, <2>1 DEF Opens, NoTradeYet, Project, Evaluated
<1>6. CASE Holds(d, d2, k)
  <2>1. d.exit.at \in DOMAIN b /\ d2.entry = d.entry /\ d.outcome = "entered" /\ d2.outcome = "entered"
    BY <1>1, <1>6, TradeInDay DEF Holds
  <2>2. CASE d2.exit = d.exit
    <3>1. ExitPrice(d2.entry, d2.exit, l) = ExitPrice(d.entry, d.exit, b)
      BY <2>1, <2>2 DEF ExitPrice, IsLonger
    <3> HIDE DEF d, d2
    <3> QED
      BY <1>1, <1>2, <2>1, <2>2, <3>1 DEF Project, Evaluated
  <2>3. CASE d2.exit # d.exit
    <3>1. ~(d.exit.at <= n /\ (d.exit.kind = "square-off" => n >= SquareOffBar))
      BY <1>1, <1>6, <2>3 DEF Holds
    <3>2. ~(d2.exit.at <= n /\ (d2.exit.kind = "square-off" => n >= SquareOffBar))
      BY <1>1, <1>6, <2>3 DEF Holds
    <3> HIDE DEF d, d2
    <3> QED
      BY <1>1, <1>2, <2>1, <3>1, <3>2 DEF Project, Evaluated
  <2> QED
    BY <2>2, <2>3
<1> QED
  BY <1>3, <1>4, <1>5, <1>6

-----------------------------------------------------------------------------
(* What a boundary may do to the state that is shown of a day that has a    *)
(* reference, and what has been told of the state it is in.                 *)

WaitingShown == NoNumbers("waiting")
ArmedShown == NoNumbers("armed")
Holding(e, q) == {Shown("triggered", e, {q}, "none", {}), Shown("in-trade", e, {q}, "none", {})}
Left(e, q, kind, fill) == Shown("exited", e, {q}, kind, {fill})
ExitKinds == {"stop", "target", "square-off"}

StateShown(st) ==
  \/ st \in {WaitingShown, ArmedShown, QtyZero}
  \/ \E e, q : e # NoEntry /\ st \in Holding(e, q)
  \/ \E e, q, kind, fill : e # NoEntry /\ kind \in ExitKinds /\ st = Left(e, q, kind, fill)

Moves(st, st2) ==
  \/ st = WaitingShown /\ st2 = ArmedShown
  \/ st = ArmedShown /\ st2 = QtyZero
  \/ \E e, q : e # NoEntry /\ st = ArmedShown /\ st2 \in Holding(e, q)
  \/ \E e, q, kind, fill :
        e # NoEntry /\ kind \in ExitKinds /\ st \in Holding(e, q) /\ st2 = Left(e, q, kind, fill)

Lasts(st, st2) ==
  \/ st2 = st /\ StateShown(st)
  \/ \E e, q : e # NoEntry /\ st \in Holding(e, q) /\ st2 \in Holding(e, q)

Told(st) ==
  LET armed == Alert("armed", NoEntry, "none")
      trigger == Alert("trigger", st.entry, "none")
  IN  IF st.phase = "exited"
        THEN <<armed, trigger,
               Alert(IF st.exit = "square-off" THEN "square-off" ELSE "exit", st.entry, st.exit)>>
      ELSE IF st.entry # NoEntry THEN <<armed, trigger>>
      ELSE IF st.phase = "armed" \/ st.qty = {0} THEN <<armed>>
      ELSE <<>>

KindsTold(st) ==
  IF st.phase = "exited"
    THEN <<"armed", "trigger", IF st.exit = "square-off" THEN "square-off" ELSE "exit">>
  ELSE IF st.entry # NoEntry THEN <<"armed", "trigger">>
  ELSE IF st.phase = "armed" \/ st.qty = {0} THEN <<"armed">>
  ELSE <<>>

LEMMA ShortSequences ==
  ASSUME NEW a, NEW b, NEW c
  PROVE  /\ <<>> \o <<>> = <<>> /\ <<>> \o <<a>> = <<a>> /\ <<a>> \o <<>> = <<a>>
         /\ <<a>> \o <<b>> = <<a, b>> /\ <<a, b>> \o <<>> = <<a, b>>
         /\ <<a, b>> \o <<c>> = <<a, b, c>> /\ <<a, b, c>> \o <<>> = <<a, b, c>>
<1>1. <<a>> \o <<b>> = <<a, b>>
  <2> DEFINE S == {a, b}
             ab == <<a>> \o <<b>>
  <2>1. <<a>> \in Seq(S) /\ <<b>> \in Seq(S) /\ <<a, b>> \in Seq(S)
    OBVIOUS
  <2>2. ab \in Seq(S) /\ Len(ab) = 2 /\ ab[1] = a /\ ab[2] = b
    BY <2>1, ConcatProperties
  <2>3. \A i \in 1..2 : ab[i] = <<a, b>>[i]
    BY <2>2
  <2> QED
    BY <2>1, <2>2, <2>3, SeqEqual
<1>2. <<a, b>> \o <<c>> = <<a, b, c>>
  <2> DEFINE S == {a, b, c}
             abc == <<a, b>> \o <<c>>
  <2>1. <<a, b>> \in Seq(S) /\ <<c>> \in Seq(S) /\ <<a, b, c>> \in Seq(S)
    OBVIOUS
  <2>2. abc \in Seq(S) /\ Len(abc) = 3 /\ abc[1] = a /\ abc[2] = b /\ abc[3] = c
    BY <2>1, ConcatProperties
  <2>3. \A i \in 1..3 : abc[i] = <<a, b, c>>[i]
    BY <2>2
  <2> QED
    BY <2>1, <2>2, <2>3, SeqEqual
<1>3. /\ <<>> \o <<>> = <<>> /\ <<>> \o <<a>> = <<a>> /\ <<a>> \o <<>> = <<a>>
      /\ <<a, b>> \o <<>> = <<a, b>> /\ <<a, b, c>> \o <<>> = <<a, b, c>>
  OBVIOUS
<1> QED
  BY <1>1, <1>2, <1>3

LEMMA ShortContains ==
  ASSUME NEW a, NEW b, NEW c, NEW x
  PROVE  /\ ~Seqs!Contains(<<>>, x)
         /\ Seqs!Contains(<<a>>, x) <=> x = a
         /\ Seqs!Contains(<<a, b>>, x) <=> x = a \/ x = b
         /\ Seqs!Contains(<<a, b, c>>, x) <=> x = a \/ x = b \/ x = c
<1>1. ~Seqs!Contains(<<>>, x)
  BY DEF Seqs!Contains
<1>2. Seqs!Contains(<<a>>, x) <=> x = a
  BY DEF Seqs!Contains
<1>3. Seqs!Contains(<<a, b>>, x) <=> x = a \/ x = b
  BY DEF Seqs!Contains
<1>4. Seqs!Contains(<<a, b, c>>, x) <=> x = a \/ x = b \/ x = c
  BY DEF Seqs!Contains
<1> QED
  BY <1>1, <1>2, <1>3, <1>4

\* The states and what was told of each.
LEMMA ToldOf ==
  LET armed == Alert("armed", NoEntry, "none")
      trigger(e) == Alert("trigger", e, "none")
      left(e, kind) == Alert(IF kind = "square-off" THEN "square-off" ELSE "exit", e, kind)
  IN /\ Told(WaitingShown) = <<>> /\ KindsTold(WaitingShown) = <<>>
     /\ Told(ArmedShown) = <<armed>> /\ KindsTold(ArmedShown) = <<"armed">>
     /\ Told(QtyZero) = <<armed>> /\ KindsTold(QtyZero) = <<"armed">>
     /\ \A e, q : e # NoEntry => \A st \in Holding(e, q) :
           Told(st) = <<armed, trigger(e)>> /\ KindsTold(st) = <<"armed", "trigger">>
     /\ \A e, q, kind, fill :
           /\ Told(Left(e, q, kind, fill)) = <<armed, trigger(e), left(e, kind)>>
           /\ KindsTold(Left(e, q, kind, fill)) =
                <<"armed", "trigger", IF kind = "square-off" THEN "square-off" ELSE "exit">>
  BY DEF Told, KindsTold, WaitingShown, ArmedShown, QtyZero, Holding, Left, NoNumbers, Shown

LEMMA FieldsShown ==
  /\ WaitingShown.phase = "waiting" /\ WaitingShown.entry = NoEntry
  /\ WaitingShown.exit = "none" /\ WaitingShown.qty = {}
  /\ ArmedShown.phase = "armed" /\ ArmedShown.entry = NoEntry
  /\ ArmedShown.exit = "none" /\ ArmedShown.qty = {}
  /\ QtyZero.phase = "refused" /\ QtyZero.entry = NoEntry
  /\ QtyZero.exit = "none" /\ QtyZero.qty = {0}
  /\ \A e, q : \A st \in Holding(e, q) :
        st.phase \in {"triggered", "in-trade"} /\ st.entry = e /\ st.exit = "none"
  /\ \A e, q, kind, fill :
        /\ Left(e, q, kind, fill).phase = "exited" /\ Left(e, q, kind, fill).entry = e
        /\ Left(e, q, kind, fill).exit = kind
  BY DEF WaitingShown, ArmedShown, QtyZero, Holding, Left, NoNumbers, Shown

\* What a state announces, when the ones before it were told.
LEMMA AnnouncedIs ==
  ASSUME NEW st, NEW told
  PROVE  LET armed == Alert("armed", NoEntry, "none")
             trigger == Alert("trigger", st.entry, "none")
             left == Alert(IF st.exit = "square-off" THEN "square-off" ELSE "exit", st.entry, st.exit)
         IN  Announced(st, told) =
               (IF st.phase = "armed" /\ ~Seqs!Contains(told, armed) THEN <<armed>> ELSE <<>>)
               \o (IF st.phase # "armed" /\ st.entry # NoEntry /\ ~Seqs!Contains(told, trigger)
                     THEN <<trigger>> ELSE <<>>)
               \o (IF st.phase = "exited" /\ ~Seqs!Contains(told, left) THEN <<left>> ELSE <<>>)
  BY DEF Announced, Once

LEMMA AnnouncedBefore ==
  ASSUME NEW st
  PROVE  LET armed == Alert("armed", NoEntry, "none")
         IN /\ st.phase \notin {"armed", "exited"} /\ st.entry = NoEntry =>
                 \A told : Announced(st, told) = <<>>
            /\ st.phase = "armed" =>
                 Announced(st, <<>>) = <<armed>> /\ Announced(st, <<armed>>) = <<>>
<1> DEFINE armed == Alert("armed", NoEntry, "none")
<1> HIDE DEF armed
<1>1. ~Seqs!Contains(<<>>, armed) /\ Seqs!Contains(<<armed>>, armed)
  BY ShortContains
<1>2. st.phase = "armed" =>
         Announced(st, <<>>) = <<armed>> /\ Announced(st, <<armed>>) = <<>>
  BY <1>1, AnnouncedIs, ShortSequences DEF armed
<1>3. st.phase \notin {"armed", "exited"} /\ st.entry = NoEntry =>
         \A told : Announced(st, told) = <<>>
  BY AnnouncedIs, ShortSequences
<1> QED
  BY <1>2, <1>3 DEF armed

LEMMA AnnouncedOnce ==
  ASSUME NEW st, st.entry # NoEntry
  PROVE  LET armed == Alert("armed", NoEntry, "none")
             trigger == Alert("trigger", st.entry, "none")
             left == Alert(IF st.exit = "square-off" THEN "square-off" ELSE "exit", st.entry, st.exit)
         IN /\ st.phase \notin {"armed", "exited"} =>
                 /\ Announced(st, <<armed>>) = <<trigger>>
                 /\ Announced(st, <<armed, trigger>>) = <<>>
            /\ st.phase = "exited" =>
                 /\ Announced(st, <<armed, trigger>>) = <<left>>
                 /\ Announced(st, <<armed, trigger, left>>) = <<>>
<1> DEFINE armed == Alert("armed", NoEntry, "none")
           trigger == Alert("trigger", st.entry, "none")
           left == Alert(IF st.exit = "square-off" THEN "square-off" ELSE "exit", st.entry, st.exit)
<1>1. armed # trigger /\ armed # left /\ trigger # left
  BY DEF Alert
<1>2. \A told : Announced(st, told) =
        (IF st.phase = "armed" /\ ~Seqs!Contains(told, armed) THEN <<armed>> ELSE <<>>)
        \o (IF st.phase # "armed" /\ st.entry # NoEntry /\ ~Seqs!Contains(told, trigger)
              THEN <<trigger>> ELSE <<>>)
        \o (IF st.phase = "exited" /\ ~Seqs!Contains(told, left) THEN <<left>> ELSE <<>>)
  BY AnnouncedIs
<1> HIDE DEF armed, trigger, left
<1>3. st.phase \notin {"armed", "exited"} =>
        /\ Announced(st, <<armed>>) = <<trigger>>
        /\ Announced(st, <<armed, trigger>>) = <<>>
  <2>1. ~Seqs!Contains(<<armed>>, trigger) /\ Seqs!Contains(<<armed, trigger>>, trigger)
    BY <1>1, ShortContains
  <2> QED
    BY <1>2, <2>1, ShortSequences
<1>4. st.phase = "exited" =>
        /\ Announced(st, <<armed, trigger>>) = <<left>>
        /\ Announced(st, <<armed, trigger, left>>) = <<>>
  <2>1. /\ Seqs!Contains(<<armed, trigger>>, trigger) /\ ~Seqs!Contains(<<armed, trigger>>, left)
        /\ Seqs!Contains(<<armed, trigger, left>>, trigger)
        /\ Seqs!Contains(<<armed, trigger, left>>, left)
    BY <1>1, ShortContains
  <2> QED
    BY <1>2, <2>1, ShortSequences
<1> QED
  BY <1>3, <1>4 DEF armed, trigger, left

\* What the harness counts of a state, when the ones before it were counted.
LEMMA OwedOnce ==
  ASSUME NEW st, NEW kinds
  PROVE  LET out == IF st.exit = "square-off" THEN "square-off" ELSE "exit"
         IN /\ st.phase # "armed" /\ st.entry = NoEntry /\ st.exit = "none"
                 /\ kinds \in {<<>>, <<"armed">>} => WithOwed(kinds, st) = kinds
            /\ st.phase = "armed" /\ st.entry = NoEntry /\ st.exit = "none"
                 /\ kinds \in {<<>>, <<"armed">>} => WithOwed(kinds, st) = <<"armed">>
            /\ st.phase # "armed" /\ st.entry # NoEntry /\ st.exit = "none"
                 /\ kinds \in {<<"armed">>, <<"armed", "trigger">>}
                 => WithOwed(kinds, st) = <<"armed", "trigger">>
            /\ st.phase # "armed" /\ st.entry # NoEntry /\ st.exit # "none"
                 /\ kinds \in {<<"armed", "trigger">>, <<"armed", "trigger", out>>}
                 => WithOwed(kinds, st) = <<"armed", "trigger", out>>
<1> DEFINE out == IF st.exit = "square-off" THEN "square-off" ELSE "exit"
<1>1. out # "armed" /\ out # "trigger"
  OBVIOUS
<1>2. WithOwed(kinds, st) =
        kinds \o (IF st.phase = "armed" /\ ~Seqs!Contains(kinds, "armed") THEN <<"armed">> ELSE <<>>)
              \o (IF st.entry # NoEntry /\ ~Seqs!Contains(kinds, "trigger") THEN <<"trigger">> ELSE <<>>)
              \o (IF st.exit # "none" /\ ~Seqs!Contains(kinds, out) THEN <<out>> ELSE <<>>)
  BY DEF WithOwed, Once
<1> HIDE DEF out
<1>3. st.phase # "armed" /\ st.entry = NoEntry /\ st.exit = "none" /\ kinds \in {<<>>, <<"armed">>}
        => WithOwed(kinds, st) = kinds
  BY <1>2, ShortSequences
<1>4. st.phase = "armed" /\ st.entry = NoEntry /\ st.exit = "none" /\ kinds \in {<<>>, <<"armed">>}
        => WithOwed(kinds, st) = <<"armed">>
  <2>1. ~Seqs!Contains(<<>>, "armed") /\ Seqs!Contains(<<"armed">>, "armed")
    BY ShortContains
  <2> QED
    BY <1>2, <2>1, ShortSequences
<1>5. st.phase # "armed" /\ st.entry # NoEntry /\ st.exit = "none"
        /\ kinds \in {<<"armed">>, <<"armed", "trigger">>}
        => WithOwed(kinds, st) = <<"armed", "trigger">>
  <2>1. ~Seqs!Contains(<<"armed">>, "trigger") /\ Seqs!Contains(<<"armed", "trigger">>, "trigger")
    BY ShortContains
  <2> QED
    BY <1>2, <2>1, ShortSequences
<1>6. ASSUME st.phase # "armed", st.entry # NoEntry, st.exit # "none",
             kinds \in {<<"armed", "trigger">>, <<"armed", "trigger", out>>}
      PROVE  WithOwed(kinds, st) = <<"armed", "trigger", out>>
  <2>1. Seqs!Contains(<<"armed", "trigger">>, "trigger")
    BY ShortContains
  <2>2. ~Seqs!Contains(<<"armed", "trigger">>, out)
    BY <1>1, ShortContains
  <2>3. Seqs!Contains(<<"armed", "trigger", out>>, "trigger")
    BY ShortContains
  <2>4. Seqs!Contains(<<"armed", "trigger", out>>, out)
    BY ShortContains
  <2>5. CASE kinds = <<"armed", "trigger">>
    <3>1. WithOwed(kinds, st) = <<"armed", "trigger">> \o <<>> \o <<>> \o <<out>>
      BY <1>2, <1>6, <2>1, <2>2, <2>5
    <3> QED
      BY <3>1, ShortSequences
  <2>6. CASE kinds = <<"armed", "trigger", out>>
    <3>1. WithOwed(kinds, st) = <<"armed", "trigger", out>> \o <<>> \o <<>> \o <<>>
      BY <1>2, <1>6, <2>3, <2>4, <2>6
    <3> QED
      BY <3>1, ShortSequences
  <2> QED
    BY <1>6, <2>5, <2>6
<1> QED
  BY <1>3, <1>4, <1>5, <1>6 DEF out

\* Every step of the shown state is announced, once.
LEMMA StepsAreTold ==
  ASSUME NEW st, NEW st2, Moves(st, st2) \/ Lasts(st, st2)
  PROVE  /\ Told(st2) = Told(st) \o Announced(st2, Told(st))
         /\ KindsTold(st2) = WithOwed(KindsTold(st), st2)
<1> DEFINE Goal == /\ Told(st2) = Told(st) \o Announced(st2, Told(st))
                   /\ KindsTold(st2) = WithOwed(KindsTold(st), st2)
           armed == Alert("armed", NoEntry, "none")
<1>1. CASE st2 = WaitingShown /\ st = WaitingShown
  <2>1. Announced(st2, <<>>) = <<>>
    BY <1>1, FieldsShown, AnnouncedBefore
  <2>2. WithOwed(<<>>, st2) = <<>>
    BY <1>1, FieldsShown, OwedOnce
  <2> QED
    BY <1>1, <2>1, <2>2, ToldOf, ShortSequences
<1>2. CASE st2 = ArmedShown /\ st \in {WaitingShown, ArmedShown}
  <2>1. Announced(st2, <<>>) = <<armed>> /\ Announced(st2, <<armed>>) = <<>>
    BY <1>2, FieldsShown, AnnouncedBefore
  <2>2. WithOwed(<<>>, st2) = <<"armed">> /\ WithOwed(<<"armed">>, st2) = <<"armed">>
    BY <1>2, FieldsShown, OwedOnce
  <2> QED
    BY <1>2, <2>1, <2>2, ToldOf, ShortSequences
<1>3. CASE st2 = QtyZero /\ st \in {ArmedShown, QtyZero}
  <2>1. Announced(st2, <<armed>>) = <<>>
    BY <1>3, FieldsShown, AnnouncedBefore
  <2>2. WithOwed(<<"armed">>, st2) = <<"armed">>
    BY <1>3, FieldsShown, OwedOnce
  <2> QED
    BY <1>3, <2>1, <2>2, ToldOf, ShortSequences
<1>4. ASSUME NEW e, NEW q, e # NoEntry, st2 \in Holding(e, q), st = ArmedShown \/ st \in Holding(e, q)
      PROVE  Goal
  <2> DEFINE trigger == Alert("trigger", e, "none")
  <2>1. st2.phase \in {"triggered", "in-trade"} /\ st2.entry = e /\ st2.exit = "none"
    BY <1>4, FieldsShown
  <2>2. Announced(st2, <<armed>>) = <<trigger>> /\ Announced(st2, <<armed, trigger>>) = <<>>
    BY <1>4, <2>1, AnnouncedOnce
  <2>3. \A kinds \in {<<"armed">>, <<"armed", "trigger">>} : WithOwed(kinds, st2) = <<"armed", "trigger">>
    BY <1>4, <2>1, OwedOnce
  <2>4. Told(st2) = <<armed, trigger>> /\ KindsTold(st2) = <<"armed", "trigger">>
    BY <1>4, ToldOf
  <2>5. \/ Told(st) = <<armed>> /\ KindsTold(st) = <<"armed">>
        \/ Told(st) = <<armed, trigger>> /\ KindsTold(st) = <<"armed", "trigger">>
    BY <1>4, ToldOf
  <2> HIDE DEF armed, trigger
  <2> QED
    BY <2>2, <2>3, <2>4, <2>5, ShortSequences
<1>5. ASSUME NEW e, NEW q, NEW kind \in ExitKinds, NEW fill, e # NoEntry, st2 = Left(e, q, kind, fill),
             st \in Holding(e, q) \/ st = st2
      PROVE  Goal
  <2> DEFINE trigger == Alert("trigger", e, "none")
             out == IF kind = "square-off" THEN "square-off" ELSE "exit"
             left == Alert(out, e, kind)
  <2>1. st2.phase = "exited" /\ st2.entry = e /\ st2.exit = kind /\ kind # "none"
    BY <1>5, FieldsShown DEF ExitKinds
  <2>2. Announced(st2, <<armed, trigger>>) = <<left>> /\ Announced(st2, <<armed, trigger, left>>) = <<>>
    BY <1>5, <2>1, AnnouncedOnce
  <2>3. \A kinds \in {<<"armed", "trigger">>, <<"armed", "trigger", out>>} :
           WithOwed(kinds, st2) = <<"armed", "trigger", out>>
    BY <1>5, <2>1, OwedOnce
  <2>4. Told(st2) = <<armed, trigger, left>> /\ KindsTold(st2) = <<"armed", "trigger", out>>
    BY <1>5, ToldOf
  <2>5. \/ Told(st) = <<armed, trigger>> /\ KindsTold(st) = <<"armed", "trigger">>
        \/ Told(st) = <<armed, trigger, left>> /\ KindsTold(st) = <<"armed", "trigger", out>>
    BY <1>5, <2>4, ToldOf
  <2> HIDE DEF armed, trigger, left, out
  <2>6. CASE Told(st) = <<armed, trigger>> /\ KindsTold(st) = <<"armed", "trigger">>
    <3>1. <<armed, trigger>> \o <<left>> = <<armed, trigger, left>>
      BY ShortSequences
    <3> QED
      BY <2>2, <2>3, <2>4, <2>6, <3>1
  <2>7. CASE Told(st) = <<armed, trigger, left>> /\ KindsTold(st) = <<"armed", "trigger", out>>
    BY <2>2, <2>3, <2>4, <2>7, ShortSequences
  <2> QED
    BY <2>5, <2>6, <2>7
<1> HIDE DEF Goal
<1>6. Goal
  BY <1>1, <1>2, <1>3, <1>4, <1>5 DEF Moves, Lasts, StateShown, Goal
<1> QED
  BY <1>6 DEF Goal

LEMMA NothingNewIsTold ==
  ASSUME NEW st, NEW st2, Lasts(st, st2)
  PROVE  Told(st2) = Told(st) /\ KindsTold(st2) = KindsTold(st)
  BY ToldOf DEF Lasts

LEMMA KindsOfTold ==
  ASSUME NEW st, StateShown(st)
  PROVE  [i \in DOMAIN Told(st) |-> Told(st)[i].kind] = KindsTold(st)
<1> DEFINE kinds(t) == [i \in DOMAIN t |-> t[i].kind]
<1>1. \A a, b, c : /\ kinds(<<a>>) = <<a.kind>> /\ kinds(<<a, b>>) = <<a.kind, b.kind>>
                   /\ kinds(<<a, b, c>>) = <<a.kind, b.kind, c.kind>>
  OBVIOUS
<1>2. kinds(<<>>) = <<>>
  OBVIOUS
<1>3. \A kind, e, x : Alert(kind, e, x).kind = kind
  BY DEF Alert
<1> HIDE DEF kinds
<1>4. CASE st \in {WaitingShown, ArmedShown, QtyZero}
  <2>1. CASE st = WaitingShown
    BY <1>2, <2>1, ToldOf
  <2>2. CASE st \in {ArmedShown, QtyZero}
    <3>1. Told(st) = <<Alert("armed", NoEntry, "none")>> /\ KindsTold(st) = <<"armed">>
      BY <2>2, ToldOf
    <3> QED
      BY <1>1, <1>3, <3>1
  <2> QED
    BY <1>4, <2>1, <2>2
<1>5. ASSUME NEW e, NEW q, e # NoEntry, st \in Holding(e, q) PROVE kinds(Told(st)) = KindsTold(st)
  BY <1>1, <1>3, <1>5, ToldOf
<1>6. ASSUME NEW e, NEW q, NEW kind, NEW fill, st = Left(e, q, kind, fill)
      PROVE  kinds(Told(st)) = KindsTold(st)
  BY <1>1, <1>3, <1>6, ToldOf
<1>7. kinds(Told(st)) = KindsTold(st)
  BY <1>4, <1>5, <1>6 DEF StateShown, kinds
<1> QED
  BY <1>7 DEF kinds

\* The state never walks back, so the live half keeps what it reads.
LEMMA StepsAreKept ==
  ASSUME NEW st, NEW st2, Moves(st, st2) \/ Lasts(st, st2)
  PROVE  /\ Kept(st2, st) = st2
         /\ st.phase = "refused" => st2 = st
         /\ StateShown(st2)
<1>1. /\ Reached(WaitingShown) = 0 /\ Reached(ArmedShown) = 1 /\ Reached(QtyZero) = 1
      /\ \A e, q : e # NoEntry => \A x \in Holding(e, q) : Reached(x) = 2
      /\ \A e, q, kind, fill : kind \in ExitKinds => Reached(Left(e, q, kind, fill)) = 3
  BY FieldsShown DEF Reached, ExitKinds
<1>2. Reached(st) \in 0..3 /\ Reached(st2) \in 0..3 /\ Reached(st2) >= Reached(st)
  BY <1>1 DEF Moves, Lasts, StateShown
<1>3. st.phase = "refused" => st2 = st
  BY FieldsShown DEF Moves, Lasts
<1>4. StateShown(st2)
  BY DEF Moves, Lasts, StateShown
<1> QED
  BY <1>2, <1>3, <1>4 DEF Kept

LEMMA ReadSteps ==
  ASSUME NEW b, NEW l, NEW k, IsLonger(b, l, k), HasReference(b), side \in Sides, poc2 \in Int
  PROVE  LET st == Read(k - 1, b, EvaluateDay(b, side, poc2))
             st2 == Read(k, l, EvaluateDay(l, side, poc2))
         IN (Moves(st, st2) /\ k <= SquareOffBar) \/ Lasts(st, st2)
<1> DEFINE d == EvaluateDay(b, side, poc2)
           d2 == EvaluateDay(l, side, poc2)
           st == Read(k - 1, b, d)
           st2 == Read(k, l, d2)
           Goal == (Moves(st, st2) /\ k <= SquareOffBar) \/ Lasts(st, st2)
<1> SUFFICES Goal
  OBVIOUS
<1>1. IsDay(b) /\ IsDay(l) /\ HasReference(l) /\ k \in Nat /\ SquareOffBar \in Nat
  BY SameReference, LongerGrid, GridAssumption DEF IsLonger
<1>2. StaysOut(d, d2) \/ Opens(d, d2, k) \/ Holds(d, d2, k)
  BY DayStep
<1>3. CASE StaysOut(d, d2)
  <2>1. d.state = UncrossedState(b, side, poc2) /\ d2.state = UncrossedState(l, side, poc2)
    BY <1>1, <1>3, AnswerOf DEF StaysOut, NoTradeYet, Answer
  <2>2. ASSUME d2.state = "armed", d.state # "armed" PROVE k <= SquareOffBar
    <3>1. Reference(l) = Reference(b)
      BY SameReference
    <3>2. ASSUME ~(k <= LastTriggerBar) PROVE FALSE
      <4>1. Window(l) = Window(b)
        BY <3>2, LongerGrid DEF Window
      <4>2. ArmedBefore(l, side, poc2, LastTriggerBar + 1)
              <=> ArmedBefore(b, side, poc2, LastTriggerBar + 1)
        BY <3>1, <4>1 DEF ArmedBefore, ClosesOn, Window, IsLonger
      <4> QED
        BY <2>1, <2>2, <4>2, UncrossedIsArmed
    <3> QED
      BY <1>1, <3>2, GridAssumption
  <2>3. /\ st = IF d.state = "armed" THEN ArmedShown ELSE WaitingShown
        /\ st2 = IF d2.state = "armed" THEN ArmedShown ELSE WaitingShown
    <3> HIDE DEF d, d2
    <3> QED
      BY <1>3 DEF StaysOut, NoTradeYet, Read, ArmedShown, WaitingShown
  <2>4. d.state = "armed" => d2.state = "armed"
    BY <1>3 DEF StaysOut
  <2> HIDE DEF d, d2, st, st2
  <2> QED
    BY <2>2, <2>3, <2>4 DEF Moves, Lasts, StateShown
<1>4. CASE Opens(d, d2, k)
  <2>1. d2.entry # NoEntry /\ k <= SquareOffBar /\ ~(k >= SquareOffBar)
    BY <1>1, <1>4, TradeInDay DEF Opens
  <2>2. st = ArmedShown
    <3> HIDE DEF d, d2
    <3> QED
      BY <1>4 DEF Opens, NoTradeYet, Read, ArmedShown
  <2>3. CASE Qty(d2.entry) = 0
    <3>1. st2 = QtyZero
      <4> HIDE DEF d, d2
      <4> QED
        BY <1>4, <2>3 DEF Opens, Read
    <3> QED
      BY <2>1, <2>2, <3>1 DEF Moves
  <2>4. CASE Qty(d2.entry) # 0
    <3>1. st2 = Shown("triggered", d2.entry, {Qty(d2.entry)}, "none", {})
      <4> HIDE DEF d, d2
      <4> QED
        BY <1>4, <2>1, <2>4 DEF Opens, Read, Position
    <3>2. st2 \in Holding(d2.entry, Qty(d2.entry))
      BY <3>1 DEF Holding
    <3> QED
      BY <2>1, <2>2, <3>2 DEF Moves
  <2> QED
    BY <2>3, <2>4
<1>5. CASE Holds(d, d2, k)
  <2> DEFINE e == d.entry
             q == Qty(d.entry)
             out == d.exit.kind # "square-off" \/ k - 1 >= SquareOffBar
             out2 == d2.exit.kind # "square-off" \/ k >= SquareOffBar
  <2>1. /\ d.outcome = "entered" /\ d2.outcome = "entered" /\ d2.entry = e /\ e # NoEntry
        /\ d.exit.at \in DOMAIN b /\ d.exit.kind \in ExitKinds /\ d2.exit.kind \in ExitKinds
    BY <1>1, <1>5, TradeInDay DEF Holds, ExitKinds
  <2>2. CASE q = 0
    <3>1. st = QtyZero /\ st2 = QtyZero
      <4> HIDE DEF d, d2
      <4> QED
        BY <2>1, <2>2 DEF Read
    <3> QED
      BY <3>1 DEF Lasts, StateShown
  <2>3. CASE q # 0 /\ out
    <3>1. d2.exit = d.exit /\ out2
      BY <1>1, <1>5, <2>3 DEF Holds
    <3>2. ExitPrice(e, d2.exit, l) = ExitPrice(e, d.exit, b)
      BY <2>1, <3>1 DEF ExitPrice, IsLonger
    <3>3. /\ st = Left(e, q, d.exit.kind, ExitPrice(e, d.exit, b))
          /\ st2 = Left(e, q, d2.exit.kind, ExitPrice(e, d2.exit, l))
      <4> HIDE DEF d, d2
      <4> QED
        BY <2>1, <2>3, <3>1 DEF Read, Position, Left
    <3>4. st2 = st
      BY <3>1, <3>2, <3>3
    <3> HIDE DEF st, st2, e, q
    <3> QED
      BY <2>1, <3>3, <3>4 DEF Lasts, StateShown
  <2>4. CASE q # 0 /\ ~out
    <3>1. k <= SquareOffBar
      BY <1>1, <2>4
    <3>2. st \in Holding(e, q)
      <4> HIDE DEF d, d2
      <4> QED
        BY <2>1, <2>4 DEF Read, Position, Holding
    <3>3. CASE out2
      <4>1. st2 = Left(e, q, d2.exit.kind, ExitPrice(e, d2.exit, l))
        <5> HIDE DEF d, d2
        <5> QED
          BY <2>1, <2>4, <3>3 DEF Read, Position, Left
      <4> HIDE DEF st, st2, e, q
      <4> QED
        BY <2>1, <3>1, <3>2, <4>1 DEF Moves
    <3>4. CASE ~out2
      <4>1. st2 \in Holding(e, q)
        <5> HIDE DEF d, d2
        <5> QED
          BY <2>1, <2>4, <3>4 DEF Read, Position, Holding
      <4> HIDE DEF st, st2, e, q
      <4> QED
        BY <2>1, <3>2, <4>1 DEF Lasts
    <3> QED
      BY <3>3, <3>4
  <2> QED
    BY <2>2, <2>3, <2>4
<1> QED
  BY <1>2, <1>3, <1>4, <1>5

-----------------------------------------------------------------------------
(* The two halves of the parity harness, boundary by boundary.              *)

Taken == 1..(now - ReferenceBar + 1)
Boundary(i) == ReferenceBar + i - 1

\* A boundary of a day that has a reference: it shows what the whole day so
\* far has for it, and its alerts are the ones owed since the boundary before.
IsOwed(i) ==
  /\ captured[i] = Project(bars, today, Boundary(i))
  /\ KindsTold(captured[i]) =
       WithOwed(IF i = 1 THEN <<>> ELSE KindsTold(captured[i - 1]), captured[i])

\* A boundary of a day without one.
IsRefused(i) ==
  captured[i] = NoNumbers(IF \A m \in DOMAIN bars : Boundary(i) < m THEN "waiting" ELSE "refused")

ParityInv ==
  /\ TypeOK
  /\ captured = [i \in Taken |-> captured[i]]
  /\ captured[now - ReferenceBar + 1] = shown
  /\ HasReference(bars) =>
       /\ shown = Read(now, bars, today) /\ StateShown(shown)
       /\ delivered = Told(shown)
       /\ \A i \in Taken : IsOwed(i)
  /\ ~HasReference(bars) =>
       /\ delivered = <<>>
       /\ \A i \in Taken : IsRefused(i)

LEMMA Appended ==
  ASSUME NEW n \in Nat, NEW c, c = [i \in 1..n |-> c[i]], NEW x
  PROVE  /\ Append(c, x) = [i \in 1..(n + 1) |-> Append(c, x)[i]]
         /\ \A i \in 1..n : Append(c, x)[i] = c[i]
         /\ Append(c, x)[n + 1] = x
<1> DEFINE S == {c[i] : i \in 1..n} \cup {x}
<1>1. c \in Seq(S) /\ Len(c) = n /\ x \in S
  <2>1. c \in [1..n -> S]
    OBVIOUS
  <2> QED
    BY <2>1
<1> HIDE DEF S
<1> QED
  BY <1>1, AppendProperties

LEMMA NoEarlyBar ==
  ASSUME NEW b, IsDay(b), ~HasReference(b)
  PROVE  \A m \in DOMAIN b : m \in Nat /\ ReferenceBar < m
  BY GridAssumption DEF HasReference, EarlyBars, IsDay, Ordinals

LEMMA MorningShown ==
  ASSUME Init, HasReference(bars)
  PROVE  /\ Evaluate(WaitingShown, now, bars, today) = Read(now, bars, today)
         /\ Moves(WaitingShown, Read(now, bars, today)) \/ Lasts(WaitingShown, Read(now, bars, today))
         /\ Read(now, bars, today) \in {WaitingShown, ArmedShown}
<1> DEFINE st == Read(now, bars, today)
<1>1. NoTradeYet(today)
  BY MorningHasNoTrade
<1>2. st \in {WaitingShown, ArmedShown}
  BY <1>1 DEF NoTradeYet, Read, WaitingShown, ArmedShown
<1>3. Moves(WaitingShown, st) \/ Lasts(WaitingShown, st)
  BY <1>2 DEF Moves, Lasts, StateShown
<1>4. DOMAIN bars # {}
  BY DEF HasReference, EarlyBars
<1> HIDE DEF st
<1>5. Kept(st, WaitingShown) = st
  BY <1>3, StepsAreKept
<1> QED
  BY <1>2, <1>3, <1>4, <1>5, FieldsShown DEF Evaluate, Evaluated, WaitingShown, st

LEMMA ParityInitInv == ParityInit => ParityInv
<1> SUFFICES ASSUME ParityInit PROVE ParityInv
  OBVIOUS
<1>1. /\ TypeOK /\ IsDay(bars) /\ poc2 \in Int /\ side \in Sides
      /\ now = ReferenceBar /\ now \in Nat /\ today = EvaluateDay(bars, side, poc2)
  BY DayInit, DaysSoFar, GridAssumption DEF ParityInit, Init, TypeOK
<1>2. now - ReferenceBar + 1 = 1 /\ Taken = {1} /\ Boundary(1) = now
  BY <1>1 DEF Taken, Boundary
<1>3. captured = [i \in Taken |-> captured[i]] /\ captured[1] = shown
  BY <1>2 DEF ParityInit
<1>4. CASE HasReference(bars)
  <2>1. shown = Read(now, bars, today) /\ shown \in {WaitingShown, ArmedShown}
    <3>1. Init /\ shown = Evaluate(WaitingShown, now, bars, today)
      BY DEF ParityInit, WaitingShown
    <3> QED
      BY <1>4, <3>1, MorningShown
  <2>2. StateShown(shown) /\ KindsTold(shown) = WithOwed(KindsTold(WaitingShown), shown)
    <3>1. Init
      BY DEF ParityInit
    <3>2. Moves(WaitingShown, shown) \/ Lasts(WaitingShown, shown)
      BY <1>4, <2>1, <3>1, MorningShown
    <3> QED
      BY <3>2, StepsAreKept, StepsAreTold
  <2>3. delivered = Told(shown)
    BY <2>1, FieldsShown, AnnouncedBefore, ToldOf DEF ParityInit
  <2>4. IsOwed(1)
    <3>1. shown = Project(bars, today, now)
      BY <1>1, <1>4, <2>1, ReadIsProjected DEF TypeOK
    <3> QED
      BY <1>2, <1>3, <2>2, <3>1, ToldOf DEF IsOwed
  <2> QED
    BY <1>1, <1>2, <1>3, <1>4, <2>1, <2>2, <2>3, <2>4 DEF ParityInv
<1>5. CASE ~HasReference(bars)
  <2>1. DOMAIN bars = {}
    <3>1. \A m \in DOMAIN bars : m <= ReferenceBar
      BY <1>1 DEF TypeOK
    <3>2. \A m \in DOMAIN bars : m \in Nat /\ ReferenceBar < m
      BY <1>1, <1>5, NoEarlyBar
    <3>3. \A m \in Nat : ~(m <= ReferenceBar /\ ReferenceBar < m)
      BY <1>1
    <3> QED
      BY <3>1, <3>2, <3>3
  <2>2. shown = WaitingShown
    BY <2>1, FieldsShown DEF ParityInit, Evaluate, WaitingShown
  <2>3. delivered = <<>>
    BY <2>2, FieldsShown, AnnouncedBefore DEF ParityInit
  <2>4. IsRefused(1)
    BY <1>3, <2>1, <2>2 DEF IsRefused, WaitingShown
  <2> QED
    BY <1>1, <1>2, <1>3, <1>5, <2>3, <2>4 DEF ParityInv
<1> QED
  BY <1>4, <1>5

\* A sweep of a day that has a reference.
LEMMA SweepShown ==
  ASSUME ParityInv, Sweep, HasReference(bars)
  PROVE  /\ HasReference(bars')
         /\ shown' = Read(now', bars', today')
         /\ (Moves(shown, shown') /\ now' <= SquareOffBar) \/ Lasts(shown, shown')
         /\ delivered' = Told(shown')
<1> DEFINE st2 == Read(now', bars', today')
<1>1. /\ IsLonger(bars, bars', now + 1) /\ now' = now + 1 /\ (now + 1) - 1 = now
      /\ side \in Sides /\ poc2 \in Int
      /\ today = EvaluateDay(bars, side, poc2) /\ today' = EvaluateDay(bars', side, poc2)
  BY CloseIsLonger, DaysSoFar DEF ParityInv, Sweep, TypeOK, CloseCandle
<1>2. HasReference(bars') /\ DOMAIN bars' # {}
  BY <1>1, SameReference DEF HasReference, EarlyBars
<1>3. shown = Read(now, bars, today) /\ delivered = Told(shown)
  BY DEF ParityInv
<1>4. (Moves(shown, st2) /\ now' <= SquareOffBar) \/ Lasts(shown, st2)
  <2>1. LET st == Read((now + 1) - 1, bars, EvaluateDay(bars, side, poc2))
            st3 == Read(now + 1, bars', EvaluateDay(bars', side, poc2))
        IN  (Moves(st, st3) /\ now + 1 <= SquareOffBar) \/ Lasts(st, st3)
    BY <1>1, ReadSteps
  <2> QED
    BY <1>1, <1>3, <2>1
<1> HIDE DEF st2
<1>5. Kept(st2, shown) = st2 /\ (shown.phase = "refused" => st2 = shown)
  BY <1>4, StepsAreKept
<1>6. shown' = st2
  <2>1. shown' = Evaluate(shown, now', bars', today')
    BY DEF Sweep
  <2> QED
    BY <1>2, <1>5, <2>1 DEF Evaluate, Evaluated, st2
<1>7. delivered' = Told(st2)
  <2>1. CASE now' = SessionBars
    <3>1. ~(now' <= SquareOffBar)
      BY <2>1, PollAssumption, GridAssumption
    <3>2. Told(st2) = Told(shown)
      BY <1>4, <3>1, NothingNewIsTold
    <3> QED
      BY <1>3, <2>1, <3>2 DEF Sweep
  <2>2. CASE now' # SessionBars
    <3>1. delivered' = delivered \o Announced(shown', delivered)
      BY <2>2 DEF Sweep
    <3> QED
      BY <1>3, <1>4, <1>6, <3>1, StepsAreTold
  <2> QED
    BY <2>1, <2>2
<1> QED
  BY <1>2, <1>4, <1>6, <1>7 DEF st2

\* What run_live noted before stays, and the new boundary comes after it.
LEMMA SweepTaken ==
  ASSUME ParityInv, Sweep
  PROVE  /\ now \in Nat /\ now' = now + 1 /\ now' \in Nat
         /\ now - ReferenceBar + 1 \in Nat /\ 1 <= now - ReferenceBar + 1
         /\ now' - ReferenceBar + 1 = (now - ReferenceBar + 1) + 1
         /\ captured' = [i \in 1..(now' - ReferenceBar + 1) |-> captured'[i]]
         /\ \A i \in Taken : captured'[i] = captured[i]
         /\ captured'[now' - ReferenceBar + 1] = shown'
         /\ Boundary(now' - ReferenceBar + 1) = now'
         /\ \A i \in Taken : Boundary(i) \in Nat /\ Boundary(i) < now + 1
<1>1. /\ now \in Nat /\ ReferenceBar <= now /\ ReferenceBar \in Nat /\ 1 <= ReferenceBar
      /\ now' = now + 1
  BY DaysSoFar, GridAssumption DEF ParityInv, Sweep, CloseCandle
<1> DEFINE n == now - ReferenceBar + 1
<1>2. /\ n \in Nat /\ 1 <= n /\ now' \in Nat /\ now' - ReferenceBar + 1 = n + 1
      /\ Boundary(n + 1) = now'
      /\ \A i \in 1..n : Boundary(i) \in Nat /\ Boundary(i) < now + 1
  BY <1>1 DEF Boundary
<1>3. captured = [i \in 1..n |-> captured[i]] /\ captured' = Append(captured, shown')
  BY DEF ParityInv, Taken, Sweep
<1> HIDE DEF n
<1>4. /\ captured' = [i \in 1..(n + 1) |-> captured'[i]]
      /\ \A i \in 1..n : captured'[i] = captured[i]
      /\ captured'[n + 1] = shown'
  BY <1>2, <1>3, Appended
<1> QED
  BY <1>1, <1>2, <1>4 DEF n, Taken

LEMMA SweepKeepsInv == ParityInv /\ Sweep => ParityInv'
<1> SUFFICES ASSUME ParityInv, Sweep PROVE ParityInv'
  OBVIOUS
<1>0. PICK n \in Nat : n = now - ReferenceBar + 1
  BY SweepTaken
<1>1. /\ IsLonger(bars, bars', now + 1) /\ TypeOK /\ TypeOK' /\ side \in Sides /\ poc2 \in Int
      /\ side' = side /\ poc2' = poc2 /\ IsDay(bars) /\ IsDay(bars')
      /\ today = EvaluateDay(bars, side, poc2) /\ today' = EvaluateDay(bars', side, poc2)
  BY CloseIsLonger, DaysSoFar DEF ParityInv, Sweep, TypeOK, CloseCandle, IsLonger
<1>2. /\ now \in Nat /\ now' = now + 1 /\ now' \in Nat /\ n \in Nat /\ 1 <= n
      /\ Taken = 1..n /\ Taken' = 1..(n + 1) /\ now' - ReferenceBar + 1 = n + 1
      /\ captured' = [i \in Taken' |-> captured'[i]]
      /\ captured[n] = shown /\ captured'[n + 1] = shown'
      /\ Boundary(n + 1) = now'
      /\ \A i \in 1..n : captured'[i] = captured[i] /\ Boundary(i) \in Nat /\ Boundary(i) < now + 1
  BY <1>0, SweepTaken DEF ParityInv, Taken
<1>3. \A i \in Taken' : i \in 1..n \/ i = n + 1
  BY <1>0, <1>2
<1>4. CASE HasReference(bars)
  <2>1. /\ HasReference(bars') /\ shown' = Read(now', bars', today') /\ delivered' = Told(shown')
        /\ Moves(shown, shown') \/ Lasts(shown, shown')
    BY <1>4, SweepShown
  <2>2. StateShown(shown') /\ KindsTold(shown') = WithOwed(KindsTold(shown), shown')
    BY <2>1, StepsAreKept, StepsAreTold
  <2>3. ASSUME NEW i \in 1..n PROVE IsOwed(i)'
    <3>1. IsOwed(i)
      BY <1>2, <1>4, <2>3 DEF ParityInv
    <3>2. Project(bars', today', Boundary(i)) = Project(bars, today, Boundary(i))
      BY <1>1, <1>2, <1>4, ProjectionStays
    <3>3. i = 1 \/ i - 1 \in 1..n
      BY <1>2
    <3>4. captured'[i] = captured[i] /\ (i # 1 => captured'[i - 1] = captured[i - 1])
      BY <1>2, <3>3
    <3>5. side' = side /\ poc2' = poc2
      BY <1>1
    <3>6. /\ captured'[i] = Project(bars', today', Boundary(i))
          /\ KindsTold(captured'[i]) =
               WithOwed(IF i = 1 THEN <<>> ELSE KindsTold(captured'[i - 1]), captured'[i])
      BY <3>1, <3>2, <3>4 DEF IsOwed
    <3> QED
      BY <3>5, <3>6 DEF IsOwed, Project, StateBy, StateAfter, Trail, Qty, ExitPrice
  <2>4. IsOwed(n + 1)'
    <3>1. DOMAIN bars' \subseteq 1..now'
      BY <1>1 DEF TypeOK
    <3>2. shown' = Project(bars', today', now')
      BY <1>1, <1>2, <2>1, <3>1, ReadIsProjected
    <3>3. n + 1 # 1 /\ (n + 1) - 1 = n /\ captured'[n] = shown
      BY <1>2
    <3>4. side' = side /\ poc2' = poc2
      BY <1>1
    <3>5. /\ captured'[n + 1] = Project(bars', today', Boundary(n + 1))
          /\ KindsTold(captured'[n + 1]) =
               WithOwed(IF n + 1 = 1 THEN <<>> ELSE KindsTold(captured'[(n + 1) - 1]), captured'[n + 1])
      BY <1>2, <2>2, <3>2, <3>3
    <3> QED
      BY <3>4, <3>5 DEF IsOwed, Project, StateBy, StateAfter, Trail, Qty, ExitPrice
  <2>5. \A i \in Taken' : IsOwed(i)'
    BY <1>3, <2>3, <2>4
  <2>6. /\ shown' = Read(now, bars, today)' /\ StateShown(shown')
        /\ delivered' = Told(shown')
    <3>1. side' = side
      BY <1>1
    <3> QED
      BY <2>1, <2>2, <3>1 DEF Read, Position, Qty, ExitPrice
  <2> QED
    BY <1>1, <1>2, <2>1, <2>5, <2>6 DEF ParityInv
<1>5. CASE ~HasReference(bars)
  <2>1. ~HasReference(bars')
    BY <1>1, <1>5, SameReference
  <2>2. delivered = <<>> /\ \A i \in 1..n : IsRefused(i)
    BY <1>2, <1>5 DEF ParityInv
  <2>3. ASSUME NEW i \in 1..n PROVE IsRefused(i)'
    <3>1. (\A m \in DOMAIN bars' : Boundary(i) < m) <=> (\A m \in DOMAIN bars : Boundary(i) < m)
      BY <1>1, <1>2 DEF IsLonger
    <3> QED
      BY <1>2, <2>2, <3>1 DEF IsRefused
  <2>4. shown' = NoNumbers(IF DOMAIN bars' = {} THEN "waiting" ELSE "refused")
    <3>1. shown = NoNumbers(IF \A m \in DOMAIN bars : Boundary(n) < m THEN "waiting" ELSE "refused")
      BY <1>2, <2>2 DEF IsRefused
    <3>2. shown' = Evaluate(shown, now', bars', today')
      BY DEF Sweep
    <3>3. shown.phase = "refused" => DOMAIN bars' # {}
      BY <1>1, <3>1 DEF NoNumbers, Shown, IsLonger
    <3> QED
      BY <2>1, <3>1, <3>2, <3>3 DEF Evaluate, Evaluated, NoNumbers, Shown
  <2>5. IsRefused(n + 1)'
    <3>1. DOMAIN bars' = {} <=> \A m \in DOMAIN bars' : now' < m
      <4>1. \A m \in 1..now' : ~(now' < m)
        BY <1>2
      <4>2. DOMAIN bars' \subseteq 1..now'
        BY <1>1 DEF TypeOK
      <4> QED
        BY <4>1, <4>2
    <3> QED
      BY <1>2, <2>4, <3>1 DEF IsRefused
  <2>6. delivered' = <<>>
    <3>1. Announced(shown', <<>>) = <<>>
      BY <2>4, FieldsShown, AnnouncedBefore DEF NoNumbers, Shown
    <3>2. <<>> \o <<>> = <<>>
      BY ShortSequences
    <3> QED
      BY <2>2, <3>1, <3>2 DEF Sweep
  <2> QED
    BY <1>1, <1>2, <1>3, <2>1, <2>3, <2>5, <2>6 DEF ParityInv
<1> QED
  BY <1>4, <1>5

-----------------------------------------------------------------------------
(* The alerts a walk of decisions owes: a list that starts empty and grows  *)
(* with each decision as the harness counts it ends as the harness does.    *)

IsTally(K, W, n) ==
  /\ Len(W) = n
  /\ K = [i \in 0..n |-> K[i]] /\ K[0] = <<>>
  /\ \A i \in 1..n : K[i] = WithOwed(K[i - 1], W[i])

LEMMA ExpectedIs ==
  ASSUME NEW n \in Nat, NEW W, NEW K, IsTally(K, W, n)
  PROVE  ExpectedAlerts(W) = K[n]
<1> USE DEF IsTally
<1> DEFINE IsCount(f) == f = [i \in 0..n |-> IF i = 0 THEN <<>> ELSE WithOwed(f[i - 1], W[i])]
           kinds == CHOOSE f : IsCount(f)
<1>1. IsCount(K)
  <2>1. \A i \in 0..n : i = 0 \/ i \in 1..n
    OBVIOUS
  <2>2. \A i \in 0..n : K[i] = IF i = 0 THEN <<>> ELSE WithOwed(K[i - 1], W[i])
    BY <2>1
  <2> QED
    BY <2>2
<1>2. IsCount(kinds)
  <2> HIDE DEF IsCount
  <2> QED
    BY <1>1
<1>3. ExpectedAlerts(W) = kinds[n]
  BY DEF ExpectedAlerts
<1> HIDE DEF kinds
<1>4. ASSUME kinds[n] # K[n] PROVE FALSE
  <2> DEFINE T == {x \in 1..(n + 1) : kinds[x - 1] # K[x - 1]}
  <2>1. T \subseteq 1..(n + 1) /\ n + 1 \in T /\ n + 1 \in Nat
    BY <1>4
  <2>2. PICK x \in T : \A y \in T : x <= y
    <3> HIDE DEF T
    <3> QED
      BY <2>1, HasLeast
  <2>3. x \in 1..(n + 1) /\ x - 1 \in 0..n /\ kinds[x - 1] # K[x - 1]
    BY <2>2
  <2>4. x - 1 # 0
    BY <1>2, <2>3
  <2>5. x - 1 \in 1..(n + 1) /\ (x - 1) - 1 \in 0..n /\ ~(x <= x - 1) /\ x - 1 \in 1..n
    BY <2>3, <2>4
  <2>6. x - 1 \notin T
    BY <2>2, <2>5
  <2>7. kinds[(x - 1) - 1] = K[(x - 1) - 1]
    BY <2>5, <2>6
  <2>8. kinds[x - 1] = WithOwed(kinds[(x - 1) - 1], W[x - 1])
    BY <1>2, <2>3, <2>4
  <2>9. K[x - 1] = WithOwed(K[(x - 1) - 1], W[x - 1])
    BY <2>5
  <2> QED
    BY <2>3, <2>7, <2>8, <2>9
<1> QED
  BY <1>3, <1>4

LEMMA LengthIs ==
  ASSUME NEW n \in Nat, NEW c, c = [i \in 1..n |-> c[i]]
  PROVE  Len(c) = n
<1> DEFINE S == {c[i] : i \in 1..n}
<1>1. c \in [1..n -> S]
  OBVIOUS
<1> HIDE DEF S
<1> QED
  BY <1>1

\* At the end of a day that has a reference the two halves agree.
LEMMA HalvesAgree ==
  ASSUME ParityInv, now = SessionBars, HasReference(bars)
  PROVE  Mismatches = {}
<1> DEFINE wanted == Projected(bars, today)
<1>0. PICK n \in Nat : n = SessionBars - ReferenceBar + 1 /\ 1 <= n
  BY GridAssumption
<1>1. /\ Taken = 1..n /\ captured = [i \in 1..n |-> captured[i]] /\ captured[n] = shown
      /\ StateShown(shown) /\ delivered = Told(shown)
      /\ \A i \in 1..n : IsOwed(i)
  BY <1>0 DEF ParityInv, Taken
<1>2. wanted = captured
  <2>1. wanted = [i \in 1..n |-> Project(bars, today, Boundary(i))]
    BY <1>0 DEF Projected, Boundary
  <2>2. \A i \in 1..n : captured[i] = Project(bars, today, Boundary(i))
    BY <1>1 DEF IsOwed
  <2> HIDE DEF wanted
  <2> QED
    BY <1>1, <2>1, <2>2
<1> HIDE DEF wanted
<1>3. BoundaryMismatches(captured) = {}
  BY DEF BoundaryMismatches, Differing
<1>4. ExpectedAlerts(captured) = KindsTold(shown)
  <2> DEFINE K == [i \in 0..n |-> IF i = 0 THEN <<>> ELSE KindsTold(captured[i])]
  <2>1. K = [i \in 0..n |-> K[i]] /\ K[0] = <<>> /\ K[n] = KindsTold(shown)
    <3>1. n \in 0..n /\ n # 0 /\ 0 \in 0..n
      BY <1>0
    <3> QED
      BY <1>1, <3>1
  <2>2. ASSUME NEW i \in 1..n PROVE K[i] = WithOwed(K[i - 1], captured[i])
    <3>1. i \in 0..n /\ i # 0 /\ i - 1 \in 0..n /\ (i - 1 = 0 <=> i = 1)
      OBVIOUS
    <3>2. K[i] = KindsTold(captured[i])
      BY <3>1
    <3>3. K[i - 1] = IF i = 1 THEN <<>> ELSE KindsTold(captured[i - 1])
      BY <3>1
    <3> QED
      BY <1>1, <3>2, <3>3 DEF IsOwed
  <2>3. Len(captured) = n
    BY <1>1, LengthIs
  <2> HIDE DEF K
  <2>4. IsTally(K, captured, n)
    BY <2>1, <2>2, <2>3 DEF IsTally
  <2>5. ExpectedAlerts(captured) = K[n]
    BY <2>4, ExpectedIs
  <2> QED
    BY <2>1, <2>5
<1>5. AlertMismatch(captured) = {}
  <2>1. [i \in DOMAIN delivered |-> delivered[i].kind] = KindsTold(shown)
    BY <1>1, KindsOfTold
  <2> QED
    BY <1>4, <2>1 DEF AlertMismatch
<1>6. TrailMismatch = {}
  BY DEF TrailMismatch, Evaluated
<1> QED
  BY <1>2, <1>3, <1>5, <1>6 DEF Mismatches, wanted

\* Without one they differ in the trail, and in the phase before the first
\* candle.
LEMMA HalvesDiffer ==
  ASSUME ParityInv, now = SessionBars, ~HasReference(bars)
  PROVE  Mismatches = {<<0, "trail">>} \cup (BeforeFirst \X {"phase"})
<1> DEFINE wanted == Projected(bars, today)
           refused == NoNumbers("refused")
<1>0. PICK n \in Nat : n = SessionBars - ReferenceBar + 1 /\ 1 <= n
  BY GridAssumption
<1>1. /\ Taken = 1..n /\ captured = [i \in 1..n |-> captured[i]] /\ DOMAIN captured = 1..n
      /\ delivered = <<>>
      /\ \A i \in 1..n : IsRefused(i)
  BY <1>0 DEF ParityInv, Taken
<1>2. wanted = [i \in 1..n |-> refused]
  BY <1>0 DEF Projected, Project, Evaluated
<1>3. /\ Differing(WaitingShown, refused) = {"phase"}
      /\ Differing(refused, refused) = {}
  BY DEF Differing, WaitingShown, NoNumbers, Shown
<1>4. refused.phase = "refused" /\ refused.entry = NoEntry /\ refused.exit = "none"
  BY DEF NoNumbers, Shown
<1> HIDE DEF wanted, refused
<1>5. BeforeFirst \subseteq 1..n
      /\ \A i \in 1..n : captured[i] = IF i \in BeforeFirst THEN WaitingShown ELSE refused
  BY <1>1 DEF BeforeFirst, IsRefused, Boundary, WaitingShown, refused
<1>6. \A i \in 1..n : Differing(captured[i], wanted[i]) = IF i \in BeforeFirst THEN {"phase"} ELSE {}
  BY <1>2, <1>3, <1>5
<1>7. BoundaryMismatches(wanted) = BeforeFirst \X {"phase"}
  <2>1. BoundaryMismatches(wanted) =
          UNION {{i} \X (IF i \in BeforeFirst THEN {"phase"} ELSE {}) : i \in 1..n}
    BY <1>1, <1>6 DEF BoundaryMismatches
  <2>2. \A i \in 1..n : \A x : x \in {i} \X (IF i \in BeforeFirst THEN {"phase"} ELSE {})
          <=> i \in BeforeFirst /\ x = <<i, "phase">>
    OBVIOUS
  <2>3. \A x : x \in BeforeFirst \X {"phase"} <=> \E i \in BeforeFirst : x = <<i, "phase">>
    OBVIOUS
  <2> HIDE DEF BeforeFirst
  <2>4. \A x : x \in BoundaryMismatches(wanted) <=> \E i \in BeforeFirst : x = <<i, "phase">>
    BY <1>5, <2>1, <2>2
  <2> QED
    BY <2>3, <2>4
<1>8. AlertMismatch(wanted) = {}
  <2> DEFINE K == [i \in 0..n |-> <<>>]
  <2>1. \A i \in 1..n : wanted[i] = refused /\ i \in 0..n /\ i - 1 \in 0..n
    BY <1>2
  <2>2. WithOwed(<<>>, refused) = <<>>
    BY <1>4, OwedOnce
  <2>3. K = [i \in 0..n |-> K[i]] /\ K[0] = <<>> /\ K[n] = <<>>
        /\ \A i \in 1..n : K[i] = WithOwed(K[i - 1], wanted[i])
    BY <1>0, <2>1, <2>2
  <2>4. Len(wanted) = n
    <3>1. wanted = [i \in 1..n |-> wanted[i]]
      BY <1>2
    <3> QED
      BY <3>1, LengthIs
  <2> HIDE DEF K
  <2>5. ExpectedAlerts(wanted) = <<>>
    <3>1. IsTally(K, wanted, n)
      BY <2>3, <2>4 DEF IsTally
    <3> QED
      BY <2>3, <3>1, ExpectedIs
  <2>6. [i \in DOMAIN delivered |-> delivered[i].kind] = <<>>
    BY <1>1
  <2> QED
    BY <2>5, <2>6 DEF AlertMismatch
<1>9. TrailMismatch = {<<0, "trail">>}
  BY DEF TrailMismatch, Evaluated
<1> QED
  BY <1>7, <1>8, <1>9 DEF Mismatches, wanted

(* The live screener, sweeping boundary after boundary, shows the backtest  *)
(* of the whole day at every one of them and sends the alerts it owes.      *)
THEOREM LiveShowsTheBacktest == ParitySpec => []LiveIsBacktest
<1>1. ParityInv /\ [Sweep]_parityVars => ParityInv'
  <2> SUFFICES ASSUME ParityInv, [Sweep]_parityVars PROVE ParityInv'
    OBVIOUS
  <2>1. CASE Sweep
    BY <2>1, SweepKeepsInv
  <2>2. CASE UNCHANGED parityVars
    <3>1. /\ side' = side /\ poc2' = poc2 /\ now' = now /\ bars' = bars /\ today' = today
          /\ shown' = shown /\ captured' = captured /\ delivered' = delivered
      BY <2>2 DEF parityVars
    <3>2. TypeOK' /\ Taken' = Taken /\ \A i : IsRefused(i)' <=> IsRefused(i)
      BY <3>1 DEF ParityInv, TypeOK, Taken, IsRefused
    <3>3. Read(now, bars, today)' = Read(now, bars, today)
      BY <3>1 DEF Read, Position, Qty, ExitPrice
    <3>4. \A i : Project(bars, today, Boundary(i))' = Project(bars, today, Boundary(i))
      BY <3>1 DEF Project, StateBy, StateAfter, Trail, Qty, ExitPrice
    <3>5. \A i : IsOwed(i)' <=> IsOwed(i)
      BY <3>1, <3>4 DEF IsOwed
    <3> QED
      BY <3>1, <3>2, <3>3, <3>5 DEF ParityInv
  <2> QED
    BY <2>1, <2>2
<1>2. ParityInv => LiveIsBacktest
  BY HalvesAgree, HalvesDiffer DEF LiveIsBacktest, Evaluated
<1> QED
  BY <1>1, <1>2, ParityInitInv, PTL DEF ParitySpec
=============================================================================
