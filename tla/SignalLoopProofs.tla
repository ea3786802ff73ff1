--------------------------- MODULE SignalLoopProofs ---------------------------
(***************************************************************************)
(* The two loops of evaluate_day compute exactly EvaluateDay, for every    *)
(* grid of candles, every set of prices and every day whose minutes agree  *)
(* with its candles: the running state of the walk is a function of the    *)
(* candles seen so far (StateAt), and the first candle to break out of a   *)
(* loop is the earliest the rules name (LoopInv).  What holds whatever the *)
(* minutes say is an invariant of its own (AnyDayInv).                     *)
(***************************************************************************)
EXTENDS SignalLoop, SignalLemmas

(* The walk's state before it looks at candle k, when nothing crossed yet. *)
AtOnly(b, p, k) == \A m \in Window(b) : m < k => ClosesOn(b, m, p, "at")

StateAt(b, s, p, k) ==
  IF ArmedBefore(b, s, p, k) THEN "armed"
  ELSE IF InitialState(Reference(b), s, p) = "side-unset" /\ AtOnly(b, p, k)
         THEN "side-unset"
  ELSE WaitState(s)

NoCrossYet(k) == \A n \in Window(bars) : n < k => ~Crosses(bars, side, poc2, n)

EntryAt(n) == Answer("entered", "armed", Entry(bars, n, side, poc2), NoExit)

ArgumentsOK ==
  /\ side \in Sides /\ poc2 \in Poc2 /\ bars \in Days
  /\ pc \in {"walk", "open", "exit", "done"}
  /\ i \in 1..(SessionBars + 1)

Walking ==
  pc \in {"walk", "open"} =>
    /\ HasReference(bars)
    /\ answer = NoAnswer
    /\ NoCrossYet(i)
    /\ state = StateAt(bars, side, poc2, i)

Opening == pc = "open" => FirstCross(bars, side, poc2, i)

Exiting ==
  pc = "exit" =>
    /\ HasReference(bars)
    /\ state = "armed"
    /\ \E n \in Window(bars) :
         /\ FirstCross(bars, side, poc2, n)
         /\ n < i
         /\ answer = EntryAt(n)
         /\ \A m \in TouchBars(bars, Entry(bars, n, side, poc2), side) : i <= m

Finished ==
  pc = "done" =>
    /\ answer = EvaluateDay(bars, side, poc2)
    /\ state \in WalkStates

LoopInv == ArgumentsOK /\ Walking /\ Opening /\ Exiting /\ Finished

-----------------------------------------------------------------------------
(* What one candle does to the state of the walk. *)

LEMMA DaysAreDays ==
  ASSUME NEW b \in Days
  PROVE  IsDay(b) /\ DOMAIN b \subseteq Nat
<1>1. PICK D \in SUBSET Ordinals : b \in [D -> Candle]
  BY DEF Days
<1> QED
  BY <1>1, CandleAssumption, GridAssumption DEF IsDay, Ordinals

LEMMA ArmedNext ==
  ASSUME NEW b, IsDay(b), NEW s \in Sides, NEW p \in Int, NEW k \in Nat
  PROVE  ArmedBefore(b, s, p, k + 1) <=>
           \/ ArmedBefore(b, s, p, k)
           \/ k \in Window(b) /\ ClosesOn(b, k, p, ArmingSide(s))
<1>1. \A m \in Window(b) : m \in Int /\ (m < k + 1 <=> (m < k \/ m = k))
  BY GridAssumption DEF Window, IsDay, Ordinals
<1> QED
  BY <1>1 DEF ArmedBefore

LEMMA AtOnlyNext ==
  ASSUME NEW b, IsDay(b), NEW p \in Int, NEW k \in Nat
  PROVE  AtOnly(b, p, k + 1) <=>
           AtOnly(b, p, k) /\ (k \in Window(b) => ClosesOn(b, k, p, "at"))
<1>1. \A m \in Window(b) : m \in Int /\ (m < k + 1 <=> (m < k \/ m = k))
  BY GridAssumption DEF Window, IsDay, Ordinals
<1> QED
  BY <1>1 DEF AtOnly

LEMMA StateNames ==
  ASSUME NEW b, NEW s \in Sides, NEW p, NEW k
  PROVE  /\ WaitState(s) \in {"wait-below", "wait-above"}
         /\ StateAt(b, s, p, k) \in WalkStates
         /\ StateAt(b, s, p, k) = "armed" <=> ArmedBefore(b, s, p, k)
BY DEF StateAt, WaitState, Sides, WalkStates

LEMMA StateSkips ==
  ASSUME NEW b, IsDay(b), NEW s \in Sides, NEW p \in Int, NEW k \in Nat,
         k \notin Window(b)
  PROVE  StateAt(b, s, p, k + 1) = StateAt(b, s, p, k)
BY ArmedNext, AtOnlyNext DEF StateAt

LEMMA StateStarts ==
  ASSUME NEW b, IsDay(b), NEW s \in Sides, NEW p \in Int
  PROVE  StateAt(b, s, p, 1) = InitialState(Reference(b), s, p)
<1>1. \A m \in Window(b) : ~(m < 1)
  BY GridAssumption DEF Window, IsDay, Ordinals
<1>2. ArmedBefore(b, s, p, 1) <=> InitialState(Reference(b), s, p) = "armed"
  BY <1>1 DEF ArmedBefore
<1>3. AtOnly(b, p, 1)
  BY <1>1 DEF AtOnly
<1>4. InitialState(Reference(b), s, p) \in {"side-unset", "armed", WaitState(s)}
  BY DEF InitialState
<1> QED
  BY <1>2, <1>3, <1>4 DEF StateAt

LEMMA StateWalks ==
  ASSUME LoopInv, pc = "walk", i \in Window(bars), ~Triggers(i), poc2 \in Int
  PROVE  StateAfter(state, PocSide(bars[i].close, poc2)) = StateAt(bars, side, poc2, i + 1)
<1> DEFINE where == PocSide(bars[i].close, poc2)
           Arm(k) == ArmedBefore(bars, side, poc2, k)
           At(k) == AtOnly(bars, poc2, k)
           Unset == InitialState(Reference(bars), side, poc2) = "side-unset"
<1>1. IsDay(bars) /\ side \in Sides /\ i \in Nat
  BY DaysAreDays, GridAssumption DEF LoopInv, ArgumentsOK
<1>2. Arm(i + 1) <=> (Arm(i) \/ where = ArmingSide(side))
  BY <1>1, ArmedNext DEF ClosesOn
<1>3. At(i + 1) <=> (At(i) /\ where = "at")
  BY <1>1, AtOnlyNext DEF ClosesOn
<1>4. state = StateAt(bars, side, poc2, i)
  BY DEF LoopInv, Walking
<1>5. ~(Arm(i) /\ where = TriggerSide(side))
  BY <1>1, <1>4, StateNames DEF Triggers, ClosesOn
<1>6. where \in {"at", ArmingSide(side), TriggerSide(side)}
  BY <1>1 DEF PocSide, ArmingSide, TriggerSide, Sides
<1>7. /\ ArmingSide(side) \in {"above", "below"} /\ TriggerSide(side) \in {"above", "below"}
      /\ ArmingSide(side) # TriggerSide(side)
      /\ WaitState(side) \notin {"armed", "side-unset"}
  BY <1>1 DEF ArmingSide, TriggerSide, WaitState, Sides
<1>8. CASE Arm(i)
  <2>1. Arm(i + 1) /\ state = "armed" /\ where # TriggerSide(side)
    BY <1>2, <1>4, <1>5, <1>8 DEF StateAt
  <2> QED
    BY <2>1, <1>6, <1>7 DEF StateAt, StateAfter
<1>9. CASE ~Arm(i) /\ where = ArmingSide(side)
  BY <1>2, <1>7, <1>9 DEF StateAt, StateAfter
<1>10. CASE ~Arm(i) /\ where # ArmingSide(side) /\ Unset /\ At(i)
  <2>1. ~Arm(i + 1) /\ state = "side-unset"
    BY <1>2, <1>4, <1>10 DEF StateAt
  <2>2. CASE where = "at"
    BY <2>1, <2>2, <1>3, <1>7, <1>10 DEF StateAt, StateAfter
  <2>3. CASE where = TriggerSide(side)
    <3>1. ~At(i + 1)
      BY <2>3, <1>3, <1>7
    <3> QED
      BY <2>1, <2>3, <3>1, <1>7 DEF StateAt, StateAfter
  <2> QED
    BY <2>2, <2>3, <1>6, <1>10
<1>11. CASE ~Arm(i) /\ where # ArmingSide(side) /\ ~(Unset /\ At(i))
  <2>1. ~Arm(i + 1) /\ ~(Unset /\ At(i + 1)) /\ state = WaitState(side)
    BY <1>2, <1>3, <1>4, <1>11 DEF StateAt
  <2> QED
    BY <2>1, <1>7, <1>11 DEF StateAt, StateAfter
<1> QED
  BY <1>8, <1>9, <1>10, <1>11

-----------------------------------------------------------------------------
(* The answer is what the rules say. *)

LEMMA UncrossedAnswer ==
  ASSUME LoopInv, pc = "walk", i > SessionBars, poc2 \in Int
  PROVE  EvaluateDay(bars, side, poc2) = Answer(NoCrossOutcome(state), state, NoEntry, NoExit)
<1>1. IsDay(bars) /\ side \in Sides /\ HasReference(bars)
  BY DaysAreDays DEF LoopInv, ArgumentsOK, Walking
<1>2. \A m \in Window(bars) : m < i /\ m < LastTriggerBar + 1
  BY <1>1, GridAssumption DEF Window, IsDay, Ordinals, LoopInv, ArgumentsOK
<1>3. CrossBars(bars, side, poc2) = {}
  BY <1>2 DEF LoopInv, Walking, NoCrossYet, CrossBars, Crosses
<1>4. UncrossedState(bars, side, poc2) = state
  <2> DEFINE Armed == ArmedBefore(bars, side, poc2, LastTriggerBar + 1)
             Unset == /\ InitialState(Reference(bars), side, poc2) = "side-unset"
                      /\ \A m \in Window(bars) : ClosesOn(bars, m, poc2, "at")
  <2>1. Armed <=> ArmedBefore(bars, side, poc2, i)
    BY <1>2 DEF ArmedBefore
  <2>2. Unset <=> /\ InitialState(Reference(bars), side, poc2) = "side-unset"
                  /\ AtOnly(bars, poc2, i)
    BY <1>2 DEF AtOnly
  <2>3. ~(Armed /\ Unset)
    BY <1>1 DEF ArmedBefore, ClosesOn, ArmingSide, Sides
  <2>4. state = StateAt(bars, side, poc2, i)
    BY DEF LoopInv, Walking
  <2> QED
    BY <2>1, <2>2, <2>3, <2>4 DEF StateAt, UncrossedState
<1> QED
  BY <1>1, <1>3, <1>4 DEF EvaluateDay

-----------------------------------------------------------------------------
(* The invariant. *)

LEMMA LoopInit == Init /\ Agreed => LoopInv
<1> SUFFICES ASSUME Init, Agreed PROVE LoopInv
  OBVIOUS
<1> USE DEF Agreed, MinutesAgree
<1>1. /\ side \in Sides /\ poc2 \in Int /\ IsDay(bars) /\ i = 1
      /\ \A m \in Window(bars) : ~(m < i)
  BY DaysAreDays, PocAssumption, GridAssumption DEF Init, Window, IsDay, Ordinals
<1>2. ArgumentsOK
  BY <1>1, GridAssumption DEF Init, ArgumentsOK
<1>3. CASE HasReference(bars)
  <2>1. NoCrossYet(i)
    BY <1>1 DEF NoCrossYet
  <2>2. state = StateAt(bars, side, poc2, i)
    BY <1>1, <1>3, StateStarts DEF Init
  <2> QED
    BY <1>2, <1>3, <2>1, <2>2 DEF Init, LoopInv, Walking, Opening, Exiting, Finished
<1>4. CASE ~HasReference(bars)
  BY <1>2, <1>4 DEF Init, LoopInv, Walking, Opening, Exiting, Finished, EvaluateDay, WalkStates
<1> QED
  BY <1>3, <1>4

LEMMA LoopStep == LoopInv /\ [Next]_vars => LoopInv'
<1> SUFFICES ASSUME LoopInv, [Next]_vars PROVE LoopInv'
  OBVIOUS
<1>1. /\ side \in Sides /\ poc2 \in Int /\ IsDay(bars)
      /\ i \in 1..(SessionBars + 1) /\ i \in Nat /\ SessionBars \in Nat
      /\ DOMAIN bars \subseteq Ordinals
  BY DaysAreDays, PocAssumption, GridAssumption DEF LoopInv, ArgumentsOK, IsDay
<1>2. Window(bars) \subseteq Ordinals /\ Ordinals = 1..SessionBars
  BY <1>1 DEF Window, Ordinals
<1>3. ASSUME NEW n \in Window(bars), i \in Nat, n < i + 1, n # i PROVE n < i
  BY <1>2, <1>3
<1>4. CASE SkipBar
  <2>1. ArgumentsOK'
    BY <1>1, <1>2, <1>4 DEF LoopInv, ArgumentsOK, SkipBar, arguments
  <2>2. NoCrossYet(i)'
    BY <1>1, <1>3, <1>4 DEF LoopInv, Walking, NoCrossYet, SkipBar, arguments
  <2>3. state' = StateAt(bars, side, poc2, i)'
    BY <1>1, <1>4, StateSkips DEF LoopInv, Walking, SkipBar, arguments
  <2> QED
    BY <1>4, <2>1, <2>2, <2>3 DEF LoopInv, Walking, Opening, Exiting, Finished, SkipBar, arguments
<1>5. CASE WalkBar
  <2>1. ArgumentsOK'
    BY <1>1, <1>2, <1>5 DEF LoopInv, ArgumentsOK, WalkBar, arguments
  <2>2. state' = StateAt(bars, side, poc2, i)'
    BY <1>1, <1>5, StateWalks DEF WalkBar, arguments
  <2>3. ~Crosses(bars, side, poc2, i)
    BY <1>1, <1>5, StateNames DEF LoopInv, Walking, WalkBar, Crosses, Triggers
  <2>4. NoCrossYet(i)'
    BY <1>1, <1>3, <1>5, <2>3 DEF LoopInv, Walking, NoCrossYet, WalkBar, arguments
  <2> QED
    BY <1>5, <2>1, <2>2, <2>4 DEF LoopInv, Walking, Opening, Exiting, Finished, WalkBar, arguments
<1>6. CASE TriggerBar
  <2>1. Crosses(bars, side, poc2, i)
    BY <1>1, <1>6, StateNames DEF LoopInv, Walking, TriggerBar, Crosses, Triggers
  <2>2. FirstCross(bars, side, poc2, i)
    BY <1>6, <2>1 DEF LoopInv, Walking, NoCrossYet, FirstCross, TriggerBar
  <2> QED
    BY <1>6, <2>2 DEF LoopInv, ArgumentsOK, Walking, NoCrossYet, Opening, Exiting, Finished,
      TriggerBar, arguments
<1>7. CASE NoCross
  <2>1. answer' = EvaluateDay(bars, side, poc2)
    BY <1>1, <1>7, UncrossedAnswer DEF NoCross
  <2>2. state \in WalkStates
    BY <1>1, <1>7, StateNames DEF LoopInv, Walking, NoCross
  <2> QED
    BY <1>7, <2>1, <2>2 DEF LoopInv, ArgumentsOK, Walking, Opening, Exiting, Finished,
      NoCross, arguments
<1>8. CASE OpenTrade
  <2> DEFINE e == Entry(bars, i, side, poc2)
  <2>1. FirstCross(bars, side, poc2, i) /\ HasReference(bars)
    BY <1>8 DEF LoopInv, Walking, Opening, OpenTrade
  <2>2. Sizable(bars, i, side, poc2)
    BY <1>1, <2>1, CrossSplits
  <2>3. i \in Window(bars) /\ state = "armed"
    BY <1>1, <1>8, <2>1, StateNames DEF FirstCross, Crosses, LoopInv, Walking, OpenTrade
  <2>4. pc' = "exit" /\ i' = i + 1 /\ answer' = EntryAt(i) /\ state' = "armed"
    BY <1>8, <2>2, <2>3 DEF OpenTrade, EntryAt
  <2>5. UNCHANGED <<side, poc2, bars>>
    BY <1>8 DEF OpenTrade, arguments
  <2>6. \A m \in TouchBars(bars, e, side) : i + 1 <= m
    <3>1. e.at = i
      BY DEF Entry
    <3>2. \A m \in TouchBars(bars, e, side) : m \in Ordinals /\ i < m
      BY <3>1, <1>1 DEF TouchBars, Watched
    <3> QED
      BY <3>2, <1>1, <1>2
  <2>7. ArgumentsOK'
    BY <1>1, <1>2, <2>3, <2>4, <2>5 DEF LoopInv, ArgumentsOK
  <2>8. Exiting'
    <3>1. /\ HasReference(bars)' /\ FirstCross(bars, side, poc2, i)
          /\ FirstCross(bars', side', poc2', i)
      BY <2>1, <2>5
    <3>2. i \in Window(bars)' /\ i < i'
      BY <1>1, <2>3, <2>4, <2>5
    <3>3. answer' = EntryAt(i) /\ EntryAt(i) = Answer("entered", "armed", Entry(bars', i, side', poc2'), NoExit)
      BY <2>4, <2>5 DEF EntryAt
    <3>4. \A m \in TouchBars(bars', Entry(bars', i, side', poc2'), side') : i' <= m
      BY <2>4, <2>5, <2>6
    <3> QED
      BY <2>4, <3>1, <3>2, <3>3, <3>4 DEF Exiting, EntryAt
  <2> QED
    BY <2>4, <2>7, <2>8 DEF LoopInv, Walking, Opening, Finished
<1>9. ASSUME pc = "exit"
      PROVE  \E n \in Window(bars) :
               /\ answer = EntryAt(n)
               /\ n < i
               /\ FirstCross(bars, side, poc2, n)
               /\ answer.entry = Entry(bars, n, side, poc2)
               /\ \A m \in TouchBars(bars, answer.entry, side) : i <= m
               /\ \A x : [answer EXCEPT !.exit = x]
                          = Answer("entered", "armed", answer.entry, x)
               /\ EvaluateDay(bars, side, poc2)
                    = Answer("entered", "armed", answer.entry, Exit(bars, answer.entry, side))
  <2>1. PICK n \in Window(bars) :
          /\ FirstCross(bars, side, poc2, n)
          /\ n < i
          /\ answer = EntryAt(n)
          /\ \A m \in TouchBars(bars, Entry(bars, n, side, poc2), side) : i <= m
    BY <1>9 DEF LoopInv, Exiting
  <2>2. answer.entry = Entry(bars, n, side, poc2)
    BY <2>1 DEF EntryAt, Answer
  <2>3. \A x : [answer EXCEPT !.exit = x] = Answer("entered", "armed", answer.entry, x)
    BY <2>1, <2>2 DEF EntryAt, Answer
  <2>4. EvaluateDay(bars, side, poc2)
          = Answer("entered", "armed", answer.entry, Exit(bars, answer.entry, side))
    BY <1>1, <1>9, <2>1, <2>2, CrossedAnswer DEF LoopInv, Exiting
  <2> QED
    BY <2>1, <2>2, <2>3, <2>4
<1>10. CASE PassBar
  <2>1. PICK n \in Window(bars) :
          /\ answer = EntryAt(n) /\ n < i
          /\ FirstCross(bars, side, poc2, n)
          /\ answer.entry = Entry(bars, n, side, poc2)
          /\ \A m \in TouchBars(bars, answer.entry, side) : i <= m
    BY <1>9, <1>10 DEF PassBar
  <2>2. \A m \in TouchBars(bars, answer.entry, side) : m \in Ordinals /\ m # i
    BY <1>1, <1>10 DEF PassBar, TouchBars, Touches, Watched
  <2>3. \A m \in TouchBars(bars, answer.entry, side) : i + 1 <= m
    BY <1>1, <1>2, <2>1, <2>2
  <2>4. ArgumentsOK'
    BY <1>1, <1>2, <1>10 DEF LoopInv, ArgumentsOK, PassBar, arguments
  <2>5. n < i + 1
    BY <1>1, <1>2, <2>1
  <2>6. /\ pc' = "exit" /\ i' = i + 1 /\ answer' = answer /\ state' = state
        /\ UNCHANGED <<side, poc2, bars>> /\ pc = "exit"
    BY <1>10 DEF PassBar, arguments
  <2>7. HasReference(bars) /\ state = "armed"
    BY <2>6 DEF LoopInv, Exiting
  <2> QED
    BY <2>1, <2>3, <2>4, <2>5, <2>6, <2>7 DEF LoopInv, Walking, Opening, Exiting, Finished, EntryAt
<1>11. CASE TouchBar
  <2>1. /\ \A m \in TouchBars(bars, answer.entry, side) : i <= m
        /\ \A x : [answer EXCEPT !.exit = x] = Answer("entered", "armed", answer.entry, x)
        /\ EvaluateDay(bars, side, poc2)
             = Answer("entered", "armed", answer.entry, Exit(bars, answer.entry, side))
    BY <1>9, <1>11 DEF TouchBar
  <2>2. /\ i \in TouchBars(bars, answer.entry, side)
        /\ TouchBars(bars, answer.entry, side) \subseteq Ordinals
    BY <1>1, <1>11 DEF TouchBar, TouchBars, Touches, Watched
  <2>3. Earliest(TouchBars(bars, answer.entry, side)) = i
    BY <2>1, <2>2, EarliestIs
  <2>4. Exit(bars, answer.entry, side) = TouchExit(bars, i, answer.entry, side)
    BY <2>2, <2>3 DEF Exit
  <2>5. answer' = EvaluateDay(bars, side, poc2)
    BY <1>11, <2>1, <2>4 DEF TouchBar
  <2>6. state \in WalkStates
    BY <1>11 DEF LoopInv, Exiting, TouchBar, WalkStates
  <2> QED
    BY <1>11, <2>5, <2>6 DEF LoopInv, ArgumentsOK, Walking, Opening, Exiting, Finished,
      TouchBar, arguments
<1>12. CASE MarkSquareOff
  <2>1. /\ \A m \in TouchBars(bars, answer.entry, side) : i <= m
        /\ \A x : [answer EXCEPT !.exit = x] = Answer("entered", "armed", answer.entry, x)
        /\ EvaluateDay(bars, side, poc2)
             = Answer("entered", "armed", answer.entry, Exit(bars, answer.entry, side))
    BY <1>9, <1>12 DEF MarkSquareOff
  <2>2. TouchBars(bars, answer.entry, side) = {}
    <3>1. TouchBars(bars, answer.entry, side) \subseteq Ordinals
      BY <1>1 DEF TouchBars, Watched
    <3> QED
      BY <3>1, <2>1, <1>1, <1>2, <1>12 DEF MarkSquareOff
  <2>3. Exit(bars, answer.entry, side) = SquareOff(bars, answer.entry)
    BY <2>2 DEF Exit
  <2>4. answer' = EvaluateDay(bars, side, poc2)
    BY <1>12, <2>1, <2>3 DEF MarkSquareOff
  <2>5. state \in WalkStates
    BY <1>12 DEF LoopInv, Exiting, MarkSquareOff, WalkStates
  <2> QED
    BY <1>12, <2>4, <2>5 DEF LoopInv, ArgumentsOK, Walking, Opening, Exiting, Finished,
      MarkSquareOff, arguments
<1>13. CASE UNCHANGED vars
  BY <1>13 DEF LoopInv, ArgumentsOK, Walking, NoCrossYet, Opening, Exiting, EntryAt, Finished, vars
<1> QED
  BY <1>4, <1>5, <1>6, <1>7, <1>8, <1>10, <1>11, <1>12, <1>13 DEF Next

(* The arguments never change, so they agree at every step or at none.      *)
LEMMA ArgumentsStay == [Next]_vars => UNCHANGED arguments
BY DEF Next, vars, arguments, SkipBar, WalkBar, TriggerBar, NoCross, OpenTrade,
  PassBar, TouchBar, MarkSquareOff

LEMMA AgreedStays == [Next]_vars => (Agreed' <=> Agreed)
BY ArgumentsStay DEF arguments, Agreed

AgreedInv == Agreed => LoopInv

LEMMA LoopInvariant == Spec => []AgreedInv
<1>1. Init => AgreedInv
  BY LoopInit DEF AgreedInv
<1>2. AgreedInv /\ [Next]_vars => AgreedInv'
  <2>1. SUFFICES ASSUME AgreedInv, [Next]_vars, Agreed' PROVE LoopInv'
    BY DEF AgreedInv
  <2> QED
    BY <2>1, AgreedStays, LoopStep DEF AgreedInv
<1> QED
  BY <1>1, <1>2, PTL DEF Spec

-----------------------------------------------------------------------------
(* What an answer looks like. *)

(* Every answer the invariant allows: none yet, no trade, or a trade.       *)
LEMMA AnswerShape ==
  ASSUME LoopInv
  PROVE  \/ /\ answer.outcome \in Outcomes \ {"entered", "consumed-unsizable"}
            /\ answer.entry = NoEntry /\ answer.exit = NoExit
         \/ \E n : /\ HasReference(bars) /\ FirstCross(bars, side, poc2, n)
                   /\ answer.outcome = "entered"
                   /\ answer.entry = Entry(bars, n, side, poc2)
                   /\ \/ answer.exit = NoExit
                      \/ answer.exit = Exit(bars, answer.entry, side)
<1>1. /\ side \in Sides /\ poc2 \in Int /\ IsDay(bars)
      /\ pc \in {"walk", "open", "exit", "done"}
  BY DaysAreDays, PocAssumption DEF LoopInv, ArgumentsOK
<1>2. CASE pc \in {"walk", "open"}
  BY <1>2 DEF LoopInv, Walking, NoAnswer, Answer, Outcomes
<1>3. CASE pc = "exit"
  BY <1>3 DEF LoopInv, Exiting, EntryAt, Answer
<1>4. CASE pc = "done"
  <2>1. answer = EvaluateDay(bars, side, poc2)
    BY <1>4 DEF LoopInv, Finished
  <2>2. CASE answer.outcome # "entered"
    BY <1>1, <2>1, <2>2, AnswerOf DEF NoReferenceAnswer, NoCrossOutcome, Answer, Outcomes
  <2>3. CASE answer.outcome = "entered"
    <3>1. PICK n \in Window(bars) :
            /\ HasReference(bars) /\ FirstCross(bars, side, poc2, n)
            /\ answer = Answer("entered", "armed", Entry(bars, n, side, poc2),
                               Exit(bars, Entry(bars, n, side, poc2), side))
      BY <1>1, <2>1, <2>3, AnswerOf DEF NoReferenceAnswer, NoCrossOutcome, Answer
    <3> QED
      BY <2>3, <3>1 DEF Answer
  <2> QED
    BY <2>2, <2>3
<1> QED
  BY <1>1, <1>2, <1>3, <1>4

(* A trade of such a day has the POC before its entry and not before its    *)
(* stop, and no cross of it is refused.                                     *)
LEMMA AgreedTrades ==
  ASSUME LoopInv
  PROVE  /\ answer.outcome # "consumed-unsizable"
         /\ answer.outcome = "entered" =>
              IF side = "long" THEN 2 * answer.entry.stop <= poc2
                               ELSE 2 * answer.entry.stop >= poc2
<1>1. /\ side \in Sides /\ poc2 \in Int /\ IsDay(bars)
  BY DaysAreDays, PocAssumption DEF LoopInv, ArgumentsOK
<1>2. ASSUME NEW n, HasReference(bars), FirstCross(bars, side, poc2, n),
             answer.entry = Entry(bars, n, side, poc2)
      PROVE  IF side = "long" THEN 2 * answer.entry.stop <= poc2
                              ELSE 2 * answer.entry.stop >= poc2
  <2> DEFINE e == Entry(bars, n, side, poc2)
  <2>1. IF side = "long" THEN 2 * e.stop <= poc2 ELSE 2 * e.stop >= poc2
    BY <1>1, <1>2, TradeOf
  <2> HIDE DEF e
  <2>2. answer.entry = e
    BY <1>2 DEF e
  <2> QED
    BY <2>1, <2>2
<1> QED
  BY <1>2, AnswerShape

-----------------------------------------------------------------------------
(* What holds whatever the minutes say. *)

Opens(n) == n \in Window(bars) /\ ClosesOn(bars, n, poc2, TriggerSide(side))
TradesAt(n) == Opens(n) /\ Sizable(bars, n, side, poc2)

Untraded ==
  /\ answer.outcome \in Outcomes \ {"entered", "consumed-unsizable"}
  /\ answer.entry = NoEntry /\ answer.exit = NoExit

Refused ==
  /\ answer.outcome = "consumed-unsizable"
  /\ answer.entry = NoEntry /\ answer.exit = NoExit
  /\ Opens(i) /\ ~Sizable(bars, i, side, poc2)

Traded ==
  /\ answer.outcome = "entered"
  /\ \E n : TradesAt(n) /\ answer.entry = Entry(bars, n, side, poc2)
  /\ answer.exit \in [kind : ExitKinds, at : Nat]

AnyDayInv ==
  /\ ArgumentsOK /\ early \in Minutes(bars) /\ state \in WalkStates
  /\ pc \in {"walk", "open"} => answer = NoAnswer
  /\ pc = "open" => Opens(i) /\ state = "armed"
  /\ pc = "exit" => \E n : TradesAt(n) /\ answer = EntryAt(n)
  /\ pc = "done" => Untraded \/ Refused \/ Traded

(* A trade that could be sized: its entry beyond the POC, its stop before   *)
(* it and its target after it.                                              *)
LEMMA SizedTrade ==
  ASSUME NEW b, IsDay(b), NEW s \in Sides, NEW p \in Int,
         NEW n \in Window(b), ClosesOn(b, n, p, TriggerSide(s)), Sizable(b, n, s, p)
  PROVE  LET e == Entry(b, n, s, p)
         IN  /\ e \in [at : Nat, price : Int, stop : Int, target : Int]
             /\ IF s = "long"
                  THEN e.stop < e.price /\ p < 2 * e.price /\ e.price < e.target
                  ELSE e.stop > e.price /\ p > 2 * e.price /\ e.price > e.target
<1> DEFINE price == b[n].close
           stop  == Stop(b, n, s, p)
           risk  == Risk(price, stop, s)
           reach == TargetRiskMultiple * risk
           last  == Latest(EarlierBars(b, n))
           e     == Entry(b, n, s, p)
<1>1. n \in DOMAIN b /\ n \in Nat /\ IsCandle(b[n])
  BY GridAssumption DEF Window, IsDay, Ordinals
<1>2. price \in Int /\ IF s = "long" THEN p < 2 * price ELSE p > 2 * price
  BY <1>1 DEF IsCandle, ClosesOn, PocSide, TriggerSide, Sides
<1>3. stop \in Int
  <2>1. CASE IsGap(b[n], s, p)
    <3>1. EarlierBars(b, n) # {} /\ EarlierBars(b, n) \subseteq Ordinals
      BY <2>1 DEF Sizable, EarlierBars, IsDay
    <3>2. last \in DOMAIN b
      BY <3>1, LatestOf DEF EarlierBars
    <3> HIDE DEF last
    <3>3. b[last].close \in Int
      BY <3>2 DEF IsDay, IsCandle
    <3> QED
      BY <2>1, <3>3 DEF Stop, last
  <2>2. CASE ~IsGap(b[n], s, p)
    BY <1>1, <2>2 DEF Stop, IsCandle
  <2> QED
    BY <2>1, <2>2
<1>4. risk > 0
  BY DEF Sizable
<1>5. e = [at |-> n, price |-> price, stop |-> stop,
           target |-> IF s = "long" THEN price + reach ELSE price - reach]
  BY DEF Entry
<1> HIDE DEF price, stop, e, last
<1>6. risk \in Nat \ {0} /\ IF s = "long" THEN stop < price ELSE stop > price
  BY <1>2, <1>3, <1>4 DEF Risk
<1> HIDE DEF risk
<1>7. reach \in Int /\ reach > 0
  <2>1. \A k, x \in Nat \ {0} : k * x \in Int /\ k * x > 0
    OBVIOUS
  <2> QED
    BY <1>6, <2>1, MultipleAssumption
<1> HIDE DEF reach
<1>8. price + reach \in Int /\ price - reach \in Int
      /\ price < price + reach /\ price > price - reach
  BY <1>2, <1>7
<1>9. /\ e \in [at : Nat, price : Int, stop : Int, target : Int]
      /\ e.price = price /\ e.stop = stop
      /\ e.target = IF s = "long" THEN price + reach ELSE price - reach
  BY <1>1, <1>2, <1>3, <1>5, <1>8
<1> QED
  BY <1>2, <1>6, <1>8, <1>9 DEF e

(* A cross that cannot be sized is a gap: any other stop is the candle's    *)
(* own end, on the other side of the POC.                                   *)
LEMMA RefusalIsGap ==
  ASSUME NEW b, IsDay(b), NEW s \in Sides, NEW p \in Int,
         NEW n \in Window(b), ClosesOn(b, n, p, TriggerSide(s)), ~Sizable(b, n, s, p)
  PROVE  IsGap(b[n], s, p)
<1> SUFFICES ASSUME ~IsGap(b[n], s, p) PROVE FALSE
  OBVIOUS
<1>1. IsCandle(b[n])
  BY DEF Window, IsDay
<1>2. /\ b[n].close \in Int /\ b[n].low \in Int /\ b[n].high \in Int
      /\ IF s = "long" THEN p < 2 * b[n].close ELSE p > 2 * b[n].close
  BY <1>1 DEF IsCandle, ClosesOn, PocSide, TriggerSide, Sides
<1>3. IF s = "long" THEN 2 * b[n].low <= p ELSE 2 * b[n].high >= p
  BY <1>2 DEF IsGap
<1>4. Stop(b, n, s, p) = IF s = "long" THEN b[n].low ELSE b[n].high
  BY DEF Stop
<1>5. Risk(b[n].close, Stop(b, n, s, p), s) > 0
  BY <1>2, <1>3, <1>4 DEF Risk
<1> QED
  BY <1>5 DEF Sizable

LEMMA AnyDayInit == Init => AnyDayInv
<1> SUFFICES ASSUME Init PROVE AnyDayInv
  OBVIOUS
<1>1. ArgumentsOK
  BY GridAssumption DEF Init, ArgumentsOK
<1>2. CASE TakesReference(bars, early)
  <2>1. InitialState(TakenReference(bars, early), side, poc2) \in WalkStates
    BY DEF InitialState, WaitState, WalkStates
  <2> QED
    BY <1>1, <1>2, <2>1 DEF Init, AnyDayInv
<1>3. CASE ~TakesReference(bars, early)
  BY <1>1, <1>3 DEF Init, AnyDayInv, Untraded, NoReferenceAnswer, Answer, Outcomes, WalkStates
<1> QED
  BY <1>2, <1>3

LEMMA AnyDayStep == AnyDayInv /\ [Next]_vars => AnyDayInv'
<1> SUFFICES ASSUME AnyDayInv, [Next]_vars PROVE AnyDayInv'
  OBVIOUS
<1>1. /\ side \in Sides /\ poc2 \in Int /\ IsDay(bars)
      /\ i \in 1..(SessionBars + 1) /\ i \in Nat /\ SessionBars \in Nat
      /\ Ordinals = 1..SessionBars /\ DOMAIN bars \subseteq Ordinals
  BY DaysAreDays, PocAssumption, GridAssumption DEF AnyDayInv, ArgumentsOK, IsDay, Ordinals
<1>2. Window(bars) \subseteq Ordinals
  BY <1>1 DEF Window
<1>3. /\ UNCHANGED <<side, poc2, bars, early>>
      /\ early' \in Minutes(bars')
  BY ArgumentsStay DEF arguments, AnyDayInv
<1>4. i \in Ordinals => i + 1 \in 1..(SessionBars + 1)
  BY <1>1
<1> DEFINE Kept == ArgumentsOK' /\ early' \in Minutes(bars')
<1>5. CASE SkipBar
  <2>1. Kept
    BY <1>3, <1>4, <1>5 DEF AnyDayInv, ArgumentsOK, SkipBar
  <2> QED
    BY <1>5, <2>1 DEF AnyDayInv, SkipBar
<1>6. CASE WalkBar
  <2>1. Kept
    BY <1>2, <1>3, <1>4, <1>6 DEF AnyDayInv, ArgumentsOK, WalkBar
  <2>2. state' \in WalkStates
    BY <1>6 DEF AnyDayInv, WalkBar, StateAfter, WaitState, WalkStates
  <2> QED
    BY <1>6, <2>1, <2>2 DEF AnyDayInv, WalkBar
<1>7. CASE TriggerBar
  BY <1>3, <1>7 DEF AnyDayInv, ArgumentsOK, TriggerBar, Triggers, Opens
<1>8. CASE NoCross
  <2>1. Kept
    BY <1>3, <1>8 DEF AnyDayInv, ArgumentsOK, NoCross
  <2>2. Untraded'
    BY <1>8 DEF NoCross, Untraded, NoCrossOutcome, Answer, Outcomes
  <2> QED
    BY <1>8, <2>1, <2>2 DEF AnyDayInv, NoCross
<1>9. CASE OpenTrade
  <2>1. Opens(i) /\ state = "armed" /\ i \in Ordinals
    BY <1>2, <1>9 DEF AnyDayInv, OpenTrade, Opens
  <2>2. CASE Sizable(bars, i, side, poc2)
    <3>1. Kept /\ state' = state
      BY <1>3, <1>4, <1>9, <2>1, <2>2 DEF AnyDayInv, ArgumentsOK, OpenTrade
    <3>2. pc' = "exit" /\ answer' = EntryAt(i) /\ TradesAt(i)
      BY <1>9, <2>1, <2>2 DEF OpenTrade, EntryAt, TradesAt
    <3>3. \A n : (TradesAt(n)' <=> TradesAt(n)) /\ EntryAt(n)' = EntryAt(n)
      BY <1>3 DEF TradesAt, Opens, EntryAt
    <3>4. \E n : TradesAt(n)' /\ answer' = EntryAt(n)'
      BY <3>2, <3>3, Zenon
    <3> QED
      BY <3>1, <3>2, <3>4 DEF AnyDayInv
  <2>3. CASE ~Sizable(bars, i, side, poc2)
    <3>1. Kept /\ state' = state /\ pc' = "done"
      BY <1>3, <1>9, <2>3 DEF AnyDayInv, ArgumentsOK, OpenTrade
    <3>2. Refused'
      BY <1>3, <1>9, <2>1, <2>3 DEF OpenTrade, Refused, Opens, Answer
    <3> QED
      BY <3>1, <3>2 DEF AnyDayInv
  <2> QED
    BY <2>2, <2>3
<1>10. ASSUME pc = "exit", NEW x \in [kind : ExitKinds, at : Nat],
              answer' = [answer EXCEPT !.exit = x]
       PROVE  Traded'
  <2>1. PICK n : TradesAt(n) /\ answer = EntryAt(n)
    BY <1>10 DEF AnyDayInv
  <2>2. /\ answer'.outcome = "entered" /\ answer'.exit = x
        /\ answer'.entry = Entry(bars, n, side, poc2)
    BY <1>10, <2>1 DEF EntryAt, Answer
  <2> QED
    BY <1>3, <2>1, <2>2 DEF Traded, TradesAt, Opens
<1>11. pc = "exit" => answer.entry.at \in Nat
  <2> SUFFICES ASSUME pc = "exit" PROVE answer.entry.at \in Nat
    OBVIOUS
  <2>1. PICK n : TradesAt(n) /\ answer = EntryAt(n)
    BY DEF AnyDayInv
  <2>2. answer.entry.at = n
    BY <2>1 DEF EntryAt, Answer, Entry
  <2> QED
    BY <1>1, <1>2, <2>1, <2>2 DEF TradesAt, Opens
<1>12. CASE PassBar
  <2>1. Kept
    BY <1>3, <1>4, <1>12 DEF AnyDayInv, ArgumentsOK, PassBar
  <2>2. \A n : (TradesAt(n)' <=> TradesAt(n)) /\ EntryAt(n)' = EntryAt(n)
    BY <1>3 DEF TradesAt, Opens, EntryAt
  <2> QED
    BY <1>12, <2>1, <2>2 DEF AnyDayInv, PassBar
<1>13. CASE TouchBar
  <2>1. Kept
    BY <1>3, <1>13 DEF AnyDayInv, ArgumentsOK, TouchBar
  <2>2. TouchExit(bars, i, answer.entry, side) \in [kind : ExitKinds, at : Nat]
    BY <1>1 DEF TouchExit, ExitKinds
  <2>3. Traded'
    BY <1>10, <1>13, <2>2 DEF TouchBar
  <2> QED
    BY <1>13, <2>1, <2>3 DEF AnyDayInv, TouchBar
<1>14. CASE MarkSquareOff
  <2>1. Kept
    BY <1>3, <1>14 DEF AnyDayInv, ArgumentsOK, MarkSquareOff
  <2>2. SquareOff(bars, answer.entry) \in [kind : ExitKinds, at : Nat]
    <3>1. Watched(bars, answer.entry) \subseteq Ordinals /\ Ordinals \subseteq Nat
      BY <1>1 DEF Watched
    <3>2. Watched(bars, answer.entry) # {} => Latest(Watched(bars, answer.entry)) \in Nat
      BY <3>1, LatestOf
    <3> QED
      BY <1>11, <1>14, <3>2 DEF MarkSquareOff, SquareOff, ExitKinds
  <2>3. Traded'
    BY <1>10, <1>14, <2>2 DEF MarkSquareOff
  <2> QED
    BY <1>14, <2>1, <2>3 DEF AnyDayInv, MarkSquareOff
<1>15. CASE UNCHANGED vars
  <2>1. \A n : (TradesAt(n)' <=> TradesAt(n)) /\ EntryAt(n)' = EntryAt(n)
    BY <1>3 DEF TradesAt, Opens, EntryAt
  <2>2. ArgumentsOK'
    BY <1>15 DEF vars, AnyDayInv, ArgumentsOK
  <2>3. /\ Untraded' <=> Untraded
        /\ Refused' <=> Refused
        /\ Traded' <=> Traded
    BY <1>15, <2>1 DEF vars, Untraded, Refused, Traded, Opens
  <2> QED
    BY <1>15, <2>1, <2>2, <2>3 DEF vars, AnyDayInv, Opens
<1> QED
  BY <1>5, <1>6, <1>7, <1>8, <1>9, <1>12, <1>13, <1>14, <1>15 DEF Next

LEMMA AnyDayInvariant == Spec => []AnyDayInv
<1>1. Init => AnyDayInv
  BY AnyDayInit
<1>2. AnyDayInv /\ [Next]_vars => AnyDayInv'
  BY AnyDayStep
<1> QED
  BY <1>1, <1>2, PTL DEF Spec

-----------------------------------------------------------------------------
(* What the two invariants say of an answer. *)

LEMMA AnyAnswer ==
  ASSUME AnyDayInv
  PROVE  /\ side \in Sides /\ poc2 \in Int /\ IsDay(bars)
         /\ \/ Untraded
            \/ Refused
            \/ Traded
<1>1. /\ side \in Sides /\ poc2 \in Int /\ IsDay(bars)
      /\ pc \in {"walk", "open", "exit", "done"}
  BY DaysAreDays, PocAssumption DEF AnyDayInv, ArgumentsOK
<1>2. CASE pc \in {"walk", "open"}
  BY <1>1, <1>2 DEF AnyDayInv, NoAnswer, Answer, Untraded, Outcomes
<1>3. CASE pc = "exit"
  <2>1. PICK n : TradesAt(n) /\ answer = EntryAt(n)
    BY <1>3 DEF AnyDayInv
  <2> QED
    BY <1>1, <2>1 DEF EntryAt, Answer, Traded, NoExit, ExitKinds
<1>4. CASE pc = "done"
  BY <1>1, <1>4 DEF AnyDayInv
<1> QED
  BY <1>1, <1>2, <1>3, <1>4

(* Every trade straddles the POC as far as any day's must. *)
LEMMA AnyTrade ==
  ASSUME AnyDayInv, Traded
  PROVE  /\ answer.entry \in [at : Nat, price : Int, stop : Int, target : Int]
         /\ IF side = "long"
              THEN /\ answer.entry.stop < answer.entry.price /\ poc2 < 2 * answer.entry.price
                   /\ answer.entry.price < answer.entry.target
              ELSE /\ answer.entry.stop > answer.entry.price /\ poc2 > 2 * answer.entry.price
                   /\ answer.entry.price > answer.entry.target
<1>1. PICK n : TradesAt(n) /\ answer.entry = Entry(bars, n, side, poc2)
  BY DEF Traded
<1> DEFINE e == Entry(bars, n, side, poc2)
<1>2. /\ e \in [at : Nat, price : Int, stop : Int, target : Int]
      /\ IF side = "long"
           THEN e.stop < e.price /\ poc2 < 2 * e.price /\ e.price < e.target
           ELSE e.stop > e.price /\ poc2 > 2 * e.price /\ e.price > e.target
  BY <1>1, AnyAnswer, SizedTrade DEF TradesAt, Opens
<1> HIDE DEF e
<1>3. answer.entry = e
  BY <1>1 DEF e
<1> QED
  BY <1>2, <1>3

LEMMA AnswerTyped == AnyDayInv => TypeOK
<1> SUFFICES ASSUME AnyDayInv PROVE TypeOK
  OBVIOUS
<1>1. CASE Untraded \/ Refused
  BY <1>1 DEF AnyDayInv, ArgumentsOK, TypeOK, Untraded, Refused, NoEntry, NoExit, ExitKinds, Outcomes
<1>2. CASE Traded
  <2>1. answer.entry \in [at : Nat, price : Int, stop : Int, target : Int]
    BY <1>2, AnyTrade
  <2> QED
    BY <1>2, <2>1 DEF AnyDayInv, ArgumentsOK, TypeOK, Traded, Outcomes
<1> QED
  BY <1>1, <1>2, AnyAnswer

LEMMA TradesStraddle == AnyDayInv /\ AgreedInv => PocSplitsTheTrade
<1> SUFFICES ASSUME AnyDayInv, AgreedInv, answer.outcome = "entered" PROVE PocSplitsTheTrade
  BY DEF PocSplitsTheTrade
<1>1. Traded
  BY AnyAnswer DEF Untraded, Refused
<1>2. Agreed => IF side = "long" THEN 2 * answer.entry.stop <= poc2
                                 ELSE 2 * answer.entry.stop >= poc2
  BY AgreedTrades DEF AgreedInv
<1>3. IF side = "long"
        THEN /\ answer.entry.stop < answer.entry.price /\ poc2 < 2 * answer.entry.price
             /\ answer.entry.price < answer.entry.target
        ELSE /\ answer.entry.stop > answer.entry.price /\ poc2 > 2 * answer.entry.price
             /\ answer.entry.price > answer.entry.target
  BY <1>1, AnyTrade
<1> QED
  BY <1>2, <1>3 DEF PocSplitsTheTrade

(* With the 11:00 candle the minutes are not looked at. *)
LEMMA CandleAgrees ==
  ASSUME IsDay(bars), ReferenceBar \in DOMAIN bars
  PROVE  Agreed
<1>1. EarlyBars(bars) \subseteq Ordinals /\ ReferenceBar \in EarlyBars(bars)
  BY GridAssumption DEF EarlyBars, IsDay
<1>2. \A n \in EarlyBars(bars) : n <= ReferenceBar
  BY DEF EarlyBars
<1>3. Latest(EarlyBars(bars)) = ReferenceBar
  BY <1>1, <1>2, LatestIs
<1> QED
  BY <1>1, <1>3 DEF Agreed, MinutesAgree, TakesReference, TakenReference, HasReference, Reference

LEMMA RefusalContradicts == AnyDayInv /\ AgreedInv => UnsizableContradicts
<1> SUFFICES ASSUME AnyDayInv, AgreedInv, answer.outcome = "consumed-unsizable"
             PROVE  UnsizableContradicts
  BY DEF UnsizableContradicts
<1>1. Refused /\ side \in Sides /\ poc2 \in Int /\ IsDay(bars)
  BY AnyAnswer DEF Untraded, Traded
<1>2. IsGap(bars[i], side, poc2)
  BY <1>1, RefusalIsGap DEF Refused, Opens
<1>3. ~Agreed
  BY AgreedTrades DEF AgreedInv
<1> QED
  BY <1>1, <1>2, <1>3, CandleAgrees DEF UnsizableContradicts

-----------------------------------------------------------------------------
(* Every iteration keeps the types: signals.py's loops never leave the day  *)
(* they were given, and every price they compute is a whole number.         *)
THEOREM TypeCorrect == Spec => []TypeOK
BY AnswerTyped, AnyDayInvariant, PTL

(* When evaluate_day returns, it returns what the rules say: its loops find *)
(* the first cross and the first touch for every day whose minutes agree    *)
(* with its candles.                                                        *)
THEOREM LoopsComputeTheRules == Spec => []LoopIsRule
<1>1. AgreedInv => LoopIsRule
  BY DEF AgreedInv, LoopInv, Finished, LoopIsRule
<1> QED
  BY <1>1, LoopInvariant, PTL

(* The refusals of _open_trade are of a gap candle on a day without its     *)
(* 11:00 candle whose minutes contradict its candles, and of no other.      *)
THEOREM RefusalsContradict == Spec => []UnsizableContradicts
BY RefusalContradicts, AnyDayInvariant, LoopInvariant, PTL

(* Whatever the candles, the minutes and the POC, a trade has its entry     *)
(* beyond the POC, its stop before and its target beyond the entry; with    *)
(* minutes that agree the POC lies between the stop and the entry.          *)
THEOREM TradesStraddleThePoc == Spec => []PocSplitsTheTrade
BY TradesStraddle, AnyDayInvariant, LoopInvariant, PTL
=============================================================================
