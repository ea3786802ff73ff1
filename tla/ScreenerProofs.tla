---------------------------- MODULE ScreenerProofs ----------------------------
(***************************************************************************)
(* Proofs about Screener for every universe, every day length and any      *)
(* number of crashes, revisions and faults.                                *)
(*                                                                         *)
(* Typing needs to know what is in the outbox when: only symbols' alerts   *)
(* while symbols are evaluated, none before.  The at-most-once promise     *)
(* rests on the order in which _deliver records, remembers and delivers:   *)
(* what was sent is on disk, and what is on disk is in memory while the    *)
(* process is up.                                                          *)
(***************************************************************************)
EXTENDS Screener, TLAPS

SymbolAlerts == {alert \in Alerts : alert.key.sym \in Symbols}

OutboxOK ==
  /\ pc \notin {"evaluate", "closing"} => outbox = <<>>
  /\ pc = "evaluate" => outbox \in Seq(SymbolAlerts)

TypeInv == TypeOK /\ OutboxOK

-----------------------------------------------------------------------------
(* Lemmas about what one evaluation makes of a symbol. *)

(* A reading a boundary can give is a reading. *)
LEMMA ReadingsAtType == \A n : ReadingsAt(n) \subseteq Readings
  BY DEF ReadingsAt

(* Every record built by Alert and Key from typed parts is an alert. *)
LEMMA AlertType ==
  ASSUME NEW key \in Keys, NEW poc \in Pocs \cup {None}
  PROVE  Alert(key, poc) \in Alerts /\ Alert(key, poc).key = key
  BY DEF Alert, Alerts

LEMMA PocInForceType ==
  ASSUME TypeOK, NEW s \in Symbols
  PROVE  PocInForce(s) \in Pocs \cup {None}
  BY DEF TypeOK, MemoryOK, TapeOK, PocInForce, Readings

LEMMA StateFromType ==
  ASSUME TypeOK, NEW s \in Symbols
  PROVE  StateFrom(s) \in SymbolStates
<1>1. /\ states[s] \in SymbolStates
      /\ tape[s] \in Readings
      /\ PocInForce(s) \in Pocs \cup {None}
  BY PocInForceType DEF TypeOK, MemoryOK, TapeOK
<1>2. Refusal(s) \in Refusals
  BY DEF Refusal, Refusals
<1>3. AfterRefusal(s) \in SymbolStates
  BY <1>1, <1>2 DEF AfterRefusal, RefusedFor, SymbolState, SymbolStates, Phases, ExitKinds
<1>4. Proposed(s) \in SymbolStates
  BY <1>1 DEF Proposed, ExitOf, Readings, SymbolState, SymbolStates, Phases, Refusals,
              ExitKinds
<1>5. Monotonic(Proposed(s), states[s]) \in SymbolStates
  BY <1>1, <1>4 DEF Monotonic
<1> QED
  BY <1>3, <1>5 DEF StateFrom

LEMMA SkippedType ==
  ASSUME TypeOK, NEW S
  PROVE  SkipAll(S) \in [Symbols -> SymbolStates]
<1>1. ASSUME NEW st \in SymbolStates
      PROVE  Skipped(st) \in SymbolStates
  BY DEF Skipped, SymbolStates, Phases
<1>2. \A s \in Symbols : states[s] \in SymbolStates
  BY DEF TypeOK, MemoryOK
<1> QED
  BY <1>1, <1>2 DEF SkipAll

LEMMA AlertsForType ==
  ASSUME NEW s \in Symbols, NEW st \in SymbolStates, NEW r \in Readings
  PROVE  AlertsFor(s, st, r) \in Seq(SymbolAlerts)
<1>1. r.at \in 0..PostSession /\ 0 \in 0..PostSession
  BY BoundaryAssumption DEF Readings, EntryBoundaries, PostSession
<1>2. /\ UnmanagedAlert(s) \in SymbolAlerts
      /\ ArmedAlert(s, st) \in SymbolAlerts
      /\ TriggerAlert(s, st, r) \in SymbolAlerts
      /\ ExitAlert(s, st) \in SymbolAlerts
  BY <1>1 DEF UnmanagedAlert, ArmedAlert, TriggerAlert, ExitAlert, Alert, Key, Keys,
              Alerts, SymbolAlerts, SymbolStates, ExitKinds
<1> QED
  BY <1>2 DEF AlertsFor

-----------------------------------------------------------------------------
(* Every action keeps the types. *)

LEMMA WaitingType ==
  /\ Waiting \in SymbolStates
  /\ NoCandles \in Readings
  BY DEF Waiting, SymbolState, SymbolStates, Phases, Refusals, ExitKinds,
         NoCandles, Reading, Readings

LEMMA BoundaryType == 1 \in Boundaries /\ PostSession \in Nat /\ 0 \in 0..PostSession
  BY BoundaryAssumption DEF Boundaries, PostSession

(* The snapshot persist() writes, also with one field brought up to date. *)
LEMMA SnapshotType ==
  ASSUME MemoryOK
  PROVE  /\ Snapshot \in Snapshots
         /\ \A A \in SUBSET Keys : [Snapshot EXCEPT !.alerted = A] \in Snapshots
         /\ \A D \in SUBSET Boundaries : [Snapshot EXCEPT !.sweepsDone = D] \in Snapshots
  BY DEF MemoryOK, Snapshot, Snapshots

LEMMA TakenType ==
  ASSUME recorded \in [Symbols -> Recordings], b \in Boundaries,
         NEW s \in Symbols, NEW r \in Readings, NEW twin \in BOOLEAN
  PROVE  Taken(s, r, twin) \in [Symbols -> Recordings]
  BY DEF Taken, Recordings

LEMMA InitType == Init => TypeInv
<1> SUFFICES ASSUME Init PROVE TypeInv
  OBVIOUS
<1>1. ControlOK
  BY BoundaryType DEF Init, ControlOK
<1>2. MemoryOK /\ TapeOK
  BY WaitingType DEF Init, MemoryOK, TapeOK
<1>3. DiskOK
  <2>1. saved \in Snapshots
    BY <1>2, SnapshotType DEF Init, Snapshots
  <2>2. recorded \in [Symbols -> Recordings]
    BY WaitingType DEF Init, Recordings
  <2> QED
    BY <2>1, <2>2 DEF DiskOK
<1>4. AlertsOK /\ OutboxOK
  BY DEF Init, AlertsOK, OutboxOK
<1>5. BudgetOK
  BY BoundaryType, BoundAssumption DEF Init, BudgetOK
<1> QED
  BY <1>1, <1>2, <1>3, <1>4, <1>5 DEF TypeInv, TypeOK

LEMMA SymbolAlertsAreAlerts == Seq(SymbolAlerts) \subseteq Seq(Alerts)
  BY DEF SymbolAlerts

(* Marking an alert leaves it an alert of the same symbol. *)
LEMMA MarkedType ==
  ASSUME NEW alert \in Alerts, NEW mark \in BOOLEAN
  PROVE  /\ [alert EXCEPT !.correction = mark] \in Alerts
         /\ alert \in SymbolAlerts => [alert EXCEPT !.correction = mark] \in SymbolAlerts
  BY DEF Alerts, SymbolAlerts

LEMMA BannerType == \A n \in Boundaries : BannerAlert(n) \in Alerts
  BY DEF BannerAlert, Alert, Key, Keys, Alerts, ExitKinds, Boundaries

LEMMA HeadTail ==
  ASSUME NEW S, NEW q \in Seq(S), q # <<>>
  PROVE  /\ Head(q) \in S
         /\ Tail(q) \in Seq(S)
         /\ \A x \in S : <<x>> \o Tail(q) \in Seq(S)
  OBVIOUS

(* The alert in hand and what is left once it is through. *)
LEMMA InHandType ==
  ASSUME TypeInv, outbox # <<>>
  PROVE  /\ pc \in {"evaluate", "closing"}
         /\ Alert1 \in Alerts
         /\ Tail(outbox) \in Seq(Alerts)
         /\ pc = "evaluate" => /\ Alert1 \in SymbolAlerts
                               /\ Tail(outbox) \in Seq(SymbolAlerts)
  BY HeadTail DEF TypeInv, TypeOK, AlertsOK, OutboxOK, Alert1

LEMMA NextType == TypeInv /\ [Next]_vars => TypeInv'
<1> SUFFICES ASSUME TypeInv, [Next]_vars PROVE TypeInv'
  OBVIOUS
<1>a. ControlOK /\ MemoryOK /\ TapeOK /\ DiskOK /\ AlertsOK /\ BudgetOK /\ OutboxOK
  BY DEF TypeInv, TypeOK
<1>b. Superseded(Alert1.key) \in BOOLEAN
  BY DEF Superseded
<1>c. WriteFails => outbox' = <<>>
  BY DEF WriteFails, Die, EmptySweep
<1>1. CASE Start
  <2>1. ControlOK' /\ DiskOK' /\ AlertsOK' /\ BudgetOK' /\ OutboxOK'
    BY <1>a, <1>1 DEF Start, ControlOK, DiskOK, AlertsOK, BudgetOK, OutboxOK, sweep,
       disk, budget
  <2>2. MemoryOK'
    BY <1>a, <1>1 DEF Start, MemoryOK, memory, persisted, DiskOK, Snapshots
  <2>3. TapeOK'
    BY <1>a, <1>1 DEF Start, TapeOK, memory, Recordings, DiskOK, RecordedTwins
  <2> QED
    BY <2>1, <2>2, <2>3 DEF TypeInv, TypeOK
<1>2. CASE OpenSweep
  BY <1>2 DEF OpenSweep, TypeInv, TypeOK, ControlOK, MemoryOK, TapeOK, DiskOK,
       AlertsOK, BudgetOK, OutboxOK, sweep, memory, persisted, disk, budget
<1>3. ASSUME NEW s \in Symbols, PollAnswered(s) PROVE TypeInv'
  <2>1. ControlOK' /\ MemoryOK' /\ AlertsOK'
    BY <1>a, <1>3 DEF PollAnswered, ControlOK, MemoryOK, AlertsOK, sweep, memory,
       persisted, disk
  <2>2. TapeOK'
    BY <1>a, <1>3, ReadingsAtType DEF PollAnswered, TapeOK, memory
  <2>3. DiskOK'
    BY <1>a, <1>3, ReadingsAtType, TakenType DEF PollAnswered, DiskOK, disk, ControlOK
  <2>4. BudgetOK'
    BY <1>a, <1>3, BoundAssumption DEF PollAnswered, BudgetOK, budget
  <2>5. OutboxOK'
    BY <1>a, <1>3 DEF PollAnswered, OutboxOK, sweep, Polling
  <2> QED
    BY <2>1, <2>2, <2>3, <2>4, <2>5 DEF TypeInv, TypeOK
<1>4. ASSUME NEW s \in Symbols, PollUnanswered(s) PROVE TypeInv'
  BY <1>4 DEF PollUnanswered, TypeInv, TypeOK, ControlOK, MemoryOK, TapeOK, DiskOK,
       AlertsOK, BudgetOK, OutboxOK, sweep, memory, persisted, disk, budget, Polling
<1>5. ASSUME NEW s \in Symbols, PollUnreadable(s) PROVE TypeInv'
  <2>1. ControlOK' /\ AlertsOK'
    BY <1>a, <1>5 DEF PollUnreadable, ControlOK, AlertsOK, sweep, disk
  <2>2. MemoryOK'
    BY <1>a, <1>5, SkippedType DEF PollUnreadable, MemoryOK, memory, persisted,
       TypeInv
  <2>3. TapeOK'
    BY <1>a, <1>5, ReadingsAtType DEF PollUnreadable, TapeOK, memory
  <2>4. DiskOK'
    BY <1>a, <1>5, ReadingsAtType, TakenType DEF PollUnreadable, DiskOK, disk,
       ControlOK
  <2>5. BudgetOK'
    BY <1>a, <1>5, BoundAssumption DEF PollUnreadable, BudgetOK, budget
  <2>6. OutboxOK'
    BY <1>a, <1>5 DEF PollUnreadable, OutboxOK, sweep, Polling
  <2> QED
    BY <2>1, <2>2, <2>3, <2>4, <2>5, <2>6 DEF TypeInv, TypeOK
<1>6. ASSUME NEW s \in Symbols, EvaluateTerminal(s) PROVE TypeInv'
  BY <1>6 DEF EvaluateTerminal, TypeInv, TypeOK, ControlOK, MemoryOK, TapeOK, DiskOK,
       AlertsOK, BudgetOK, OutboxOK, sweep, memory, persisted, disk, budget
<1>7. ASSUME NEW s \in Symbols, Evaluate(s) PROVE TypeInv'
  <2>1. ControlOK' /\ TapeOK' /\ DiskOK' /\ BudgetOK'
    BY <1>a, <1>7 DEF Evaluate, ControlOK, TapeOK, DiskOK, BudgetOK, sweep, memory,
       disk, budget
  <2>2. MemoryOK'
    BY <1>a, <1>7, PocInForceType, StateFromType DEF Evaluate, MemoryOK, memory,
       persisted, TypeInv
  <2>3. AlertsOK'
    BY <1>a, <1>7, StateFromType, AlertsForType, SymbolAlertsAreAlerts DEF Evaluate,
       AlertsOK, sweep, disk, TypeInv, TapeOK
  <2>4. OutboxOK'
    BY <1>a, <1>7, StateFromType, AlertsForType DEF Evaluate, OutboxOK, sweep,
       TypeInv, TapeOK
  <2> QED
    BY <2>1, <2>2, <2>3, <2>4 DEF TypeInv, TypeOK
<1>8. ASSUME NEW s \in Symbols, EvaluationRaises(s) PROVE TypeInv'
  <2>1. ControlOK' /\ TapeOK' /\ DiskOK' /\ AlertsOK' /\ OutboxOK'
    BY <1>a, <1>8 DEF EvaluationRaises, ControlOK, TapeOK, DiskOK, AlertsOK,
       OutboxOK, sweep, memory, disk
  <2>2. MemoryOK'
    BY <1>a, <1>8, PocInForceType, SkippedType DEF EvaluationRaises, MemoryOK,
       memory, persisted, TypeInv
  <2>3. BudgetOK'
    BY <1>a, <1>8, BoundAssumption DEF EvaluationRaises, BudgetOK, budget
  <2> QED
    BY <2>1, <2>2, <2>3 DEF TypeInv, TypeOK
<1>9. CASE HitDeadline
  BY <1>9 DEF HitDeadline, TypeInv, TypeOK, ControlOK, MemoryOK, TapeOK, DiskOK,
       AlertsOK, BudgetOK, OutboxOK, sweep, memory, persisted, disk, budget, Polling
<1>10. CASE SecondPass
  BY <1>10 DEF SecondPass, TypeInv, TypeOK, ControlOK, MemoryOK, TapeOK, DiskOK,
       AlertsOK, BudgetOK, OutboxOK, sweep, memory, persisted, disk, budget
<1>11. CASE EndOfPolls
  BY <1>11 DEF EndOfPolls, TypeInv, TypeOK, ControlOK, MemoryOK, TapeOK, DiskOK,
       AlertsOK, BudgetOK, OutboxOK, sweep, memory, persisted, disk, budget
<1>12. CASE Withhold
  <2>1. ControlOK' /\ MemoryOK' /\ TapeOK' /\ DiskOK' /\ BudgetOK'
    BY <1>a, <1>12 DEF Withhold, ControlOK, MemoryOK, TapeOK, DiskOK, BudgetOK,
       sweep, memory, persisted, disk, budget
  <2>2. AlertsOK'
    BY <1>a, <1>12, InHandType DEF Withhold, AlertsOK, sweep, disk, InHand
  <2>3. OutboxOK'
    BY <1>a, <1>12, InHandType DEF Withhold, OutboxOK, sweep, InHand, ControlOK
  <2> QED
    BY <2>1, <2>2, <2>3 DEF TypeInv, TypeOK
<1>13. CASE RecordAlert
  <2>1. ControlOK' /\ MemoryOK' /\ TapeOK' /\ DiskOK' /\ BudgetOK'
    BY <1>a, <1>13 DEF RecordAlert, ControlOK, MemoryOK, TapeOK, DiskOK, BudgetOK,
       sweep, memory, persisted, disk, budget
  <2>2. AlertsOK'
    BY <1>a, <1>13, <1>b, InHandType, HeadTail, MarkedType DEF RecordAlert, AlertsOK,
       sweep, disk, InHand
  <2>3. OutboxOK'
    BY <1>a, <1>13, <1>b, InHandType, HeadTail, MarkedType DEF RecordAlert, OutboxOK,
       sweep, InHand, ControlOK
  <2> QED
    BY <2>1, <2>2, <2>3 DEF TypeInv, TypeOK
<1>14. CASE RememberAlert
  <2>1. ControlOK' /\ TapeOK' /\ AlertsOK' /\ BudgetOK' /\ OutboxOK'
    BY <1>a, <1>14 DEF RememberAlert, ControlOK, TapeOK, AlertsOK, BudgetOK,
       OutboxOK, sweep, memory, disk, budget
  <2>2. MemoryOK'
    BY <1>a, <1>14, InHandType DEF RememberAlert, MemoryOK, memory, persisted,
       InHand, Alerts, TypeInv
  <2>3. DiskOK'
    BY <1>a, <1>14, InHandType, SnapshotType DEF RememberAlert, DiskOK, disk, InHand,
       Alerts, MemoryOK
  <2> QED
    BY <2>1, <2>2, <2>3 DEF TypeInv, TypeOK
<1>15. CASE DeliverAlert
  <2>1. ControlOK' /\ MemoryOK' /\ TapeOK' /\ DiskOK' /\ BudgetOK'
    BY <1>a, <1>15 DEF DeliverAlert, ControlOK, MemoryOK, TapeOK, DiskOK, BudgetOK,
       sweep, memory, persisted, disk, budget
  <2>2. AlertsOK'
    BY <1>a, <1>15, InHandType DEF DeliverAlert, AlertsOK, sweep, disk, InHand
  <2>3. OutboxOK'
    BY <1>a, <1>15, InHandType DEF DeliverAlert, OutboxOK, sweep, InHand, ControlOK
  <2> QED
    BY <2>1, <2>2, <2>3 DEF TypeInv, TypeOK
<1>16. CASE SinkRaises
  <2>1. ControlOK' /\ MemoryOK' /\ TapeOK' /\ DiskOK'
    BY <1>a, <1>16 DEF SinkRaises, ControlOK, MemoryOK, TapeOK, DiskOK, sweep,
       memory, persisted, disk
  <2>2. AlertsOK'
    BY <1>a, <1>16, InHandType DEF SinkRaises, AlertsOK, sweep, disk, InHand
  <2>3. BudgetOK'
    BY <1>a, <1>16, BoundAssumption DEF SinkRaises, BudgetOK, budget
  <2>4. OutboxOK'
    BY <1>a, <1>16, InHandType DEF SinkRaises, OutboxOK, sweep, InHand, ControlOK
  <2> QED
    BY <2>1, <2>2, <2>3, <2>4 DEF TypeInv, TypeOK
<1>17. CASE WriteFails
  <2>1. DiskOK'
    BY <1>a, <1>17 DEF WriteFails, DiskOK, disk
  <2>2. ControlOK'
    BY <1>a, <1>17, InHandType, BoundaryType DEF WriteFails, ControlOK, sweep,
       InHand, SymbolAlerts, Die, EmptySweep
  <2>3. MemoryOK'
    BY <1>a, <1>17, InHandType, SkippedType, WaitingType DEF WriteFails, MemoryOK,
       memory, persisted, InHand, Alerts, TypeInv, Die, ForgetAll
  <2>4. TapeOK'
    BY <1>a, <1>17, WaitingType DEF WriteFails, TapeOK, memory, Die, ForgetAll
  <2>5. AlertsOK'
    <3>1. outbox' = <<>>
      BY <1>17, <1>c
    <3>2. UNCHANGED <<log, sent>>
      BY <1>17 DEF WriteFails, disk
    <3> QED
      BY <1>a, <3>1, <3>2 DEF AlertsOK
  <2>6. BudgetOK'
    BY <1>a, <1>17, BoundAssumption DEF WriteFails, BudgetOK, budget
  <2>7. OutboxOK'
    <3>1. outbox' = <<>>
      BY <1>17, <1>c
    <3> QED
      BY <3>1 DEF OutboxOK
  <2> QED
    BY <2>1, <2>2, <2>3, <2>4, <2>5, <2>6, <2>7 DEF TypeInv, TypeOK
<1>18. CASE SettleBanner
  <2>1. ControlOK' /\ TapeOK' /\ DiskOK' /\ BudgetOK'
    BY <1>a, <1>18 DEF SettleBanner, ControlOK, TapeOK, DiskOK, BudgetOK, sweep,
       memory, disk, budget
  <2>2. MemoryOK'
    BY <1>a, <1>18, SkippedType DEF SettleBanner, MemoryOK, memory, persisted,
       TypeInv, Complete
  <2>3. AlertsOK'
    BY <1>a, <1>18, BannerType DEF SettleBanner, AlertsOK, sweep, disk, ControlOK
  <2>4. OutboxOK'
    BY <1>a, <1>18 DEF SettleBanner, OutboxOK, sweep
  <2> QED
    BY <2>1, <2>2, <2>3, <2>4 DEF TypeInv, TypeOK
<1>19. CASE CloseSweep
  <2>1. TapeOK' /\ AlertsOK' /\ BudgetOK'
    BY <1>a, <1>19 DEF CloseSweep, TapeOK, AlertsOK, BudgetOK, memory, sweep, disk,
       budget
  <2>2. ControlOK'
    BY <1>a, <1>19, BoundaryType DEF CloseSweep, ControlOK, sweep, Boundaries,
       PostSession
  <2>3. MemoryOK'
    BY <1>a, <1>19 DEF CloseSweep, MemoryOK, memory, persisted, ControlOK
  <2>4. DiskOK'
    BY <1>a, <1>19, SnapshotType DEF CloseSweep, DiskOK, disk, MemoryOK, ControlOK
  <2>5. OutboxOK'
    BY <1>a, <1>19 DEF CloseSweep, OutboxOK, sweep
  <2> QED
    BY <2>1, <2>2, <2>3, <2>4, <2>5 DEF TypeInv, TypeOK
<1>20. CASE Tick
  <2>1. ControlOK' /\ MemoryOK' /\ TapeOK' /\ DiskOK' /\ AlertsOK'
    BY <1>a, <1>20 DEF Tick, ControlOK, MemoryOK, TapeOK, DiskOK, AlertsOK, sweep,
       memory, persisted, disk
  <2>2. BudgetOK'
    BY <1>a, <1>20, BoundaryType DEF Tick, BudgetOK, budget, PostSession
  <2>3. OutboxOK'
    BY <1>a, <1>20 DEF Tick, OutboxOK, sweep, Polling
  <2> QED
    BY <2>1, <2>2, <2>3 DEF TypeInv, TypeOK
<1>21. CASE Crash
  <2>1. DiskOK'
    BY <1>a, <1>21 DEF Crash, DiskOK, disk
  <2>2. ControlOK'
    BY <1>a, <1>21, BoundaryType DEF Crash, ControlOK, sweep, Die, EmptySweep
  <2>3. MemoryOK'
    BY <1>a, <1>21, WaitingType DEF Crash, MemoryOK, memory, persisted, Die, ForgetAll
  <2>4. TapeOK'
    BY <1>a, <1>21, WaitingType DEF Crash, TapeOK, memory, Die, ForgetAll
  <2>5. AlertsOK'
    BY <1>a, <1>21 DEF Crash, AlertsOK, sweep, disk, Die, EmptySweep
  <2>6. BudgetOK'
    BY <1>a, <1>21, BoundAssumption DEF Crash, BudgetOK, budget
  <2>7. OutboxOK'
    BY <1>a, <1>21 DEF Crash, OutboxOK, sweep, Die, EmptySweep
  <2> QED
    BY <2>1, <2>2, <2>3, <2>4, <2>5, <2>6, <2>7 DEF TypeInv, TypeOK
<1>22. CASE UNCHANGED vars
  BY <1>22 DEF vars, TypeInv, TypeOK, ControlOK, MemoryOK, TapeOK, DiskOK, AlertsOK,
       BudgetOK, OutboxOK, sweep, memory, persisted, disk, budget
<1> QED
  BY <1>1, <1>2, <1>3, <1>4, <1>5, <1>6, <1>7, <1>8, <1>9, <1>10, <1>11, <1>12,
       <1>13, <1>14, <1>15, <1>16, <1>17, <1>18, <1>19, <1>20, <1>21, <1>22 DEF Next,
       Step, Poll, EvaluateOne, Deliver

(* The types are kept along every behaviour (all of Screener). *)
THEOREM TypeCorrect == Spec => []TypeOK
<1>1. TypeInv => TypeOK
  BY DEF TypeInv
<1> QED
  BY <1>1, InitType, NextType, PTL DEF Spec

-----------------------------------------------------------------------------
(* At most once. *)

OnDisk == \A n \in Indices(sent) : sent[n].key \in saved.alerted

NotSent(key) == \A n \in Indices(sent) : sent[n].key # key

(* What was sent is on disk, what is on disk is in memory while the process *)
(* is up, and the alert in hand was not sent; it is on disk when its turn   *)
(* to be delivered comes.                                                   *)
DeliverInv ==
  /\ SentOnce
  /\ OnDisk
  /\ pc # "down" => saved.alerted \subseteq alerted
  /\ ~saved.written => saved.alerted = {}
  /\ outbox = <<>> => stage = "check"
  /\ stage # "check" => NotSent(Alert1.key)
  /\ stage = "deliver" => Alert1.key \in saved.alerted

(* A step that leaves the books alone keeps the invariant, also when it     *)
(* puts new alerts in the outbox.                                           *)
LEMMA BooksAlone ==
  ASSUME DeliverInv, UNCHANGED <<saved, sent, alerted>>,
         pc' # "down" <=> pc # "down",
         UNCHANGED <<outbox, stage>> \/ stage' = "check"
  PROVE  DeliverInv'
  BY DEF DeliverInv, SentOnce, OnDisk, NotSent, Indices, Alert1

LEMMA InitDeliver == Init => DeliverInv
<1> SUFFICES ASSUME Init PROVE DeliverInv
  OBVIOUS
<1>1. Indices(sent) = {}
  BY DEF Init, Indices
<1>2. saved.alerted = {}
  BY DEF Init, Snapshot
<1> QED
  BY <1>1, <1>2 DEF Init, DeliverInv, SentOnce, OnDisk

LEMMA DieDeliver ==
  ASSUME DeliverInv, Die, UNCHANGED <<saved, sent>>
  PROVE  DeliverInv'
  BY DEF Die, EmptySweep, DeliverInv, SentOnce, OnDisk, NotSent, Indices

LEMMA NextDeliver == TypeInv /\ DeliverInv /\ [Next]_vars => DeliverInv'
<1> SUFFICES ASSUME TypeInv, DeliverInv, [Next]_vars PROVE DeliverInv'
  OBVIOUS
<1>1. CASE Start
  <2>1. saved.alerted \subseteq alerted'
    BY <1>1 DEF Start, DeliverInv
  <2>2. UNCHANGED <<saved, sent, outbox, stage>>
    BY <1>1 DEF Start, sweep, disk
  <2> QED
    BY <2>1, <2>2 DEF DeliverInv, SentOnce, OnDisk, NotSent, Indices, Alert1
<1>2. ASSUME NEW s \in Symbols, Poll(s) \/ EvaluateTerminal(s) \/ EvaluationRaises(s)
      PROVE  DeliverInv'
  <2>1. UNCHANGED <<saved, sent, alerted, outbox, stage>>
    BY <1>2 DEF Poll, PollAnswered, PollUnanswered, PollUnreadable, EvaluateTerminal,
       EvaluationRaises, memory, persisted, disk
  <2>2. pc # "down" /\ pc' # "down"
    BY <1>2 DEF Poll, PollAnswered, PollUnanswered, PollUnreadable, EvaluateTerminal,
       EvaluationRaises, Polling
  <2> QED
    BY <2>1, <2>2, BooksAlone
<1>3. CASE OpenSweep \/ HitDeadline \/ SecondPass \/ EndOfPolls
  <2>1. UNCHANGED <<saved, sent, alerted, outbox, stage>>
    BY <1>3 DEF OpenSweep, HitDeadline, SecondPass, EndOfPolls, memory, persisted, disk
  <2>2. pc # "down" /\ pc' # "down"
    BY <1>3 DEF OpenSweep, HitDeadline, SecondPass, EndOfPolls, Polling
  <2> QED
    BY <2>1, <2>2, BooksAlone
<1>4. ASSUME NEW s \in Symbols, Evaluate(s) PROVE DeliverInv'
  <2>1. UNCHANGED <<pc, saved, sent, alerted>> /\ stage' = "check"
    BY <1>4 DEF Evaluate, disk, DeliverInv
  <2> QED
    BY <2>1, BooksAlone
<1>5. CASE Withhold \/ SinkRaises
  <2>1. UNCHANGED <<pc, saved, sent, alerted>> /\ stage' = "check"
    BY <1>5 DEF Withhold, SinkRaises, InHand, memory, persisted, disk
  <2> QED
    BY <2>1, BooksAlone
<1>6. CASE RecordAlert
  <2>1. UNCHANGED <<pc, saved, sent, alerted>> /\ stage' = "remember" /\ outbox' # <<>>
    BY <1>6, InHandType, HeadTail DEF RecordAlert, InHand, memory, persisted
  <2>2. Alert1'.key = Alert1.key
    BY <1>6, InHandType DEF RecordAlert, InHand, Alert1, Alerts
  <2>3. NotSent(Alert1.key)
    <3>1. Alert1.key \notin saved.alerted
      BY <1>6, InHandType DEF RecordAlert, InHand, IsNews, DeliverInv
    <3> QED
      BY <3>1 DEF DeliverInv, OnDisk, NotSent
  <2> QED
    BY <2>1, <2>2, <2>3 DEF DeliverInv, SentOnce, OnDisk, NotSent, Indices
<1>7. CASE RememberAlert
  <2>1. /\ UNCHANGED <<pc, sent, outbox>> /\ stage' = "deliver" /\ outbox # <<>>
        /\ alerted' = alerted \cup {Alert1.key}
    BY <1>7 DEF RememberAlert, InHand
  <2>2. saved'.alerted = alerted' /\ saved'.written
    BY <1>7 DEF RememberAlert, Snapshot
  <2>3. saved.alerted \subseteq saved'.alerted /\ Alert1.key \in saved'.alerted
    BY <1>7, <2>1, <2>2, InHandType DEF DeliverInv
  <2>4. NotSent(Alert1.key) /\ Alert1' = Alert1
    BY <1>7, <2>1 DEF RememberAlert, InHand, DeliverInv, Alert1
  <2> QED
    BY <2>1, <2>2, <2>3, <2>4 DEF DeliverInv, SentOnce, OnDisk, NotSent, Indices
<1>8. CASE DeliverAlert
  <2>1. /\ UNCHANGED <<pc, saved, alerted>> /\ stage' = "check"
        /\ sent' = Append(sent, Alert1)
    BY <1>8 DEF DeliverAlert, memory, persisted, disk
  <2>2. NotSent(Alert1.key) /\ Alert1.key \in saved.alerted
    BY <1>8 DEF DeliverAlert, InHand, DeliverInv
  <2>3. /\ Indices(sent') = Indices(sent) \cup {Len(sent) + 1}
        /\ Len(sent) + 1 \notin Indices(sent)
        /\ \A n \in Indices(sent) : sent'[n] = sent[n]
        /\ sent'[Len(sent) + 1] = Alert1
    BY <1>8, <2>1, InHandType DEF DeliverAlert, InHand, Indices, TypeInv, TypeOK, AlertsOK
  <2>4. SentOnce'
    BY <2>2, <2>3 DEF DeliverInv, SentOnce, NotSent
  <2>5. OnDisk'
    BY <2>1, <2>2, <2>3 DEF DeliverInv, OnDisk
  <2> QED
    BY <2>1, <2>4, <2>5 DEF DeliverInv
<1>9. CASE WriteFails
  <2>1. UNCHANGED <<saved, sent>> /\ stage' = "check"
    BY <1>9 DEF WriteFails, Die, EmptySweep, disk
  <2>2. CASE pc = "evaluate"
    <3>1. UNCHANGED pc /\ alerted \subseteq alerted'
      BY <1>9, <2>2 DEF WriteFails
    <3> QED
      BY <2>1, <3>1 DEF DeliverInv, SentOnce, OnDisk, Indices
  <2>3. CASE pc # "evaluate"
    BY <1>9, <2>1, <2>3, DieDeliver DEF WriteFails
  <2> QED
    BY <2>2, <2>3
<1>10. CASE SettleBanner
  <2>1. UNCHANGED <<saved, sent, alerted>> /\ stage' = "check"
    BY <1>10 DEF SettleBanner, disk, DeliverInv
  <2>2. pc # "down" /\ pc' # "down"
    BY <1>10 DEF SettleBanner
  <2> QED
    BY <2>1, <2>2, BooksAlone
<1>11. CASE CloseSweep
  <2>1. /\ UNCHANGED <<sent, alerted, outbox, stage>>
        /\ pc # "down" /\ pc' # "down" /\ outbox = <<>>
    BY <1>11 DEF CloseSweep
  <2>2. saved'.alerted = alerted /\ saved'.written
    BY <1>11 DEF CloseSweep, Snapshot
  <2> QED
    BY <2>1, <2>2 DEF DeliverInv, SentOnce, OnDisk, Indices
<1>12. CASE Tick
  BY <1>12, BooksAlone DEF Tick, sweep, memory, persisted, disk
<1>13. CASE Crash
  BY <1>13, DieDeliver DEF Crash, disk
<1>14. CASE UNCHANGED vars
  BY <1>14, BooksAlone DEF vars, sweep, memory, persisted, disk
<1> QED
  BY <1>1, <1>2, <1>3, <1>4, <1>5, <1>6, <1>7, <1>8, <1>9, <1>10, <1>11, <1>12, <1>13,
     <1>14 DEF Next, Step, EvaluateOne, Deliver

(* No alert is delivered twice (_deliver, live_screener.py:1811), through   *)
(* any number of deaths and restarts.                                       *)
THEOREM AtMostOnce == Spec => []SentOnce
<1>1. Init => TypeInv /\ DeliverInv
  BY InitType, InitDeliver
<1>2. TypeInv /\ DeliverInv /\ [Next]_vars => (TypeInv /\ DeliverInv)'
  BY NextType, NextDeliver
<1>3. DeliverInv => SentOnce
  BY DEF DeliverInv
<1> QED
  BY <1>1, <1>2, <1>3, PTL DEF Spec

-----------------------------------------------------------------------------
(* What the log knows. *)

(* A reading has numbers exactly when it has a trigger; a symbol with a     *)
(* position, open or closed, has numbers.                                   *)
Consistent(r) == r.at = 0 <=> r.terms = None
Numbered(st) == st.phase \in {"triggered", "in-trade", "exited"} => st.terms # None

NumbersInv ==
  /\ \A s \in Symbols : Consistent(tape[s]) /\ Consistent(recorded[s].tape)
  /\ \A s \in Symbols : Numbered(states[s]) /\ Numbered(saved.states[s])

LEMMA NumberedEvaluation ==
  ASSUME TypeOK, NumbersInv, NEW s \in Symbols
  PROVE  Numbered(StateFrom(s))
<1>1. Consistent(tape[s]) /\ Numbered(states[s])
  BY DEF NumbersInv
<1>2. states[s] \in SymbolStates
  BY DEF TypeOK, MemoryOK
<1>3. Numbered(AfterRefusal(s))
  BY <1>2 DEF AfterRefusal, Numbered, RefusedFor, SymbolState, SymbolStates
<1>4. Numbered(Proposed(s))
  BY <1>1 DEF Proposed, Numbered, Consistent, SymbolState
<1> QED
  BY <1>1, <1>3, <1>4 DEF StateFrom, Monotonic

LEMMA NumberedSkip ==
  ASSUME TypeOK, NumbersInv, NEW S, NEW s \in Symbols
  PROVE  Numbered(SkipAll(S)[s])
<1>1. Numbered(states[s]) /\ states[s] \in SymbolStates
  BY DEF NumbersInv, TypeOK, MemoryOK
<1> QED
  BY <1>1 DEF SkipAll, Skipped, Numbered, SymbolStates

LEMMA ConsistentTaken ==
  ASSUME TypeOK, NumbersInv, NEW s \in Symbols, NEW r \in ReadingsAt(b), NEW twin
  PROVE  \A x \in Symbols : /\ Consistent(Taken(s, r, twin)[x].tape)
                            /\ Consistent([tape EXCEPT ![s] = r][x])
<1>1. Consistent(r)
  BY DEF ReadingsAt, Consistent
<1> QED
  BY <1>1 DEF NumbersInv, Taken, TypeOK, DiskOK, TapeOK

LEMMA InitNumbers == Init => NumbersInv
  BY DEF Init, NumbersInv, Consistent, Numbered, NoCandles, Reading, Waiting, SymbolState,
     Snapshot

LEMMA DieNumbers ==
  ASSUME NumbersInv, Die, UNCHANGED <<saved, recorded>>
  PROVE  NumbersInv'
  BY DEF NumbersInv, Die, ForgetAll, Consistent, Numbered, NoCandles, Reading, Waiting,
     SymbolState

LEMMA NextNumbers == TypeInv /\ NumbersInv /\ [Next]_vars => NumbersInv'
<1> SUFFICES ASSUME TypeInv, NumbersInv, [Next]_vars PROVE NumbersInv'
  OBVIOUS
<1> USE DEF TypeInv
<1>1. CASE Start
  <2>1. UNCHANGED <<saved, recorded>>
    BY <1>1 DEF Start, disk
  <2>2. CASE saved.written
    BY <1>1, <2>1, <2>2 DEF Start, NumbersInv
  <2>3. CASE ~saved.written
    BY <1>1, <2>1, <2>3 DEF Start, NumbersInv, memory, persisted
  <2> QED
    BY <2>2, <2>3
<1>2. ASSUME NEW s \in Symbols, PollAnswered(s) \/ PollUnreadable(s) PROVE NumbersInv'
  <2>1. \E S : states' \in {states, SkipAll(S)}
    BY <1>2 DEF PollAnswered, PollUnreadable, persisted
  <2>2. \A x \in Symbols : Numbered(states'[x])
    BY <2>1, NumberedSkip DEF NumbersInv
  <2>3. PICK r \in ReadingsAt(b), twin \in BOOLEAN :
          /\ tape' = [tape EXCEPT ![s] = r]
          /\ recorded' \in {recorded, Taken(s, r, twin)}
    <3>1. CASE PollAnswered(s)
      BY <3>1 DEF PollAnswered
    <3>2. CASE PollUnreadable(s)
      BY <3>2 DEF PollUnreadable
    <3> QED
      BY <1>2, <3>1, <3>2
  <2>4. UNCHANGED saved
    BY <1>2 DEF PollAnswered, PollUnreadable
  <2> QED
    BY <2>2, <2>3, <2>4, ConsistentTaken DEF NumbersInv
<1>3. ASSUME NEW s \in Symbols, Evaluate(s) PROVE NumbersInv'
  BY <1>3, NumberedEvaluation DEF Evaluate, disk, NumbersInv, TypeOK, MemoryOK
<1>4. ASSUME NEW s \in Symbols, EvaluationRaises(s) PROVE NumbersInv'
  <2>1. states' = SkipAll({s}) /\ UNCHANGED <<tape, saved, recorded>>
    BY <1>4 DEF EvaluationRaises, disk
  <2> QED
    BY <2>1, NumberedSkip DEF NumbersInv
<1>5. CASE SettleBanner
  <2>1. states' = SkipAll(missed) /\ UNCHANGED <<tape, saved, recorded>>
    BY <1>5 DEF SettleBanner, disk
  <2> QED
    BY <2>1, NumberedSkip DEF NumbersInv
<1>6. CASE RememberAlert \/ CloseSweep
  <2>1. UNCHANGED <<states, tape, recorded>> /\ saved'.states = states
    BY <1>6 DEF RememberAlert, CloseSweep, Snapshot
  <2> QED
    BY <2>1 DEF NumbersInv
<1>7. CASE WriteFails
  <2>1. UNCHANGED <<saved, recorded>>
    BY <1>7 DEF WriteFails, disk
  <2>2. CASE pc = "evaluate"
    <3>1. UNCHANGED tape /\ states' = SkipAll({Alert1.key.sym})
      BY <1>7, <2>2 DEF WriteFails
    <3> QED
      BY <2>1, <3>1, NumberedSkip DEF NumbersInv
  <2>3. CASE pc # "evaluate"
    BY <1>7, <2>1, <2>3, DieNumbers DEF WriteFails
  <2> QED
    BY <2>2, <2>3
<1>8. CASE Crash
  BY <1>8, DieNumbers DEF Crash, disk
<1>9. CASE UNCHANGED <<memory, saved, recorded>>
  BY <1>9 DEF memory, persisted, NumbersInv
<1>10. \A s \in Symbols : PollUnanswered(s) \/ EvaluateTerminal(s)
                            => UNCHANGED <<memory, saved, recorded>>
  BY DEF PollUnanswered, EvaluateTerminal, disk
<1>11. OpenSweep \/ HitDeadline \/ SecondPass \/ EndOfPolls \/ Withhold \/ RecordAlert
         \/ DeliverAlert \/ SinkRaises \/ Tick \/ UNCHANGED vars
       => UNCHANGED <<memory, saved, recorded>>
  BY DEF OpenSweep, HitDeadline, SecondPass, EndOfPolls, Withhold, RecordAlert,
     DeliverAlert, SinkRaises, Tick, vars, disk
<1> QED
  BY <1>1, <1>2, <1>3, <1>4, <1>5, <1>6, <1>7, <1>8, <1>9, <1>10, <1>11
     DEF Next, Step, Poll, EvaluateOne, Deliver

Logged(alert) == \E m \in Indices(log) : log[m] = alert
LoggedKey(key) == \E m \in Indices(log) : log[m].key = key

IsExit(key) == key.kind \in {"exit", "square-off"}
Opens(trigger, key) ==
  trigger.kind = "trigger" /\ trigger.sym = key.sym /\ trigger.terms = key.terms
TriggerLogged(key) == \E m \in Indices(log) : Opens(log[m].key, key)

(* An exit waits behind its trigger, or the trigger is logged already, or   *)
(* the session is over and neither will be.                                 *)
OutboxOrder ==
  \A n \in Indices(outbox) :
    IsExit(outbox[n].key) =>
      \/ b = PostSession
      \/ TriggerLogged(outbox[n].key)
      \/ n = 2 /\ Opens(outbox[1].key, outbox[2].key)

LogInv ==
  /\ SentIsRecorded
  /\ ExitFollowsTrigger
  /\ \A key \in alerted \cup saved.alerted : LoggedKey(key)
  /\ stage # "check" => Logged(Alert1)
  /\ OutboxOrder

(* A step that logs and delivers nothing and learns of no key. *)
LEMMA LogAlone ==
  ASSUME LogInv, UNCHANGED <<log, sent>>,
         alerted' \cup saved'.alerted \subseteq alerted \cup saved.alerted,
         UNCHANGED <<outbox, stage>> \/ stage' = "check",
         OutboxOrder'
  PROVE  LogInv'
  BY DEF LogInv, SentIsRecorded, ExitFollowsTrigger, LoggedKey, Logged, Indices, Alert1,
     Opens

LEMMA OrderAlone ==
  ASSUME LogInv, UNCHANGED <<log, outbox, b>>
  PROVE  OutboxOrder'
  BY DEF LogInv, OutboxOrder, TriggerLogged, Opens, Indices

LEMMA EmptyOrder == outbox' = <<>> => OutboxOrder'
  BY DEF OutboxOrder, Indices

(* What is left of the outbox when its head was logged, or will not be. *)
LEMMA TailOrder ==
  ASSUME LogInv, TypeInv, outbox # <<>>, outbox' = Tail(outbox), UNCHANGED <<log, b>>,
         b = PostSession \/ LoggedKey(Alert1.key)
  PROVE  OutboxOrder'
<1>1. /\ Len(outbox') = Len(outbox) - 1
      /\ \A n \in Indices(outbox') : n + 1 \in Indices(outbox) /\ outbox'[n] = outbox[n + 1]
  BY DEF TypeInv, TypeOK, AlertsOK, Indices
<1>2. Alert1 = outbox[1]
  BY DEF Alert1, TypeInv, TypeOK, AlertsOK
<1>0. \A k \in Indices(outbox) :
         IsExit(outbox[k].key) /\ b # PostSession
         => TriggerLogged(outbox[k].key) \/ (k = 2 /\ Opens(outbox[1].key, outbox[2].key))
  <2>1. OutboxOrder
    BY DEF LogInv
  <2> QED
    BY <2>1 DEF OutboxOrder
<1>3. ASSUME NEW n \in Indices(outbox'), IsExit(outbox'[n].key), b # PostSession
      PROVE  TriggerLogged(outbox'[n].key)
  <2>1. PICK k \in Indices(outbox) : k = n + 1 /\ outbox'[n] = outbox[k]
    BY <1>1
  <2>2. \/ TriggerLogged(outbox[k].key)
        \/ k = 2 /\ Opens(outbox[1].key, outbox[2].key)
    BY <1>0, <1>3, <2>1
  <2>3. CASE k = 2 /\ Opens(outbox[1].key, outbox[2].key)
    BY <2>1, <2>3, <1>2, <1>3 DEF LoggedKey, TriggerLogged
  <2> QED
    BY <2>1, <2>2, <2>3
<1> QED
  BY <1>3 DEF OutboxOrder, TriggerLogged

(* The alerts of one evaluation: an exit comes second, after its trigger. *)
LEMMA EvaluationOrder ==
  ASSUME NEW s \in Symbols, NEW st \in SymbolStates, NEW r \in Readings, Numbered(st),
         outbox' = AlertsFor(s, st, r)
  PROVE  OutboxOrder'
<1>1. /\ ~IsExit(UnmanagedAlert(s).key)
      /\ ~IsExit(ArmedAlert(s, st).key)
      /\ ~IsExit(TriggerAlert(s, st, r).key)
      /\ Opens(TriggerAlert(s, st, r).key, ExitAlert(s, st).key)
  BY DEF IsExit, Opens, UnmanagedAlert, ArmedAlert, TriggerAlert, ExitAlert, Alert, Key
<1>2. CASE st.phase = "exited"
  <2>1. outbox' = <<TriggerAlert(s, st, r)>> \o <<ExitAlert(s, st)>>
    BY <1>2 DEF AlertsFor, Numbered
  <2>2. /\ Len(outbox') = 2
        /\ outbox'[1] = TriggerAlert(s, st, r)
        /\ outbox'[2] = ExitAlert(s, st)
    BY <2>1
  <2> QED
    BY <1>1, <2>2 DEF OutboxOrder, Indices
<1>3. CASE st.phase # "exited"
  <2>1. outbox' \in {<<>>, <<UnmanagedAlert(s)>>, <<ArmedAlert(s, st)>>,
                     <<TriggerAlert(s, st, r)>>}
    BY <1>3 DEF AlertsFor
  <2> QED
    BY <1>1, <2>1 DEF OutboxOrder, Indices
<1> QED
  BY <1>2, <1>3

LEMMA InitLog == Init => LogInv
<1> SUFFICES ASSUME Init PROVE LogInv
  OBVIOUS
<1>1. Indices(sent) = {} /\ Indices(log) = {} /\ Indices(outbox) = {}
  BY DEF Init, Indices
<1>2. alerted = {} /\ saved.alerted = {} /\ stage = "check"
  BY DEF Init, Snapshot
<1> QED
  BY <1>1, <1>2 DEF LogInv, SentIsRecorded, ExitFollowsTrigger, OutboxOrder

LEMMA DieLog ==
  ASSUME LogInv, Die, UNCHANGED <<log, sent, saved>>
  PROVE  LogInv'
<1>1. outbox' = <<>> /\ stage' = "check" /\ alerted' = {}
  BY DEF Die, EmptySweep, ForgetAll
<1> QED
  BY <1>1, LogAlone, EmptyOrder

LEMMA NextLog ==
  TypeInv /\ DeliverInv /\ NumbersInv /\ LogInv /\ [Next]_vars => LogInv'
<1> SUFFICES ASSUME TypeInv, DeliverInv, NumbersInv, LogInv, [Next]_vars PROVE LogInv'
  OBVIOUS
<1>1. CASE Start
  <2>1. UNCHANGED <<log, sent, saved, outbox, stage, b>>
    BY <1>1 DEF Start, sweep, disk
  <2>2. alerted' \cup saved'.alerted \subseteq alerted \cup saved.alerted
    BY <1>1, <2>1 DEF Start, memory, persisted
  <2> QED
    BY <2>1, <2>2, LogAlone, OrderAlone
<1>2. ASSUME NEW s \in Symbols, Poll(s) \/ EvaluateTerminal(s) \/ EvaluationRaises(s)
      PROVE  LogInv'
  <2>1. UNCHANGED <<log, sent, saved, alerted, outbox, stage, b>>
    BY <1>2 DEF Poll, PollAnswered, PollUnanswered, PollUnreadable, EvaluateTerminal,
       EvaluationRaises, memory, persisted, disk
  <2> QED
    BY <2>1, LogAlone, OrderAlone
<1>3. CASE OpenSweep \/ HitDeadline \/ SecondPass \/ EndOfPolls \/ Tick \/ UNCHANGED vars
  <2>1. UNCHANGED <<log, sent, saved, alerted, outbox, stage, b>>
    BY <1>3 DEF OpenSweep, HitDeadline, SecondPass, EndOfPolls, Tick, vars, sweep, memory,
       persisted, disk
  <2> QED
    BY <2>1, LogAlone, OrderAlone
<1>4. ASSUME NEW s \in Symbols, Evaluate(s) PROVE LogInv'
  <2>1. UNCHANGED <<log, sent, saved, alerted>> /\ stage' = "check"
    BY <1>4 DEF Evaluate, disk, DeliverInv
  <2>2. outbox' = AlertsFor(s, StateFrom(s), tape[s])
    BY <1>4 DEF Evaluate
  <2>3. /\ StateFrom(s) \in SymbolStates /\ Numbered(StateFrom(s))
        /\ tape[s] \in Readings
    BY StateFromType, NumberedEvaluation DEF TypeInv, TypeOK, TapeOK
  <2>4. OutboxOrder'
    BY <2>2, <2>3, EvaluationOrder
  <2> QED
    BY <2>1, <2>4, LogAlone
<1>5. CASE Withhold
  <2>1. /\ UNCHANGED <<log, sent, saved, alerted, b>> /\ stage' = "check"
        /\ outbox # <<>> /\ outbox' = Tail(outbox)
    BY <1>5 DEF Withhold, InHand, memory, persisted, disk
  <2>2. b = PostSession \/ LoggedKey(Alert1.key)
    BY <1>5 DEF Withhold, IsNews, LogInv
  <2> QED
    BY <2>1, <2>2, TailOrder, LogAlone
<1>6. CASE SinkRaises
  <2>1. /\ UNCHANGED <<log, sent, saved, alerted, b>> /\ stage' = "check"
        /\ outbox # <<>> /\ outbox' = Tail(outbox)
    BY <1>6 DEF SinkRaises, InHand, memory, persisted, disk
  <2>2. LoggedKey(Alert1.key)
    BY <1>6 DEF SinkRaises, InHand, LogInv, Logged, LoggedKey
  <2> QED
    BY <2>1, <2>2, TailOrder, LogAlone
<1>7. CASE RecordAlert
  <2> DEFINE marked == [Alert1 EXCEPT !.correction = Superseded(Alert1.key)]
  <2>1. /\ UNCHANGED <<sent, saved, alerted, b>> /\ b # PostSession
        /\ outbox # <<>>
        /\ log' = Append(log, marked)
        /\ outbox' = <<marked>> \o Tail(outbox)
    BY <1>7 DEF RecordAlert, InHand, IsNews, memory, persisted
  <2>2. marked \in Alerts /\ marked.key = Alert1.key
    <3>1. Superseded(Alert1.key) \in BOOLEAN
      BY DEF Superseded
    <3> QED
      BY <2>1, <3>1, InHandType DEF Alerts
  <2>3. Alert1 = outbox[1] /\ Indices(outbox') = Indices(outbox)
    BY <2>1 DEF Alert1, Indices, TypeInv, TypeOK, AlertsOK
  <2>4. outbox'[1] = marked /\ \A n \in Indices(outbox) : n # 1 => outbox'[n] = outbox[n]
    BY <2>1, <2>2 DEF Indices, TypeInv, TypeOK, AlertsOK
  <2> HIDE DEF marked
  <2>5. /\ Len(log') = Len(log) + 1 /\ Len(log) \in Nat
        /\ \A n \in Indices(log) : n \in Indices(log') /\ n < Len(log') /\ log'[n] = log[n]
        /\ log'[Len(log')] = marked /\ Len(log') \in Indices(log')
        /\ \A n \in Indices(log') : n \in Indices(log) \/ n = Len(log')
    BY <2>1, <2>2 DEF Indices, TypeInv, TypeOK, AlertsOK
  <2>6. \A key : TriggerLogged(key) => TriggerLogged(key)'
    BY <2>5 DEF TriggerLogged
  <2>7. IsExit(marked.key) => TriggerLogged(marked.key)
    <3>1. 1 \in Indices(outbox)
      BY <2>1 DEF Indices, TypeInv, TypeOK, AlertsOK
    <3> QED
      BY <2>1, <2>2, <2>3, <3>1 DEF LogInv, OutboxOrder
  <2>8. ExitFollowsTrigger'
    <3>1. ASSUME NEW n \in Indices(log'), IsExit(log'[n].key)
          PROVE  \E m \in 1..(n - 1) : Opens(log'[m].key, log'[n].key)
      <4>1. CASE n \in Indices(log)
        <5>1. PICK m \in 1..(n - 1) : Opens(log[m].key, log[n].key)
          BY <3>1, <4>1, <2>5 DEF LogInv, ExitFollowsTrigger, IsExit, Opens
        <5>2. m \in Indices(log)
          BY <4>1, <2>5 DEF Indices
        <5> QED
          BY <4>1, <5>1, <5>2, <2>5
      <4>2. CASE n = Len(log')
        <5>1. PICK m \in Indices(log) : Opens(log[m].key, marked.key)
          BY <3>1, <4>2, <2>5, <2>7 DEF TriggerLogged
        <5>2. m \in 1..(n - 1)
          BY <4>2, <2>5 DEF Indices
        <5> QED
          BY <4>2, <5>1, <5>2, <2>5
      <4> QED
        BY <4>1, <4>2, <2>5
    <3> QED
      BY <3>1 DEF ExitFollowsTrigger, IsExit, Opens
  <2>9. SentIsRecorded'
    BY <2>1, <2>5 DEF LogInv, SentIsRecorded
  <2>10. \A key \in alerted' \cup saved'.alerted : LoggedKey(key)'
    BY <2>1, <2>5 DEF LogInv, LoggedKey
  <2>11. Logged(Alert1)'
    <3>1. Alert1' = marked
      BY <2>1, <2>2 DEF Alert1, TypeInv, TypeOK, AlertsOK
    <3> QED
      BY <3>1, <2>5 DEF Logged
  <2>12. OutboxOrder'
    <3>1. ASSUME NEW n \in Indices(outbox), IsExit(outbox[n].key)
          PROVE  \/ TriggerLogged(outbox[n].key)
                 \/ n = 2 /\ Opens(outbox[1].key, outbox[2].key)
      BY <2>1, <3>1 DEF LogInv, OutboxOrder
    <3>2. \A n \in Indices(outbox) : outbox'[n].key = outbox[n].key
      BY <2>2, <2>3, <2>4
    <3>3. 1 \in Indices(outbox)
      BY <2>1 DEF Indices, TypeInv, TypeOK, AlertsOK
    <3> QED
      BY <3>1, <3>2, <3>3, <2>3, <2>6 DEF OutboxOrder
  <2> QED
    BY <2>8, <2>9, <2>10, <2>11, <2>12 DEF LogInv
<1>8. CASE RememberAlert
  <2>1. /\ UNCHANGED <<log, sent, outbox, b>>
        /\ alerted' = alerted \cup {Alert1.key} /\ saved'.alerted = alerted'
        /\ stage = "remember" /\ Alert1' = Alert1
    BY <1>8 DEF RememberAlert, InHand, Snapshot, Alert1
  <2>2. Logged(Alert1) /\ LoggedKey(Alert1.key)
    BY <2>1 DEF LogInv, Logged, LoggedKey
  <2>3. OutboxOrder'
    BY <2>1, OrderAlone
  <2> QED
    BY <2>1, <2>2, <2>3 DEF LogInv, SentIsRecorded, ExitFollowsTrigger, Logged, LoggedKey
<1>9. CASE DeliverAlert
  <2>1. /\ UNCHANGED <<log, saved, alerted, b>> /\ stage' = "check" /\ stage = "deliver"
        /\ outbox # <<>> /\ outbox' = Tail(outbox) /\ sent' = Append(sent, Alert1)
    BY <1>9 DEF DeliverAlert, InHand, memory, persisted, disk
  <2>2. Logged(Alert1) /\ LoggedKey(Alert1.key)
    BY <2>1 DEF LogInv, Logged, LoggedKey
  <2>3. OutboxOrder'
    BY <2>1, <2>2, TailOrder
  <2>4. /\ Indices(sent') = Indices(sent) \cup {Len(sent) + 1}
        /\ \A n \in Indices(sent) : sent'[n] = sent[n]
        /\ sent'[Len(sent) + 1] = Alert1
    BY <2>1, InHandType DEF Indices, TypeInv, TypeOK, AlertsOK
  <2>5. SentIsRecorded'
    BY <2>1, <2>2, <2>4 DEF LogInv, SentIsRecorded, Logged
  <2> QED
    BY <2>1, <2>3, <2>5 DEF LogInv, ExitFollowsTrigger, LoggedKey
<1>10. CASE WriteFails
  <2>1. UNCHANGED <<log, sent, saved>> /\ stage' = "check" /\ outbox' = <<>>
    BY <1>10 DEF WriteFails, Die, EmptySweep, disk
  <2>2. \A key \in alerted' : LoggedKey(key)
    BY <1>10 DEF WriteFails, Die, ForgetAll, LogInv, Logged, LoggedKey
  <2>3. OutboxOrder'
    BY <2>1, EmptyOrder
  <2> QED
    BY <2>1, <2>2, <2>3 DEF LogInv, SentIsRecorded, ExitFollowsTrigger, LoggedKey
<1>11. CASE SettleBanner
  <2>1. UNCHANGED <<log, sent, saved, alerted>> /\ stage' = "check"
    BY <1>11 DEF SettleBanner, disk, DeliverInv
  <2>2. outbox' \in {<<>>, <<BannerAlert(b)>>} /\ ~IsExit(BannerAlert(b).key)
    BY <1>11 DEF SettleBanner, BannerAlert, Alert, Key, IsExit
  <2>3. OutboxOrder'
    BY <2>2 DEF OutboxOrder, Indices
  <2> QED
    BY <2>1, <2>3, LogAlone
<1>12. CASE CloseSweep
  <2>1. UNCHANGED <<log, sent, alerted, outbox, stage>> /\ outbox = <<>>
    BY <1>12 DEF CloseSweep
  <2>2. saved'.alerted = alerted
    BY <1>12 DEF CloseSweep, Snapshot
  <2>3. OutboxOrder'
    BY <2>1, EmptyOrder
  <2> QED
    BY <2>1, <2>2, <2>3, LogAlone
<1>13. CASE Crash
  BY <1>13, DieLog DEF Crash, disk
<1> QED
  BY <1>1, <1>2, <1>3, <1>4, <1>5, <1>6, <1>7, <1>8, <1>9, <1>10, <1>11, <1>12, <1>13
     DEF Next, Step, EvaluateOne, Deliver

LEMMA LogAlways == Spec => [](SentIsRecorded /\ ExitFollowsTrigger)
<1> DEFINE Inv == TypeInv /\ DeliverInv /\ NumbersInv /\ LogInv
<1>1. Init => Inv
  BY InitType, InitDeliver, InitNumbers, InitLog
<1>2. Inv /\ [Next]_vars => Inv'
  BY NextType, NextDeliver, NextNumbers, NextLog
<1>3. Inv => SentIsRecorded /\ ExitFollowsTrigger
  BY DEF LogInv
<1> QED
  BY <1>1, <1>2, <1>3, PTL DEF Spec

(* Whatever reached a sink is in alerts.jsonl as it was sent (_deliver      *)
(* records before it delivers).                                             *)
THEOREM SentAlertsAreRecorded == Spec => []SentIsRecorded
  BY LogAlways, PTL

(* Every recorded exit follows the trigger with its numbers, through missed *)
(* sweeps, failed writes and restarts (_alerts_for derives alerts from the  *)
(* state).                                                                  *)
THEOREM ExitsFollowTriggers == Spec => []ExitFollowsTrigger
  BY LogAlways, PTL

-----------------------------------------------------------------------------
(* Corrections. *)

SameMatter(one, two) == one.key.sym = two.key.sym /\ one.key.kind = two.key.kind

(* An alert about to go out on a matter already sent says so. *)
MarkInv ==
  /\ SecondThoughtsAreMarked
  /\ stage # "check" =>
       \A n \in Indices(sent) : SameMatter(sent[n], Alert1) => Alert1.correction

LEMMA MarksAlone ==
  ASSUME MarkInv, UNCHANGED sent, UNCHANGED <<outbox, stage>> \/ stage' = "check"
  PROVE  MarkInv'
  BY DEF MarkInv, SecondThoughtsAreMarked, SameMatter, Indices, Alert1

LEMMA NextMark == TypeInv /\ DeliverInv /\ MarkInv /\ [Next]_vars => MarkInv'
<1> SUFFICES ASSUME TypeInv, DeliverInv, MarkInv, [Next]_vars PROVE MarkInv'
  OBVIOUS
<1>1. CASE RecordAlert
  <2> DEFINE marked == [Alert1 EXCEPT !.correction = Superseded(Alert1.key)]
  <2>1. UNCHANGED sent /\ outbox # <<>> /\ outbox' = <<marked>> \o Tail(outbox)
    BY <1>1 DEF RecordAlert, InHand
  <2>2. marked \in Alerts /\ marked.correction = Superseded(Alert1.key)
        /\ marked.key = Alert1.key
    <3>1. Superseded(Alert1.key) \in BOOLEAN
      BY DEF Superseded
    <3> QED
      BY <2>1, <3>1, InHandType DEF Alerts
  <2>3. Alert1' = marked
    BY <2>1, <2>2 DEF Alert1, TypeInv, TypeOK, AlertsOK
  <2>4. ASSUME NEW n \in Indices(sent), SameMatter(sent[n], Alert1)
        PROVE  Superseded(Alert1.key)
    <3>1. sent[n].key \in alerted
      BY <2>1, InHandType DEF DeliverInv, OnDisk
    <3> QED
      BY <2>4, <3>1 DEF Superseded, SameMatter
  <2> HIDE DEF marked
  <2> QED
    BY <2>1, <2>2, <2>3, <2>4 DEF MarkInv, SecondThoughtsAreMarked, SameMatter, Indices
<1>2. CASE RememberAlert
  <2>1. UNCHANGED <<sent, outbox>> /\ stage = "remember"
    BY <1>2 DEF RememberAlert, InHand
  <2> QED
    BY <2>1 DEF MarkInv, SecondThoughtsAreMarked, SameMatter, Indices, Alert1
<1>3. CASE DeliverAlert
  <2>1. stage = "deliver" /\ stage' = "check" /\ sent' = Append(sent, Alert1)
        /\ outbox # <<>>
    BY <1>3 DEF DeliverAlert, InHand
  <2>2. /\ Indices(sent') = Indices(sent) \cup {Len(sent) + 1}
        /\ \A n \in Indices(sent) : sent'[n] = sent[n] /\ n < Len(sent) + 1 /\ n \in Nat
        /\ sent'[Len(sent) + 1] = Alert1 /\ Len(sent) \in Nat
    BY <2>1, InHandType DEF Indices, TypeInv, TypeOK, AlertsOK
  <2>3. \A n \in Indices(sent) : SameMatter(sent[n], Alert1) => Alert1.correction
    BY <2>1 DEF MarkInv
  <2>4. ASSUME NEW m \in Indices(sent'), NEW n \in Indices(sent'), m < n,
               SameMatter(sent'[m], sent'[n])
        PROVE  sent'[n].correction
    <3>1. m \in Indices(sent)
      BY <2>2, <2>4
    <3>2. CASE n \in Indices(sent)
      BY <2>2, <2>4, <3>1, <3>2 DEF MarkInv, SecondThoughtsAreMarked, SameMatter
    <3>3. CASE n = Len(sent) + 1
      BY <2>2, <2>3, <2>4, <3>1, <3>3
    <3> QED
      BY <2>2, <3>2, <3>3
  <2> QED
    BY <2>1, <2>4 DEF MarkInv, SecondThoughtsAreMarked, SameMatter
<1>4. CASE UNCHANGED sent /\ (UNCHANGED <<outbox, stage>> \/ stage' = "check")
  BY <1>4, MarksAlone
<1>5. \A s \in Symbols : Poll(s) \/ EvaluateOne(s)
                          => UNCHANGED sent /\ (UNCHANGED <<outbox, stage>> \/ stage' = "check")
  BY DEF Poll, EvaluateOne, PollAnswered, PollUnanswered, PollUnreadable, EvaluateTerminal,
     Evaluate, EvaluationRaises, DeliverInv
<1>6. Start \/ OpenSweep \/ HitDeadline \/ SecondPass \/ EndOfPolls \/ Withhold \/ SinkRaises
        \/ WriteFails \/ SettleBanner \/ CloseSweep \/ Tick \/ Crash \/ UNCHANGED vars
      => UNCHANGED sent /\ (UNCHANGED <<outbox, stage>> \/ stage' = "check")
  BY DEF Start, OpenSweep, HitDeadline, SecondPass, EndOfPolls, Withhold, InHand, SinkRaises,
     WriteFails, SettleBanner, CloseSweep, Tick, Crash, vars, sweep, Die, EmptySweep,
     DeliverInv
<1> QED
  BY <1>1, <1>2, <1>3, <1>4, <1>5, <1>6 DEF Next, Step, Deliver

(* A second alert of a symbol and kind is marked as a correction, whatever  *)
(* restarts lie between the two (_deliver compares with the identities it   *)
(* has on disk).                                                            *)
THEOREM SecondAlertsAreMarked == Spec => []SecondThoughtsAreMarked
<1> DEFINE Inv == TypeInv /\ DeliverInv /\ MarkInv
<1>1. Init => Inv
  <2>1. Init => MarkInv
    BY DEF Init, MarkInv, SecondThoughtsAreMarked, Indices
  <2> QED
    BY <2>1, InitType, InitDeliver
<1>2. Inv /\ [Next]_vars => Inv'
  BY NextType, NextDeliver, NextMark
<1>3. Inv => SecondThoughtsAreMarked
  BY DEF MarkInv
<1> QED
  BY <1>1, <1>2, <1>3, PTL DEF Spec

-----------------------------------------------------------------------------
(* One POC. *)

(* An alert that quotes a POC quotes the one pinned for its symbol. *)
Quotes(alert, pinned) ==
  alert.poc # None => alert.key.sym \in Symbols /\ alert.poc = pinned[alert.key.sym]

(* What is sent quotes a pin that is on disk, and a pin on disk is the pin  *)
(* in memory while the process is up.                                       *)
PocInv ==
  /\ \A s \in Symbols : states[s].poc \in {None, pins[s]}
  /\ \A s \in Symbols : saved.states[s].poc \in {None, saved.pins[s]}
  /\ pc # "down" => \A s \in Symbols : saved.pins[s] \in {None, pins[s]}
  /\ ~saved.written => \A s \in Symbols : saved.pins[s] = None
  /\ \A n \in Indices(outbox) : Quotes(outbox[n], pins)
  /\ \A n \in Indices(sent) : Quotes(sent[n], saved.pins)
  /\ stage = "deliver" => Quotes(Alert1, saved.pins)

LEMMA InitPoc == Init => PocInv
<1> SUFFICES ASSUME Init PROVE PocInv
  OBVIOUS
<1>1. Indices(outbox) = {} /\ Indices(sent) = {} /\ stage = "check" /\ pc = "down"
  BY DEF Init, Indices
<1>2. \A s \in Symbols : /\ states[s].poc = None
                         /\ saved.states[s].poc = None /\ saved.pins[s] = None
  BY DEF Init, Snapshot, Waiting, SymbolState
<1> QED
  BY <1>1, <1>2 DEF PocInv

LEMMA SkippedPoc ==
  ASSUME TypeOK, NEW S, NEW s \in Symbols
  PROVE  SkipAll(S)[s].poc = states[s].poc
  BY DEF TypeOK, MemoryOK, SkipAll, Skipped, SymbolStates

(* A pinned POC stays in force; an evaluated state quotes the one in force. *)
LEMMA PinnedEvaluation ==
  ASSUME TypeOK, PocInv, NEW s \in Symbols
  PROVE  /\ pins[s] \in {None, PocInForce(s)}
         /\ StateFrom(s).poc \in {None, PocInForce(s)}
<1>1. pins[s] \in {None, PocInForce(s)}
  BY DEF PocInForce
<1>2. states[s].poc \in {None, PocInForce(s)} /\ states[s] \in SymbolStates
  BY <1>1 DEF PocInv, TypeOK, MemoryOK
<1>3. AfterRefusal(s).poc \in {None, PocInForce(s)}
  BY <1>2 DEF AfterRefusal, RefusedFor, SymbolState, SymbolStates
<1>4. Proposed(s).poc = PocInForce(s)
  BY DEF Proposed, SymbolState
<1> QED
  BY <1>1, <1>2, <1>3, <1>4 DEF StateFrom, Monotonic

(* The alerts of one evaluation quote what its state quotes. *)
LEMMA EvaluationQuotes ==
  ASSUME NEW s \in Symbols, NEW st, NEW r, NEW pinned, st.poc \in {None, pinned[s]},
         NEW alerts, alerts = AlertsFor(s, st, r)
  PROVE  \A n \in Indices(alerts) : Quotes(alerts[n], pinned)
<1>1. /\ Quotes(UnmanagedAlert(s), pinned)
      /\ Quotes(ArmedAlert(s, st), pinned)
      /\ Quotes(TriggerAlert(s, st, r), pinned)
      /\ Quotes(ExitAlert(s, st), pinned)
  BY DEF Quotes, UnmanagedAlert, ArmedAlert, TriggerAlert, ExitAlert, Alert, Key
<1>2. CASE st.phase = "exited" /\ st.terms # None
  <2>1. alerts = <<TriggerAlert(s, st, r)>> \o <<ExitAlert(s, st)>>
    BY <1>2 DEF AlertsFor
  <2>2. Len(alerts) = 2 /\ alerts[1] = TriggerAlert(s, st, r) /\ alerts[2] = ExitAlert(s, st)
    BY <2>1
  <2> QED
    BY <1>1, <2>2 DEF Indices
<1>3. CASE st.phase = "exited" /\ st.terms = None
  <2>1. alerts = <<>> \o <<ExitAlert(s, st)>>
    BY <1>3 DEF AlertsFor
  <2>2. Len(alerts) = 1 /\ alerts[1] = ExitAlert(s, st)
    BY <2>1
  <2> QED
    BY <1>1, <2>2 DEF Indices
<1>4. CASE st.phase # "exited"
  <2>1. alerts \in {<<>>, <<UnmanagedAlert(s)>>, <<ArmedAlert(s, st)>>,
                    <<TriggerAlert(s, st, r)>>}
    BY <1>4 DEF AlertsFor
  <2> QED
    BY <1>1, <2>1 DEF Indices
<1> QED
  BY <1>2, <1>3, <1>4

(* A step that writes and sends nothing, and pins and shows the same. *)
LEMMA PocAlone ==
  ASSUME PocInv, UNCHANGED <<saved, sent, pins>>,
         pc' # "down" => pc # "down",
         \A s \in Symbols : states'[s].poc = states[s].poc,
         \A n \in Indices(outbox') : Quotes(outbox'[n], pins),
         UNCHANGED <<outbox, stage>> \/ stage' = "check"
  PROVE  PocInv'
  BY DEF PocInv, Indices, Quotes, Alert1

LEMMA QuotesInHand ==
  ASSUME TypeInv, PocInv, outbox # <<>>
  PROVE  /\ Quotes(Alert1, pins)
         /\ outbox' = Tail(outbox) => \A n \in Indices(outbox') : Quotes(outbox'[n], pins)
<1>1. Alert1 = outbox[1] /\ 1 \in Indices(outbox)
  BY DEF Alert1, Indices, TypeInv, TypeOK, AlertsOK
<1>2. outbox' = Tail(outbox) => 
        \A n \in Indices(outbox') : n + 1 \in Indices(outbox) /\ outbox'[n] = outbox[n + 1]
  BY DEF Indices, TypeInv, TypeOK, AlertsOK
<1> QED
  BY <1>1, <1>2 DEF PocInv

LEMMA DiePoc ==
  ASSUME PocInv, Die, UNCHANGED <<saved, sent>>
  PROVE  PocInv'
<1>1. Indices(outbox') = {} /\ stage' = "check" /\ pc' = "down"
  BY DEF Die, EmptySweep, Indices
<1>2. \A s \in Symbols : states'[s].poc = None
  BY DEF Die, ForgetAll, Waiting, SymbolState
<1> QED
  BY <1>1, <1>2 DEF PocInv, Quotes, Indices

LEMMA NextPoc == TypeInv /\ DeliverInv /\ PocInv /\ [Next]_vars => PocInv'
<1> SUFFICES ASSUME TypeInv, DeliverInv, PocInv, [Next]_vars PROVE PocInv'
  OBVIOUS
<1> USE DEF TypeInv
<1>0. \A n \in Indices(outbox) : Quotes(outbox[n], pins)
  BY DEF PocInv
<1>1. CASE Start
  <2>1. UNCHANGED <<saved, sent, outbox, stage>> /\ pc = "down"
    BY <1>1 DEF Start, sweep, disk
  <2>2. outbox = <<>> /\ stage = "check"
    BY <2>1 DEF OutboxOK, DeliverInv
  <2>3. CASE saved.written
    <3>1. states' = saved.states /\ pins' = saved.pins
      BY <1>1, <2>3 DEF Start
    <3> QED
      BY <2>1, <2>2, <2>3, <3>1 DEF PocInv, Indices, Quotes
  <2>4. CASE ~saved.written
    <3>1. UNCHANGED <<states, pins>>
      BY <1>1, <2>4 DEF Start, memory, persisted
    <3> QED
      BY <2>1, <2>2, <2>4, <3>1 DEF PocInv, Indices, Quotes
  <2> QED
    BY <2>3, <2>4
<1>2. ASSUME NEW s \in Symbols, Poll(s) \/ EvaluateTerminal(s) PROVE PocInv'
  <2>1. UNCHANGED <<saved, sent, pins, outbox, stage, pc>>
    BY <1>2 DEF Poll, PollAnswered, PollUnanswered, PollUnreadable, EvaluateTerminal,
       memory, persisted, disk
  <2>2. \E S : states' \in {states, SkipAll(S)}
    BY <1>2 DEF Poll, PollAnswered, PollUnanswered, PollUnreadable, EvaluateTerminal,
       memory, persisted
  <2>3. \A x \in Symbols : states'[x].poc = states[x].poc
    BY <2>2, SkippedPoc
  <2> QED
    BY <2>1, <2>3, <1>0, PocAlone DEF Indices
<1>3. ASSUME NEW s \in Symbols, Evaluate(s) PROVE PocInv'
  <2>1. /\ UNCHANGED <<saved, sent, pc>> /\ stage' = "check" /\ pc # "down"
        /\ pins' = [pins EXCEPT ![s] = PocInForce(s)]
        /\ states' = [states EXCEPT ![s] = StateFrom(s)]
        /\ outbox' = AlertsFor(s, StateFrom(s), tape[s])
    BY <1>3 DEF Evaluate, disk, DeliverInv
  <2>2. /\ pins' [s] = PocInForce(s) /\ \A x \in Symbols : pins[x] \in {None, pins'[x]}
        /\ \A x \in Symbols : x # s => pins'[x] = pins[x]
    BY <2>1, PinnedEvaluation DEF TypeOK, MemoryOK
  <2>3. \A x \in Symbols : states'[x].poc \in {None, pins'[x]}
    BY <2>1, <2>2, PinnedEvaluation DEF TypeOK, MemoryOK, PocInv
  <2>4. \A n \in Indices(outbox') : Quotes(outbox'[n], pins')
    <3>1. StateFrom(s).poc \in {None, pins'[s]}
      BY <2>2, PinnedEvaluation
    <3> DEFINE alerts == AlertsFor(s, StateFrom(s), tape[s])
    <3>2. \A n \in Indices(alerts) : Quotes(alerts[n], pins')
      <4> HIDE DEF alerts
      <4>1. alerts = AlertsFor(s, StateFrom(s), tape[s])
        BY DEF alerts
      <4> QED
        BY <3>1, <4>1, EvaluationQuotes
    <3> QED
      BY <2>1, <3>2
  <2>5. \A x \in Symbols : saved.pins[x] \in {None, pins'[x]}
    BY <2>1, <2>2 DEF PocInv
  <2> QED
    BY <2>1, <2>3, <2>4, <2>5 DEF PocInv, Quotes, Indices
<1>4. ASSUME NEW s \in Symbols, EvaluationRaises(s) PROVE PocInv'
  <2>1. /\ UNCHANGED <<saved, sent, pc, outbox, stage>> /\ outbox = <<>> /\ stage = "check"
        /\ pins' \in {pins, [pins EXCEPT ![s] = PocInForce(s)]}
        /\ states' = SkipAll({s})
    BY <1>4 DEF EvaluationRaises, disk, DeliverInv
  <2>2. \A x \in Symbols : pins[x] \in {None, pins'[x]}
    BY <2>1, PinnedEvaluation DEF TypeOK, MemoryOK
  <2>3. \A x \in Symbols : states'[x].poc \in {None, pins'[x]}
    BY <2>1, <2>2, SkippedPoc DEF PocInv
  <2>4. pc # "down" => \A x \in Symbols : saved.pins[x] \in {None, pins'[x]}
    BY <2>2 DEF PocInv
  <2>5. Indices(outbox') = {} /\ UNCHANGED <<saved, sent, pc, stage>> /\ stage = "check"
    BY <2>1 DEF Indices
  <2> QED
    BY <2>3, <2>4, <2>5 DEF PocInv, Quotes
<1>5. CASE Withhold \/ SinkRaises
  <2>1. /\ UNCHANGED <<saved, sent, pins, states, pc>> /\ stage' = "check"
        /\ outbox # <<>> /\ outbox' = Tail(outbox)
    BY <1>5 DEF Withhold, SinkRaises, InHand, memory, persisted, disk
  <2> QED
    BY <2>1, QuotesInHand, PocAlone
<1>6. CASE RecordAlert
  <2> DEFINE marked == [Alert1 EXCEPT !.correction = Superseded(Alert1.key)]
  <2>1. /\ UNCHANGED <<saved, sent, pins, states, pc>> /\ stage' = "remember"
        /\ outbox # <<>> /\ outbox' = <<marked>> \o Tail(outbox)
    BY <1>6 DEF RecordAlert, InHand, memory, persisted
  <2>2. marked \in Alerts /\ marked.key = Alert1.key /\ marked.poc = Alert1.poc
    <3>1. Superseded(Alert1.key) \in BOOLEAN
      BY DEF Superseded
    <3> QED
      BY <2>1, <3>1, InHandType DEF Alerts
  <2>3. /\ Indices(outbox') = Indices(outbox) /\ outbox'[1] = marked
        /\ \A n \in Indices(outbox) : n # 1 => outbox'[n] = outbox[n]
    BY <2>1, <2>2 DEF Indices, TypeOK, AlertsOK
  <2>4. Quotes(marked, pins)
    BY <2>1, <2>2, QuotesInHand DEF Quotes
  <2> HIDE DEF marked
  <2> QED
    BY <2>1, <2>3, <2>4 DEF PocInv, Quotes, Indices
<1>7. CASE RememberAlert
  <2>1. /\ UNCHANGED <<sent, pins, states, pc, outbox>> /\ outbox # <<>>
        /\ saved'.pins = pins /\ saved'.states = states /\ saved'.written
    BY <1>7 DEF RememberAlert, InHand, Snapshot
  <2>2. Quotes(Alert1, pins) /\ Alert1' = Alert1 /\ pc # "down"
    BY <2>1, QuotesInHand, InHandType DEF Alert1
  <2>3. \A n \in Indices(sent) : Quotes(sent[n], pins)
    BY <2>2 DEF PocInv, Quotes
  <2> QED
    BY <2>1, <2>2, <2>3 DEF PocInv, Quotes, Indices
<1>8. CASE DeliverAlert
  <2>1. /\ UNCHANGED <<saved, pins, states, pc>> /\ stage = "deliver" /\ stage' = "check"
        /\ outbox # <<>> /\ outbox' = Tail(outbox) /\ sent' = Append(sent, Alert1)
    BY <1>8 DEF DeliverAlert, InHand, memory, persisted, disk
  <2>2. Quotes(Alert1, saved.pins)
    BY <2>1 DEF PocInv
  <2>3. /\ Indices(sent') = Indices(sent) \cup {Len(sent) + 1}
        /\ \A n \in Indices(sent) : sent'[n] = sent[n]
        /\ sent'[Len(sent) + 1] = Alert1
    BY <2>1, InHandType DEF Indices, TypeOK, AlertsOK
  <2>4. \A n \in Indices(sent') : Quotes(sent'[n], saved.pins)
    BY <2>2, <2>3 DEF PocInv
  <2>5. \A n \in Indices(outbox') : Quotes(outbox'[n], pins)
    BY <2>1, QuotesInHand
  <2> QED
    BY <2>1, <2>4, <2>5 DEF PocInv, Quotes
<1>9. CASE WriteFails
  <2>1. UNCHANGED <<saved, sent>> /\ stage' = "check" /\ outbox' = <<>>
    BY <1>9 DEF WriteFails, Die, EmptySweep, disk
  <2>2. CASE pc = "evaluate"
    <3>1. UNCHANGED <<pins, pc>> /\ states' = SkipAll({Alert1.key.sym})
      BY <1>9, <2>2 DEF WriteFails
    <3>2. Indices(outbox') = {}
      BY <2>1 DEF Indices
    <3> QED
      BY <2>1, <3>1, <3>2, SkippedPoc, PocAlone
  <2>3. CASE pc # "evaluate"
    BY <1>9, <2>1, <2>3, DiePoc DEF WriteFails
  <2> QED
    BY <2>2, <2>3
<1>10. CASE SettleBanner
  <2>1. /\ UNCHANGED <<saved, sent, pins>> /\ stage' = "check" /\ pc # "down"
        /\ states' = SkipAll(missed) /\ outbox' \in {<<>>, <<BannerAlert(b)>>}
    BY <1>10 DEF SettleBanner, disk, DeliverInv
  <2>2. \A n \in Indices(outbox') : Quotes(outbox'[n], pins)
    BY <2>1 DEF Indices, Quotes, BannerAlert, Alert
  <2> QED
    BY <2>1, <2>2, SkippedPoc, PocAlone
<1>11. CASE CloseSweep
  <2>1. /\ UNCHANGED <<sent, pins, states, outbox, stage>> /\ outbox = <<>> /\ stage = "check"
        /\ saved'.pins = pins /\ saved'.states = states /\ saved'.written /\ pc # "down"
    BY <1>11 DEF CloseSweep, Snapshot, DeliverInv
  <2>2. \A n \in Indices(sent) : Quotes(sent[n], pins)
    BY <2>1 DEF PocInv, Quotes
  <2> QED
    BY <2>1, <2>2 DEF PocInv, Quotes, Indices
<1>12. CASE Crash
  BY <1>12, DiePoc DEF Crash, disk
<1>13. CASE OpenSweep \/ HitDeadline \/ SecondPass \/ EndOfPolls \/ Tick \/ UNCHANGED vars
  <2>1. UNCHANGED <<saved, sent, pins, states, outbox, stage>>
        /\ (pc' # "down" => pc # "down")
    BY <1>13 DEF OpenSweep, HitDeadline, SecondPass, EndOfPolls, Tick, vars, sweep, memory,
       persisted, disk, Polling
  <2> QED
    BY <2>1, <1>0, PocAlone DEF Indices
<1> QED
  BY <1>1, <1>2, <1>3, <1>4, <1>5, <1>6, <1>7, <1>8, <1>9, <1>10, <1>11, <1>12, <1>13
     DEF Next, Step, EvaluateOne, Deliver

(* All alerts of a symbol quote one POC (CONTEXT 3.3), although a death     *)
(* between pinning and saving may pin another: _deliver saves the pin       *)
(* before an alert that quotes it goes out.                                 *)
THEOREM OnePocInForce == Spec => []OnePocQuoted
<1> DEFINE Inv == TypeInv /\ DeliverInv /\ PocInv
<1>1. Init => Inv
  BY InitType, InitDeliver, InitPoc
<1>2. Inv /\ [Next]_vars => Inv'
  BY NextType, NextDeliver, NextPoc
<1>3. Inv => OnePocQuoted
  BY DEF PocInv, Quotes, OnePocQuoted
<1> QED
  BY <1>1, <1>2, <1>3, PTL DEF Spec

-----------------------------------------------------------------------------
(* What is not taken back, and what is shown. *)

(* A process that is down knows nothing and would start with the first sweep. *)
FreshInv == pc = "down" => b = 1 /\ \A s \in Symbols : states[s] = Waiting

LEMMA NextFresh == FreshInv /\ [Next]_vars => FreshInv'
<1> SUFFICES ASSUME FreshInv, [Next]_vars PROVE FreshInv'
  OBVIOUS
<1>1. Die => FreshInv'
  BY DEF Die, ForgetAll, FreshInv
<1>2. WriteFails \/ Crash => Die \/ pc' = "evaluate"
  BY DEF WriteFails, Crash
<1>3. Tick \/ UNCHANGED vars => UNCHANGED <<pc, b, states>>
  BY DEF Tick, vars, memory, persisted
<1>4. Deliver => WriteFails \/ UNCHANGED <<pc, b, states>>
  BY DEF Deliver, Withhold, RecordAlert, RememberAlert, DeliverAlert, SinkRaises, memory,
     persisted
<1>5. Step => Deliver \/ pc' # "down"
  BY DEF Step, Start, OpenSweep, Poll, PollAnswered, PollUnanswered, PollUnreadable,
     EvaluateOne, EvaluateTerminal, Evaluate, EvaluationRaises, HitDeadline, SecondPass,
     EndOfPolls, SettleBanner, CloseSweep, Polling
<1> QED
  BY <1>1, <1>2, <1>3, <1>4, <1>5 DEF Next, FreshInv

(* An evaluation keeps what was reached, or ends in a refusal. *)
LEMMA EvaluationKeeps ==
  ASSUME TypeOK, NEW s \in Symbols
  PROVE  \/ ReachedRank(StateFrom(s)) >= ReachedRank(states[s])
         \/ StateFrom(s).phase = "refused"
<1>1. ReachedRank(states[s]) \in 0..3
  BY DEF ReachedRank
<1>2. AfterRefusal(s).phase = "refused"
  <2>1. states[s] \in SymbolStates
    BY DEF TypeOK, MemoryOK
  <2> QED
    BY <2>1 DEF AfterRefusal, RefusedFor, SymbolState, SymbolStates
<1> QED
  BY <1>1, <1>2 DEF StateFrom, Monotonic

(* A missed sweep, a failed intake or evaluation keeps a position. *)
LEMMA SkippedKeeps ==
  ASSUME TypeOK, NEW S, NEW s \in Symbols, ReachedRank(states[s]) >= 2
  PROVE  ReachedRank(SkipAll(S)[s]) = ReachedRank(states[s])
<1>1. states[s] \in SymbolStates
  BY DEF TypeOK, MemoryOK
<1> QED
  BY <1>1 DEF SkipAll, Skipped, ReachedRank, SymbolStates

(* A position or an exit is walked back by a refusal or lost with the       *)
(* process, never by what the feed revises or a sweep misses (_monotonic    *)
(* and the three relabellings).                                             *)
THEOREM RefusalsAlone == Spec => OnlyRefusalsWalkBack
<1> DEFINE A == \A s \in Symbols :
                  /\ ReachedRank(states[s]) >= LabelRank("triggered")
                  /\ ReachedRank(states'[s]) < ReachedRank(states[s])
                  => pc' = "down" \/ states'[s].phase = "refused"
<1>1. TypeInv /\ FreshInv /\ [Next]_vars => [A]_vars
  <2> SUFFICES ASSUME TypeInv, FreshInv, Next,
                      NEW s \in Symbols, ReachedRank(states[s]) >= LabelRank("triggered"),
                      ReachedRank(states'[s]) < ReachedRank(states[s])
               PROVE  pc' = "down" \/ states'[s].phase = "refused"
    OBVIOUS
  <2>1. TypeOK /\ ReachedRank(states[s]) >= 2 /\ ReachedRank(states[s]) \in 0..3
    BY DEF TypeInv, LabelRank, ReachedRank
  <2>2. pc # "down"
    BY <2>1 DEF FreshInv, Waiting, SymbolState, ReachedRank
  <2>3. ~UNCHANGED states /\ \A S : states' # SkipAll(S)
    BY <2>1, SkippedKeeps
  <2>4. ASSUME NEW x \in Symbols, Evaluate(x) PROVE states'[s].phase = "refused"
    <3>1. states' = [states EXCEPT ![x] = StateFrom(x)] /\ states \in [Symbols -> SymbolStates]
      BY <2>1, <2>4 DEF Evaluate, TypeOK, MemoryOK
    <3>2. x = s /\ states'[s] = StateFrom(s)
      BY <2>1, <3>1
    <3>3. ReachedRank(StateFrom(s)) \in 0..3
      BY DEF ReachedRank
    <3> QED
      BY <2>1, <3>2, <3>3, EvaluationKeeps
  <2>5. \A x \in Symbols :
          Poll(x) \/ EvaluateTerminal(x) \/ EvaluationRaises(x)
            => UNCHANGED states \/ \E S : states' = SkipAll(S)
    BY DEF Poll, PollAnswered, PollUnanswered, PollUnreadable, EvaluateTerminal,
       EvaluationRaises, memory, persisted
  <2>6. OpenSweep \/ HitDeadline \/ SecondPass \/ EndOfPolls \/ Withhold \/ RecordAlert
          \/ RememberAlert \/ DeliverAlert \/ SinkRaises \/ SettleBanner \/ CloseSweep
          \/ Tick
        => UNCHANGED states \/ \E S : states' = SkipAll(S)
    BY DEF OpenSweep, HitDeadline, SecondPass, EndOfPolls, Withhold, RecordAlert,
       RememberAlert, DeliverAlert, SinkRaises, SettleBanner, CloseSweep, Tick, memory,
       persisted
  <2>7. WriteFails \/ Crash => pc' = "down" \/ \E S : states' = SkipAll(S)
    BY DEF WriteFails, Crash, Die
  <2>8. ~Start
    BY <2>2 DEF Start
  <2> QED
    BY <2>3, <2>4, <2>5, <2>6, <2>7, <2>8 DEF Next, Step, EvaluateOne, Deliver
<1>2. Init => TypeInv /\ FreshInv
  <2>1. Init => FreshInv
    BY DEF Init, FreshInv
  <2> QED
    BY <2>1, InitType
<1>3. TypeInv /\ FreshInv /\ [Next]_vars => (TypeInv /\ FreshInv)'
  BY NextType, NextFresh
<1> QED
  BY <1>1, <1>2, <1>3, PTL DEF Spec, OnlyRefusalsWalkBack

(* The trigger of a symbol's position, or the exit it ended in, is in the   *)
(* record.                                                                  *)
Announced(s, terms) ==
  \E m \in Indices(log) :
    log[m].key.kind = "trigger" /\ log[m].key.sym = s /\ log[m].key.terms = terms

ExitTold(s, st) == LoggedKey(ExitAlert(s, st).key)

Held(st) == st.phase \in {"triggered", "in-trade"}
Closed(st) == st.phase = "exited"

(* The trigger is the next alert to be recorded. *)
Waits(s) ==
  /\ outbox # <<>>
  /\ outbox[1].key.kind = "trigger" /\ outbox[1].key.sym = s
  /\ outbox[1].key.terms = states[s].terms

(* The exit is still to be recorded, next or after its trigger. *)
ExitWaits(s) ==
  /\ outbox # <<>> /\ outbox[1].key.sym = s
  /\ \E i \in Indices(outbox) : i \in {1, 2} /\ outbox[i].key = ExitAlert(s, states[s]).key

Swept == pc \in {"evaluate", "closing", "closed"}

(* Of every position shown or saved the trigger is in the record, or next   *)
(* in line; the last sweep of the day withholds.  An exit not recorded is   *)
(* of a symbol this sweep has not finished with, and then the banner stands. *)
SavedShown ==
  pc # "closed" =>
    \A s \in Symbols : Held(saved.states[s]) => Announced(s, saved.states[s].terms)

HeldShown ==
  \A s \in Symbols : Held(states[s]) =>
    Announced(s, states[s].terms) \/ Waits(s) \/ (b = PostSession /\ Swept)

ExitShown ==
  \A s \in Symbols : Closed(states[s]) /\ ~ExitTold(s, states[s]) =>
    /\ pc = "evaluate" => \/ s \in todo \cup missed \cup unwatched
                          \/ ExitWaits(s)
                          \/ b = PostSession
    /\ pc = "closing" => banner \/ b = PostSession
    /\ pc = "ready" => banner \/ b = 1

ShownInv ==
  /\ SavedShown /\ HeldShown /\ ExitShown
  /\ stage # "check" => b # PostSession
  /\ ~saved.written => \A s \in Symbols : ~Held(saved.states[s])

LEMMA InitShown == Init => ShownInv
<1> SUFFICES ASSUME Init PROVE ShownInv
  OBVIOUS
<1>1. \A s \in Symbols : /\ ~Held(states[s]) /\ ~Closed(states[s])
                         /\ ~Held(saved.states[s])
  BY DEF Init, Snapshot, Waiting, SymbolState, Held, Closed
<1> QED
  BY <1>1 DEF Init, ShownInv, SavedShown, HeldShown, ExitShown

(* A skipped symbol shows no position; an exit stays one, with its numbers. *)
LEMMA SkippedShows ==
  ASSUME TypeOK, NEW S, NEW s \in Symbols
  PROVE  /\ SkipAll(S)[s].terms = states[s].terms
         /\ ExitAlert(s, SkipAll(S)[s]) = ExitAlert(s, states[s])
         /\ Held(SkipAll(S)[s]) => s \notin S /\ Held(states[s])
         /\ Closed(SkipAll(S)[s]) => Closed(states[s])
<1>1. states[s] \in SymbolStates
  BY DEF TypeOK, MemoryOK
<1> QED
  BY <1>1 DEF SkipAll, Skipped, SymbolStates, Held, Closed, ExitAlert

(* An evaluation that shows a position or an exit has its trigger in front, *)
(* and the exit behind it.                                                  *)
LEMMA EvaluationWaits ==
  ASSUME NEW s \in Symbols, NEW st, NEW r, Held(st) \/ Closed(st), Numbered(st),
         NEW alerts, alerts = AlertsFor(s, st, r)
  PROVE  /\ alerts # <<>>
         /\ alerts[1].key.kind = "trigger" /\ alerts[1].key.sym = s
         /\ alerts[1].key.terms = st.terms
         /\ Closed(st) => 2 \in 1..Len(alerts) /\ alerts[2] = ExitAlert(s, st)
<1> DEFINE trigger == TriggerAlert(s, st, r)
<1>1. trigger.key.kind = "trigger" /\ trigger.key.sym = s /\ trigger.key.terms = st.terms
  BY DEF TriggerAlert, Alert, Key
<1> HIDE DEF trigger
<1>2. alerts = <<trigger>> \o (IF Closed(st) THEN <<ExitAlert(s, st)>> ELSE <<>>)
  BY DEF AlertsFor, Held, Closed, Numbered, trigger
<1>3. /\ alerts # <<>> /\ alerts[1] = trigger
      /\ Closed(st) => 2 \in 1..Len(alerts) /\ alerts[2] = ExitAlert(s, st)
  BY <1>2
<1> QED
  BY <1>1, <1>3

(* The alert in hand, once recorded, announces what waited for it. *)
LEMMA LoggedAnnounces ==
  ASSUME TypeInv, NEW s \in Symbols, Waits(s), LoggedKey(Alert1.key)
  PROVE  Announced(s, states[s].terms)
<1>1. Alert1 = outbox[1]
  BY DEF Alert1, Waits
<1> QED
  BY <1>1 DEF Waits, LoggedKey, Announced

(* While the record only grows, what was announced stays announced. *)
LEMMA AnnouncedStays ==
  ASSUME NEW s, NEW terms, Announced(s, terms), UNCHANGED log
  PROVE  Announced(s, terms)'
  BY DEF Announced, Indices

LEMMA ExitStays ==
  ASSUME UNCHANGED log, NEW s,
         ExitAlert(s, states'[s]) = ExitAlert(s, states[s])
  PROVE  /\ ExitTold(s, states[s]) = ExitTold(s, states[s])'
         /\ UNCHANGED outbox => ExitWaits(s) = ExitWaits(s)'
  BY DEF ExitTold, LoggedKey, Indices, ExitWaits

(* The head of the outbox is in the record, or will never be, and leaves:   *)
(* an exit behind it moves up.                                              *)
LEMMA ExitMovesUp ==
  ASSUME TypeInv, outbox # <<>>, outbox' = Tail(outbox), UNCHANGED <<states, log>>,
         NEW s \in Symbols, ExitWaits(s), LoggedKey(Alert1.key) \/ b = PostSession
  PROVE  ExitTold(s, states[s])' \/ ExitWaits(s)' \/ b = PostSession
<1>1. /\ Len(outbox') = Len(outbox) - 1 /\ Len(outbox) \in Nat /\ Alert1 = outbox[1]
      /\ \A n \in Indices(outbox') : outbox'[n] = outbox[n + 1]
  BY DEF TypeInv, TypeOK, AlertsOK, Indices, Alert1
<1>2. PICK i \in Indices(outbox) : i \in {1, 2} /\ outbox[i].key = ExitAlert(s, states[s]).key
  BY DEF ExitWaits
<1>3. CASE i = 1
  BY <1>1, <1>2, <1>3 DEF ExitTold, LoggedKey, Indices
<1>4. CASE i = 2
  <2>1. 1 \in Indices(outbox') /\ outbox'[1] = outbox[2] /\ outbox' # <<>>
    BY <1>1, <1>2, <1>4 DEF Indices
  <2>2. ExitAlert(s, states[s]).key.sym = s
    BY DEF ExitAlert, Alert, Key
  <2> QED
    BY <1>2, <1>4, <2>1, <2>2 DEF ExitWaits
<1> QED
  BY <1>2, <1>3, <1>4

LEMMA DieShown ==
  ASSUME ShownInv, TypeInv, Die, UNCHANGED <<log, saved>>, pc # "closed"
  PROVE  ShownInv'
<1>1. /\ pc' = "down" /\ stage' = "check"
      /\ \A s \in Symbols : ~Held(states'[s]) /\ ~Closed(states'[s])
  BY DEF Die, EmptySweep, ForgetAll, Waiting, SymbolState, Held, Closed
<1>2. SavedShown'
  BY AnnouncedStays DEF ShownInv, SavedShown
<1> QED
  BY <1>1, <1>2 DEF ShownInv, HeldShown, ExitShown

(* A step of the polls: nothing is said or written, and at most symbols are *)
(* skipped.                                                                 *)
LEMMA PollsShown ==
  ASSUME ShownInv, TypeInv, UNCHANGED <<log, saved, b, outbox, stage>>,
         pc' \in {"first", "second"},
         pc \in {"ready", "first", "second"},
         UNCHANGED states \/ \E S : states' = SkipAll(S)
  PROVE  ShownInv'
<1>1. \A s \in Symbols : /\ states'[s].terms = states[s].terms
                         /\ Held(states'[s]) => Held(states[s])
  BY SkippedShows DEF TypeInv
<1>2. SavedShown'
  BY AnnouncedStays DEF ShownInv, SavedShown
<1>3. HeldShown'
  <2>1. ASSUME NEW s \in Symbols, Held(states'[s])
        PROVE  Announced(s, states[s].terms)' \/ Waits(s)'
    <3>1. Announced(s, states[s].terms) \/ Waits(s)
      BY <1>1, <2>1 DEF ShownInv, HeldShown, Swept
    <3>2. Waits(s) => Waits(s)'
      BY <1>1 DEF Waits
    <3> QED
      BY <1>1, <3>1, <3>2, AnnouncedStays
  <2> QED
    BY <2>1 DEF HeldShown
<1>4. ExitShown'
  BY DEF ExitShown
<1> QED
  BY <1>2, <1>3, <1>4 DEF ShownInv

(* A step of _deliver that ends with the head of the outbox in the record   *)
(* or withheld for good, and leaves what is shown and saved.                *)
LEMMA DeliverShown ==
  ASSUME ShownInv, TypeInv,
         UNCHANGED <<pc, b, todo, missed, unwatched, states, banner>>,
         outbox # <<>>,
         \A s, terms : Announced(s, terms) => Announced(s, terms)',
         \A s \in Symbols : Waits(s) => Announced(s, states[s].terms)' \/ b = PostSession,
         \A s \in Symbols :
           /\ ExitTold(s, states[s]) => ExitTold(s, states[s])'
           /\ ExitWaits(s) => ExitTold(s, states[s])' \/ ExitWaits(s)' \/ b = PostSession,
         saved' = saved \/ (saved'.states = states /\ saved'.written /\ b # PostSession),
         stage' # "check" => b # PostSession
  PROVE  ShownInv'
<1>1. pc \in {"evaluate", "closing"}
  BY InHandType
<1>2. ASSUME NEW s \in Symbols, Held(states[s])
      PROVE  Announced(s, states[s].terms)' \/ b = PostSession
  BY <1>2 DEF ShownInv, HeldShown
<1>3. SavedShown'
  <2>1. CASE saved' = saved
    BY <2>1, <1>1 DEF ShownInv, SavedShown
  <2>2. CASE saved'.states = states /\ b # PostSession
    BY <2>2, <1>2 DEF SavedShown
  <2> QED
    BY <2>1, <2>2
<1>4. HeldShown'
  BY <1>1, <1>2 DEF HeldShown, Swept
<1>5. ExitShown'
  <2>1. ASSUME NEW s \in Symbols, Closed(states[s]), ~ExitTold(s, states[s])'
        PROVE  /\ pc = "evaluate" => \/ s \in todo \cup missed \cup unwatched
                                     \/ ExitWaits(s)' \/ b = PostSession
               /\ pc = "closing" => banner \/ b = PostSession
    BY <2>1 DEF ShownInv, ExitShown
  <2> QED
    BY <1>1, <2>1 DEF ExitShown
<1> QED
  BY <1>3, <1>4, <1>5 DEF ShownInv

LEMMA NextShown ==
  /\ TypeInv /\ DeliverInv /\ NumbersInv /\ LogInv /\ FreshInv /\ ShownInv
  /\ [Next]_vars
  => ShownInv'
<1> SUFFICES ASSUME TypeInv, DeliverInv, NumbersInv, LogInv, FreshInv, ShownInv,
                    [Next]_vars
             PROVE  ShownInv'
  OBVIOUS
<1> USE DEF TypeInv
<1>1. CASE Start
  <2>1. UNCHANGED <<saved, log, outbox, stage, b>> /\ pc = "down" /\ pc' = "ready"
    BY <1>1 DEF Start, sweep, disk
  <2>2. b = 1
    BY <2>1 DEF FreshInv
  <2>3. ASSUME NEW s \in Symbols, Held(states'[s])
        PROVE  Announced(s, states'[s].terms)
    <3>1. CASE saved.written
      BY <1>1, <2>1, <2>3, <3>1 DEF Start, ShownInv, SavedShown
    <3>2. CASE ~saved.written
      BY <1>1, <2>1, <2>3, <3>2 DEF Start, memory, persisted, FreshInv, Held, Waiting,
         SymbolState
    <3> QED
      BY <3>1, <3>2
  <2>4. HeldShown'
    BY <2>1, <2>3, AnnouncedStays DEF HeldShown
  <2>5. SavedShown'
    BY <2>1, AnnouncedStays DEF ShownInv, SavedShown
  <2>6. ExitShown'
    BY <2>1, <2>2 DEF ExitShown
  <2> QED
    BY <2>1, <2>4, <2>5, <2>6 DEF ShownInv
<1>2. ASSUME NEW s \in Symbols, Poll(s) PROVE ShownInv'
  <2>1. /\ UNCHANGED <<log, saved, b, outbox, stage, pc>>
        /\ pc \in {"first", "second"}
        /\ UNCHANGED states \/ \E S : states' = SkipAll(S)
    BY <1>2 DEF Poll, PollAnswered, PollUnanswered, PollUnreadable, Polling, memory,
       persisted, disk
  <2> QED
    BY <2>1, PollsShown
<1>3. CASE OpenSweep \/ HitDeadline \/ SecondPass
  <2>1. /\ UNCHANGED <<log, saved, b, outbox, stage, states>>
        /\ pc' \in {"first", "second"} /\ pc \in {"ready", "first", "second"}
    BY <1>3 DEF OpenSweep, HitDeadline, SecondPass, Polling, memory, persisted, disk
  <2> QED
    BY <2>1, PollsShown
<1>4. CASE EndOfPolls
  <2>1. /\ UNCHANGED <<log, saved, b, outbox, stage, states, missed, unwatched>>
        /\ pc = "second" /\ pc' = "evaluate" /\ todo' = Symbols \ (missed \cup unwatched)
    BY <1>4 DEF EndOfPolls, memory, persisted, disk
  <2>2. SavedShown' /\ HeldShown'
    BY <2>1, AnnouncedStays DEF ShownInv, SavedShown, HeldShown, Swept, Waits
  <2>3. ExitShown'
    BY <2>1 DEF ExitShown
  <2> QED
    BY <2>1, <2>2, <2>3 DEF ShownInv
<1>5. ASSUME NEW s \in Symbols, EvaluateTerminal(s) PROVE ShownInv'
  <2>1. /\ UNCHANGED <<log, saved, b, outbox, stage, states, missed, unwatched, pc, banner>>
        /\ pc = "evaluate" /\ todo' = todo \ {s} /\ states[s].phase = "refused"
    BY <1>5 DEF EvaluateTerminal, IsTerminal, memory, persisted, disk
  <2>2. SavedShown' /\ HeldShown'
    BY <2>1, AnnouncedStays DEF ShownInv, SavedShown, HeldShown, Swept, Waits
  <2>3. ExitShown'
    BY <2>1, ExitStays DEF ShownInv, ExitShown, Closed
  <2> QED
    BY <2>1, <2>2, <2>3 DEF ShownInv
<1>6. ASSUME NEW s \in Symbols, Evaluate(s) PROVE ShownInv'
  <2>1. /\ UNCHANGED <<log, saved, b, stage, missed, unwatched, pc, banner>>
        /\ pc = "evaluate" /\ todo' = todo \ {s} /\ outbox = <<>>
        /\ states' = [states EXCEPT ![s] = StateFrom(s)]
        /\ outbox' = AlertsFor(s, StateFrom(s), tape[s])
    BY <1>6 DEF Evaluate, disk
  <2>2. states'[s] = StateFrom(s) /\ \A x \in Symbols : x # s => states'[x] = states[x]
    BY <2>1 DEF TypeOK, MemoryOK
  <2>3. /\ Held(StateFrom(s)) \/ Closed(StateFrom(s)) => Waits(s)'
        /\ Closed(StateFrom(s)) => ExitWaits(s)'
    <3> DEFINE alerts == AlertsFor(s, StateFrom(s), tape[s])
    <3>1. Held(StateFrom(s)) \/ Closed(StateFrom(s)) =>
            /\ alerts # <<>>
            /\ alerts[1].key.kind = "trigger" /\ alerts[1].key.sym = s
            /\ alerts[1].key.terms = StateFrom(s).terms
            /\ Closed(StateFrom(s)) => 2 \in 1..Len(alerts) /\ alerts[2] = ExitAlert(s, StateFrom(s))
      <4> HIDE DEF alerts
      <4>1. alerts = AlertsFor(s, StateFrom(s), tape[s]) /\ Numbered(StateFrom(s))
        BY NumberedEvaluation DEF alerts
      <4> QED
        BY <4>1, EvaluationWaits
    <3> QED
      BY <2>1, <2>2, <3>1 DEF Waits, ExitWaits, Indices
  <2>4. \A x \in Symbols : ~Waits(x) /\ ~ExitWaits(x)
    BY <2>1 DEF Waits, ExitWaits
  <2>5. SavedShown'
    BY <2>1, AnnouncedStays DEF ShownInv, SavedShown
  <2>6. HeldShown'
    BY <2>1, <2>2, <2>3, <2>4, AnnouncedStays DEF ShownInv, HeldShown, Swept
  <2>7. ExitShown'
    BY <2>1, <2>2, <2>3, <2>4, ExitStays DEF ShownInv, ExitShown
  <2> QED
    BY <2>1, <2>5, <2>6, <2>7 DEF ShownInv
<1>7. ASSUME NEW s \in Symbols, EvaluationRaises(s) PROVE ShownInv'
  <2>1. /\ UNCHANGED <<log, saved, b, stage, missed, pc, banner, outbox>>
        /\ pc = "evaluate" /\ todo' = todo \ {s} /\ outbox = <<>>
        /\ unwatched' = unwatched \cup {s} /\ states' = SkipAll({s})
    BY <1>7 DEF EvaluationRaises, disk
  <2>2. \A x \in Symbols : /\ states'[x].terms = states[x].terms
                           /\ ExitAlert(x, states'[x]) = ExitAlert(x, states[x])
                           /\ Held(states'[x]) => Held(states[x])
                           /\ Closed(states'[x]) => Closed(states[x])
                           /\ ~Waits(x) /\ ~ExitWaits(x)
    BY <2>1, SkippedShows DEF Waits, ExitWaits
  <2>3. SavedShown'
    BY <2>1, AnnouncedStays DEF ShownInv, SavedShown
  <2>4. HeldShown'
    BY <2>1, <2>2, AnnouncedStays DEF ShownInv, HeldShown, Swept
  <2>5. ExitShown'
    BY <2>1, <2>2, ExitStays DEF ShownInv, ExitShown
  <2> QED
    BY <2>1, <2>3, <2>4, <2>5 DEF ShownInv
<1>8. CASE Withhold
  <2>1. /\ UNCHANGED <<pc, b, todo, missed, unwatched, states, banner, log, saved, stage>>
        /\ stage = "check" /\ outbox # <<>> /\ outbox' = Tail(outbox)
        /\ b = PostSession \/ LoggedKey(Alert1.key)
    BY <1>8 DEF Withhold, InHand, IsNews, LogInv, memory, persisted, disk
  <2>2. \A s, terms : Announced(s, terms) => Announced(s, terms)'
    BY <2>1, AnnouncedStays
  <2>3. \A s \in Symbols : Waits(s) => Announced(s, states[s].terms)' \/ b = PostSession
    BY <2>1, <2>2, LoggedAnnounces
  <2>4. \A s \in Symbols :
          /\ ExitTold(s, states[s]) => ExitTold(s, states[s])'
          /\ ExitWaits(s) => ExitTold(s, states[s])' \/ ExitWaits(s)' \/ b = PostSession
    BY <2>1, ExitStays, ExitMovesUp
  <2> QED
    BY <2>1, <2>2, <2>3, <2>4, DeliverShown
<1>9. CASE RememberAlert \/ DeliverAlert \/ SinkRaises
  <2>1. /\ UNCHANGED <<pc, b, todo, missed, unwatched, states, banner, log>>
        /\ stage # "check" /\ outbox # <<>> /\ outbox' \in {outbox, Tail(outbox)}
        /\ saved' = saved \/ (saved'.states = states /\ saved'.written)
    BY <1>9 DEF RememberAlert, DeliverAlert, SinkRaises, InHand, Snapshot, memory,
       persisted, disk
  <2>2. b # PostSession /\ LoggedKey(Alert1.key)
    BY <2>1 DEF ShownInv, LogInv, Logged, LoggedKey
  <2>3. \A s, terms : Announced(s, terms) => Announced(s, terms)'
    BY <2>1, AnnouncedStays
  <2>4. \A s \in Symbols : Waits(s) => Announced(s, states[s].terms)'
    BY <2>1, <2>2, <2>3, LoggedAnnounces
  <2>5. \A s \in Symbols :
          /\ ExitTold(s, states[s]) => ExitTold(s, states[s])'
          /\ ExitWaits(s) => ExitTold(s, states[s])' \/ ExitWaits(s)' \/ b = PostSession
    BY <2>1, <2>2, ExitStays, ExitMovesUp
  <2> QED
    BY <2>1, <2>2, <2>3, <2>4, <2>5, DeliverShown
<1>10. CASE RecordAlert
  <2> DEFINE marked == [Alert1 EXCEPT !.correction = Superseded(Alert1.key)]
  <2>1. /\ UNCHANGED <<pc, b, todo, missed, unwatched, states, banner, saved>>
        /\ outbox # <<>> /\ b # PostSession /\ log' = Append(log, marked)
        /\ outbox' = <<marked>> \o Tail(outbox)
    BY <1>10 DEF RecordAlert, InHand, IsNews, memory, persisted
  <2>2. marked.key = Alert1.key /\ Alert1 = outbox[1]
    BY <2>1, InHandType DEF Alerts, Alert1
  <2> HIDE DEF marked
  <2>3. /\ \A n \in Indices(log) : n \in Indices(log') /\ log'[n] = log[n]
        /\ Len(log') \in Indices(log') /\ log'[Len(log')] = marked
    BY <2>1 DEF Indices, TypeOK, AlertsOK
  <2>4. \A s, terms : Announced(s, terms) => Announced(s, terms)'
    BY <2>3 DEF Announced
  <2>5. \A s \in Symbols : Waits(s) => Announced(s, states[s].terms)'
    BY <2>1, <2>2, <2>3 DEF Waits, Announced
  <2>6. /\ Len(outbox') = Len(outbox) /\ outbox' # <<>> /\ Indices(outbox') = Indices(outbox)
        /\ \A n \in Indices(outbox) : outbox'[n].key = outbox[n].key
        /\ 1 \in Indices(outbox)
    BY <2>1, <2>2 DEF Indices, TypeOK, AlertsOK
  <2>7. \A s \in Symbols :
          /\ ExitTold(s, states[s]) => ExitTold(s, states[s])'
          /\ ExitWaits(s) => ExitWaits(s)'
    <3>1. \A s \in Symbols : ExitTold(s, states[s]) => ExitTold(s, states[s])'
      BY <2>1, <2>3 DEF ExitTold, LoggedKey
    <3>2. \A s \in Symbols : ExitWaits(s) => ExitWaits(s)'
      BY <2>1, <2>6 DEF ExitWaits
    <3> QED
      BY <3>1, <3>2
  <2> QED
    BY <2>1, <2>4, <2>5, <2>7, DeliverShown
<1>11. CASE WriteFails
  <2>1. UNCHANGED <<log, saved>> /\ outbox # <<>>
    BY <1>11 DEF WriteFails, InHand, disk
  <2>2. CASE pc = "evaluate"
    <3> DEFINE sym == Alert1.key.sym
    <3>1. /\ UNCHANGED <<pc, b, todo, missed, banner>> /\ outbox' = <<>> /\ stage' = "check"
          /\ unwatched' = unwatched \cup {sym} /\ states' = SkipAll({sym})
      BY <1>11, <2>2 DEF WriteFails
    <3>2. \A x \in Symbols : /\ states'[x].terms = states[x].terms
                             /\ ExitAlert(x, states'[x]) = ExitAlert(x, states[x])
                             /\ Held(states'[x]) => x # sym /\ Held(states[x])
                             /\ Closed(states'[x]) => Closed(states[x])
                             /\ Waits(x) \/ ExitWaits(x) => x = sym
      BY <3>1, SkippedShows DEF Waits, ExitWaits, Alert1
    <3> HIDE DEF sym
    <3>3. SavedShown'
      BY <2>1, <2>2, AnnouncedStays DEF ShownInv, SavedShown
    <3>4. HeldShown'
      BY <2>1, <2>2, <3>1, <3>2, AnnouncedStays DEF ShownInv, HeldShown, Swept
    <3>5. ExitShown'
      BY <2>1, <2>2, <3>1, <3>2, ExitStays DEF ShownInv, ExitShown
    <3> QED
      BY <2>1, <3>1, <3>3, <3>4, <3>5 DEF ShownInv
  <2>3. CASE pc # "evaluate"
    <3>1. Die /\ pc # "closed"
      BY <1>11, <2>1, <2>3, InHandType DEF WriteFails
    <3> QED
      BY <2>1, <3>1, DieShown
  <2> QED
    BY <2>2, <2>3
<1>12. CASE SettleBanner
  <2>1. /\ UNCHANGED <<log, saved, b, stage>> /\ pc = "evaluate" /\ pc' = "closing"
        /\ outbox = <<>> /\ todo = {} /\ states' = SkipAll(missed)
        /\ banner' = ~Complete
    BY <1>12 DEF SettleBanner, disk
  <2>2. \A x \in Symbols : /\ states'[x].terms = states[x].terms
                           /\ ExitAlert(x, states'[x]) = ExitAlert(x, states[x])
                           /\ Held(states'[x]) => Held(states[x])
                           /\ Closed(states'[x]) => Closed(states[x])
                           /\ ~Waits(x) /\ ~ExitWaits(x)
    BY <2>1, SkippedShows DEF Waits, ExitWaits
  <2>3. SavedShown'
    BY <2>1, AnnouncedStays DEF ShownInv, SavedShown
  <2>4. HeldShown'
    BY <2>1, <2>2, AnnouncedStays DEF ShownInv, HeldShown, Swept
  <2>5. ExitShown'
    <3>1. ASSUME NEW x \in Symbols, Closed(states'[x]), ~ExitTold(x, states[x])'
          PROVE  banner' \/ b = PostSession
      <4>1. Closed(states[x]) /\ ~ExitTold(x, states[x])
        BY <2>1, <2>2, <3>1, ExitStays
      <4>2. x \in missed \cup unwatched \/ b = PostSession
        BY <2>1, <2>2, <4>1 DEF ShownInv, ExitShown
      <4> QED
        BY <2>1, <4>2 DEF Complete
    <3> QED
      BY <2>1, <3>1 DEF ExitShown
  <2>6. stage' = "check"
    BY <2>1 DEF DeliverInv
  <2> QED
    BY <2>1, <2>3, <2>4, <2>5, <2>6 DEF ShownInv
<1>13. CASE CloseSweep
  <2>1. /\ UNCHANGED <<log, stage, outbox, states, banner>> /\ pc = "closing" /\ outbox = <<>>
        /\ saved'.states = states /\ saved'.written /\ stage = "check"
        /\ IF b = PostSession THEN pc' = "closed" /\ UNCHANGED b
                              ELSE pc' = "ready" /\ b' = b + 1
    BY <1>13 DEF CloseSweep, Snapshot, DeliverInv
  <2>2. \A s \in Symbols : ~Waits(s)
    BY <2>1 DEF Waits
  <2>3. \A s \in Symbols :
          /\ Held(states[s]) => Announced(s, states[s].terms)' \/ b = PostSession
          /\ Closed(states[s]) => \/ ExitTold(s, states[s])'
                                 \/ banner \/ b = PostSession
    BY <2>1, <2>2, AnnouncedStays, ExitStays DEF ShownInv, HeldShown, ExitShown
  <2>4. CASE b = PostSession
    BY <2>1, <2>4 DEF ShownInv, SavedShown, HeldShown, ExitShown, Swept
  <2>5. CASE b # PostSession
    BY <2>1, <2>3, <2>5 DEF ShownInv, SavedShown, HeldShown, ExitShown
  <2> QED
    BY <2>4, <2>5
<1>14. CASE Tick \/ UNCHANGED vars
  <2>1. UNCHANGED <<pc, b, todo, missed, unwatched, outbox, stage, states, banner, log,
                    saved>>
    BY <1>14 DEF Tick, vars, sweep, memory, persisted, disk
  <2>2. SavedShown' /\ HeldShown'
    BY <2>1, AnnouncedStays DEF ShownInv, SavedShown, HeldShown, Swept, Waits
  <2>3. ExitShown'
    BY <2>1, ExitStays DEF ShownInv, ExitShown
  <2> QED
    BY <2>1, <2>2, <2>3 DEF ShownInv
<1>15. CASE Crash
  BY <1>15, DieShown DEF Crash, disk
<1> QED
  BY <1>1, <1>2, <1>3, <1>4, <1>5, <1>6, <1>7, <1>8, <1>9, <1>10, <1>11, <1>12, <1>13,
     <1>14, <1>15 DEF Next, Step, EvaluateOne, Deliver

(* What the screener shows between sweeps it has announced, or the banner   *)
(* stands (_alerts_for derives alerts from the state; _settle_banner):      *)
(* whatever was missed, raised, failed or died.                             *)
THEOREM AnnouncedBetweenSweeps == Spec => []ShownIsAnnounced
<1> DEFINE Inv == /\ TypeInv /\ DeliverInv /\ NumbersInv /\ LogInv
                  /\ FreshInv /\ ShownInv
<1>1. Init => Inv
  <2>1. Init => FreshInv
    BY DEF Init, FreshInv
  <2> QED
    BY <2>1, InitType, InitDeliver, InitNumbers, InitLog, InitShown
<1>2. Inv /\ [Next]_vars => Inv'
  BY NextType, NextDeliver, NextNumbers, NextLog, NextFresh, NextShown
<1>3. Inv => ShownIsAnnounced
  <2> SUFFICES ASSUME Inv, pc = "ready", NEW s \in Symbols
               PROVE  /\ Held(states[s]) => Announced(s, states[s].terms)
                      /\ Closed(states[s]) /\ ~banner /\ b > 1 =>
                           Announced(s, states[s].terms) /\ ExitTold(s, states[s])
    BY DEF ShownIsAnnounced, Held, Closed, Announced, ExitTold, LoggedKey
  <2>1. outbox = <<>> /\ ~(b > 1 /\ b = 1)
    BY DEF TypeInv, OutboxOK, TypeOK, ControlOK, Boundaries
  <2>2. /\ Held(states[s]) => Announced(s, states[s].terms)
        /\ Closed(states[s]) /\ ~banner /\ b > 1 => ExitTold(s, states[s])
    BY <2>1 DEF ShownInv, HeldShown, ExitShown, Waits, Swept
  <2>3. ExitTold(s, states[s]) => Announced(s, states[s].terms)
    <3>1. LET key == ExitAlert(s, states[s]).key
          IN  key.kind \in {"exit", "square-off"} /\ key.sym = s /\ key.terms = states[s].terms
      BY DEF ExitAlert, Alert, Key
    <3>2. ASSUME NEW m \in Indices(log), log[m].key = ExitAlert(s, states[s]).key
          PROVE  Announced(s, states[s].terms)
      <4>1. PICK n \in 1..(m - 1) : /\ log[n].key.kind = "trigger" /\ log[n].key.sym = s
                                   /\ log[n].key.terms = states[s].terms
        BY <3>1, <3>2 DEF LogInv, ExitFollowsTrigger
      <4> QED
        BY <4>1 DEF Announced, Indices, TypeInv, TypeOK, AlertsOK
    <3> QED
      BY <3>2 DEF ExitTold, LoggedKey
  <2> QED
    BY <2>2, <2>3
<1> QED
  BY <1>1, <1>2, <1>3, PTL DEF Spec
=============================================================================
