----------------------------- MODULE Reconcile -----------------------------
(***************************************************************************)
(* recovery_reconcile.py: the data directory is lost, the committed report *)
(* of the era before survives, the same backfill builds the store anew,    *)
(* and the new report is compared with the old one, every difference put   *)
(* into a class.  The forensics file, which only a person writes, is left  *)
(* out; one symbol, as in UniverseBackfill.                                *)
(***************************************************************************)
EXTENDS UniverseBackfill, Horizon

CONSTANTS
    SealedWindowStart,   \* first day the sealed era's last fetch may have ended on
    RebuildFetchDate     \* no corporate action after it explains anything

ASSUME ReconcileAssumption == SealedWindowStart \in Nat /\ RebuildFetchDate \in Nat

VARIABLE sealed   \* None, or the sealed report's facts and, as a ghost, its store

allVars == <<vars, sealed>>

\* What a report says of a symbol (SymbolDepth); it is disclosed when it is not
\* settled or stands in one of the residual tables.
Depth(r) ==
    LET t == r.tally
    IN  IF t = None
        THEN [days |-> 0, gated |-> 0, pass |-> 0, status |-> r.status, disclosed |-> TRUE]
        ELSE [days |-> t.days, gated |-> t.g1tot, pass |-> t.g1, status |-> r.status,
              disclosed |-> r.status # "settled" \/ t.g1p < t.days \/ t.g3 # {}]

Incident ==
    /\ pc = "idle" /\ rec # None /\ sealed = None
    /\ count.done = "run" /\ ~halted
    /\ sealed' = [scope |-> End, facts |-> Depth(rec),
                  passes |-> [d \in DOMAIN bars |-> Gate1(sym, bars, d)]]
    /\ bars' = <<>> /\ ledger' = <<>> /\ amap' = None /\ rec' = None
    /\ peers' = 0 /\ halted' = FALSE
    /\ count' = [count EXCEPT !.cut = {}, !.torn = FALSE, !.erred = FALSE, !.done = "no"]
    /\ UNCHANGED <<sym, ruling, now, pc, job>>

RecoveryInit == Init /\ sealed = None
RecoveryNext == (Next /\ UNCHANGED sealed) \/ Incident
RecoverySpec == RecoveryInit /\ [][RecoveryNext]_allVars

-----------------------------------------------------------------------------
(* The comparison *)

Upto(days, end) == {d \in days : d <= end}
NthOldest(days, n) == CHOOSE d \in days : Cardinality(Upto(days, d)) = n

\* The day at which the rebuilt store holds as many days as the sealed one did.
HorizonBoundary(days, sealedDays, scope) ==
    LET inScope == Upto(days, scope)
    IN  IF sealedDays = 0 \/ Cardinality(inScope) < sealedDays
        THEN [passed |-> FALSE, day |-> None]
        ELSE LET b == NthOldest(inScope, sealedDays)
             IN  [passed |-> SealedWindowStart <= b, day |-> b]

Boundary == HorizonBoundary(DOMAIN bars, sealed.facts.days, sealed.scope)

\* The window's days of the rebuilt store, gated again.
GateWindow(days) ==
    [gated |-> Cardinality(days \cap sym.rows),
     pass  |-> Cardinality({d \in days : Gate1(sym, bars, d)})]

WindowUpto(end) == {d \in DOMAIN bars : SealedWindowStart <= d /\ d <= end}

Accounted(boundary) ==
    GateDeltaAccounted(sealed.facts, Depth(rec), GateWindow(WindowUpto(End)),
                       Cardinality(WindowUpto(boundary)))

\* Corporate actions the sealed era could not know and the rebuild could.
NewEvents ==
    {ex \in {f.ex : f \in Range(sym.factors)} \cup sym.unknown :
        sealed.scope < ex /\ ex <= RebuildFetchDate}

Classify(measure, improved, boundary) ==
    CASE boundary.passed /\ (measure = "stored" \/ (measure = "passing" /\ Accounted(boundary.day)))
                                          -> "sealed-fetch-horizon"
      [] OTHER -> IF measure \in {"passing", "status"} /\ NewEvents # {} THEN "new-CA-explained"
                  ELSE IF improved /\ sealed.facts.disclosed THEN "vendor-repair-explained"
                  ELSE "unexplained"

\* The measures that differ, each with its class.
Divergences ==
    LET old == sealed.facts
        new == Depth(rec)
        improved == [stored  |-> new.days > old.days,
                     passing |-> new.pass > old.pass,
                     status  |-> new.status = "settled" /\ old.status # "settled"]
        differ == {m \in {"stored", "passing", "status"} :
                     \/ m = "stored" /\ new.days # old.days
                     \/ m = "passing" /\ new.pass # old.pass
                     \/ m = "status" /\ new.status # old.status}
    IN  [m \in differ |-> Classify(m, improved[m], Boundary)]

-----------------------------------------------------------------------------
(* Properties *)

(* The new report's row is of the store as it is (cross_check_store).       *)
Comparable ==
    /\ pc = "idle" /\ sealed # None /\ rec # None
    /\ rec.tally # None /\ rec.tally = Tally(sym, Today, bars)

\* The sealed report counted the store it was written beside.
SealedCountedIts(store) ==
    /\ sealed.facts.days = Cardinality(store)
    /\ sealed.facts.gated = Cardinality(store \cap sym.rows)
    /\ sealed.facts.pass = Cardinality({d \in store : sealed.passes[d]})

(* A store that differs from the sealed one, as its report counted it, only *)
(* by what was fetched from its last window on.                             *)
OlderDaysKept ==
    /\ Boundary.passed
    /\ SealedCountedIts(DOMAIN sealed.passes)
    /\ Upto(DOMAIN bars, Boundary.day) = DOMAIN sealed.passes
    /\ \A d \in DOMAIN sealed.passes :
         d < SealedWindowStart => Gate1(sym, bars, d) = sealed.passes[d]

(* Neither verdict of the reconciliation is wrong: what a store gained, or  *)
(* gated otherwise, in the last window is never charged to the older        *)
(* history, and, "no class explains a regression", one that holds fewer     *)
(* days than the sealed report counted is an unexplained loss, whatever     *)
(* else is new (recovery_reconcile.py:519, 689).                            *)
DivergencesAreClassed ==
    Comparable =>
        /\ OlderDaysKept =>
             \A m \in DOMAIN Divergences \cap {"stored", "passing"} :
                Divergences[m] = "sealed-fetch-horizon"
        /\ Depth(rec).days < sealed.facts.days =>
             Divergences["stored"] = "unexplained"
=============================================================================
