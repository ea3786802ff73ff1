------------------------------ MODULE Horizon ------------------------------
(***************************************************************************)
(* recovery_reconcile.account_gate_delta: whether the move of a symbol's   *)
(* gate-1 counts between two eras of the minute store can have happened in *)
(* the fetch window alone.  A count is [days, gated, pass]: days stored,   *)
(* days with a raw daily row, days that pass gate 1.                       *)
(***************************************************************************)
EXTENDS Integers

Counts == {c \in [days : Nat, gated : Nat, pass : Nat] : c.pass <= c.gated /\ c.gated <= c.days}

AtLeastZero(n) == IF n < 0 THEN 0 ELSE n

Between(n, low, high) == low <= n /\ n <= high

\* Slip: every day of the sealed window is taken to have been gated.
GateDeltaOfGatedDays(sealed, rebuilt, tail, sealedTailDays) ==
    LET failures == AtLeastZero(sealed.gated - sealed.pass)
        minPass  == AtLeastZero(sealedTailDays - failures)
    IN  /\ rebuilt.gated - sealed.gated = tail.gated - sealedTailDays
        /\ Between(rebuilt.pass - sealed.pass, tail.pass - sealedTailDays, tail.pass - minPass)

\* What the sealed window's days can have added to the sealed counts is known up
\* to the days the sealed era could not gate and the ones that failed.
GateDeltaAccounted(sealed, rebuilt, tail, sealedTailDays) ==
    LET ungated  == AtLeastZero(sealed.days - sealed.gated)
        failures == AtLeastZero(sealed.gated - sealed.pass)
        minGated == AtLeastZero(sealedTailDays - ungated)
        minPass  == AtLeastZero(minGated - failures)
    IN  /\ Between(rebuilt.gated - sealed.gated, tail.gated - sealedTailDays, tail.gated - minGated)
        /\ Between(rebuilt.pass - sealed.pass, tail.pass - sealedTailDays, tail.pass - minPass)
=============================================================================
