------------------------------ MODULE SmartApi ------------------------------
(* One request for candles (smartapi_client.py).  A request is a script:    *)
(* what each attempt meets.  The throttle and the back-off take time and    *)
(* decide no outcome; a login inside a request spends its attempt.          *)
EXTENDS Integers, Sequences, FiniteSets, SequencesExt

CONSTANTS
    MaxAttempts,   \* attempts of one request (code: 5)
    MaxRelogins    \* logins inside one request (code: 2)

ASSUME SmartApiAssumption == MaxAttempts \in Nat \ {0} /\ MaxRelogins \in Nat

\* What an attempt may meet: an exception or an error, a session that has
\* expired with a login that works or is refused; and, of a window the vendor
\* has candles for, the candles or a body that does not parse; of another one,
\* the vendor saying so.
Answers(hasCandles) ==
    {"busy", "expired", "refused"}
        \cup (IF hasCandles THEN {"candles", "malformed"} ELSE {"none"})

\* Logins the attempts before this one have asked for.
Relogins(script, i) == Cardinality({j \in 1 .. i - 1 : script[j] \in {"expired", "refused"}})

\* _attempt_once and what _call_with_retry makes of it: a login that is refused
\* raises at once, and past the last allowed login an expired session is one
\* more failed attempt.
AttemptOnce(answer, relogins) ==
    CASE answer = "candles"   -> "present"
      [] answer = "none"      -> "empty"
      [] answer = "malformed" \/ (answer = "refused" /\ relogins < MaxRelogins) -> "error"
      [] OTHER -> "again"

\* _call_with_retry: the first attempt that decides; when every attempt is spent
\* it raises.
CallWithRetry(script) ==
    LET i == SelectInSeq([j \in DOMAIN script |-> AttemptOnce(script[j], Relogins(script, j))],
                         LAMBDA outcome : outcome # "again")
    IN  IF i = 0 THEN "error" ELSE AttemptOnce(script[i], Relogins(script, i))

\* get_candles: what a window may come back as.
GetCandles(hasCandles) ==
    {CallWithRetry(script) : script \in [1 .. MaxAttempts -> Answers(hasCandles)]}

ListedCandles   == GetCandles(TRUE)
UnlistedCandles == GetCandles(FALSE)
=============================================================================
