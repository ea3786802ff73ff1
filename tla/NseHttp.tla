------------------------------ MODULE NseHttp ------------------------------
(* NSE's public endpoints as acumen reaches them (nse_http.py) and what a   *)
(* crash-safe write leaves behind (atomic_io.py).  A request is a script:   *)
(* the reply each attempt would get.  The throttle, the back-off and the    *)
(* cookie warm-up take time and never decide an outcome, so they are left   *)
(* out; the warm-up costs no attempt.                                       *)
EXTENDS Integers, Sequences, SequencesExt

CONSTANT MaxAttempts        \* attempts per request (code: 4)

ASSUME MaxAttemptsAssumption == MaxAttempts \in Nat \ {0}

\* What one attempt meets: the body asked for, an HTML page or a body that does
\* not decode, 401/403, another retryable status, a request that raised, 404,
\* any other status.
Replies == {"body", "html", "denied", "busy", "raised", "absent", "rejected"}

\* What the reply to one attempt makes of the request: a body, a 404 and a status
\* outside the retryable set end it; everything else leaves it trying.
Attempt(reply) ==
    CASE reply = "body"     -> "body"
      [] reply = "absent"   -> "absent"
      [] reply = "rejected" -> "failed"
      [] OTHER              -> "trying"

\* _fetch: the first reply that ends the request decides; a script whose every
\* attempt was retryable ends in a failure, never in an absence.
Fetch(script) ==
    LET last == SelectInSeq(script, LAMBDA reply : Attempt(reply) # "trying")
    IN  IF last = 0 THEN "failed" ELSE Attempt(script[last])

\* Every outcome of asking for a file that is published, and for one that is not.
PublishedFetch   == {Fetch(s) : s \in [1 .. MaxAttempts -> Replies \ {"absent"}]}
UnpublishedFetch == {Fetch(s) : s \in [1 .. MaxAttempts -> Replies \ {"body"}]}

-----------------------------------------------------------------------------
(* Day caches: a date the payload was fetched on, or one of two marks.      *)

NoCache == 0
Unreadable == -1

\* cached_json: the cache serves its own day, and any day when offline; a
\* damaged one raises offline and is replaced online.
CachedJson(fetchedOn, today, network) ==
    IF fetchedOn \notin {NoCache, Unreadable} /\ (fetchedOn = today \/ ~network)
    THEN {[served |-> TRUE, on |-> fetchedOn]}
    ELSE IF ~network
         THEN {[served |-> FALSE, on |-> fetchedOn]}
         ELSE {[served |-> got = "body", on |-> IF got = "body" THEN today ELSE fetchedOn]
                 : got \in PublishedFetch}

\* load_instrument_master: one dump per day; the day's own or a download.
DayMaster(held, today, network) ==
    IF today \in held
    THEN {[served |-> TRUE, held |-> held]}
    ELSE IF ~network
         THEN {[served |-> FALSE, held |-> held]}
         ELSE {[served |-> TRUE, held |-> held \cup {today}],
               [served |-> FALSE, held |-> held]}

-----------------------------------------------------------------------------
(* What loss of power may leave.  Data is synced before the rename and      *)
(* renames reach the disk in order, so any of the disks since the last      *)
(* directory sync may come back, each of them whole.                        *)

\* Slip: the data is not synced before the rename, so the name may survive
\* without the bytes.
SurvivorsUnsynced(before, disk, dirSynced) ==
    before \cup {disk, [disk EXCEPT !.rows = [d \in DOMAIN disk.rows |->
        IF \E old \in before : old.rows[d] # disk.rows[d] THEN "torn" ELSE disk.rows[d]]]}

Survivors(before, disk, dirSynced) ==
    IF dirSynced THEN {disk} ELSE before \cup {disk}

=============================================================================
