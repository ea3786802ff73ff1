----------------------------- MODULE MorningProofs -----------------------------
(***************************************************************************)
(* Proofs about Morning for every calendar of the market, every number of  *)
(* commands, failed requests, deaths and losses of power.                  *)
(*                                                                         *)
(* A loss of power may bring back any disk since the last directory sync,  *)
(* so what is true of the files has to be true of every survivor: each is  *)
(* DiskSound.  A morning adds what its queue is for: no date in it is      *)
(* settled, and no recording has left it unjudged and unnamed.             *)
(***************************************************************************)
EXTENDS Morning, SequenceTheorems, NumberLemmas

(* What the files hold. *)
Recs ==
  [dir : BOOLEAN, manifest : {"none", "ok", "damaged"}, mode : {"live", "replay"},
   master : RecordingDays, contents : [Symbols -> {"nothing", "alert", "candles"}],
   verdict : [Symbols -> {"unread", "absent", "blind", "silent", "judged"}]]

Disks ==
  [rows : [Days -> {"none", "whole"}], ledger : [Days -> Outcomes], legible : BOOLEAN,
   holidays : {NoCache, Unreadable} \cup Days, masters : SUBSET Days,
   recs : [RecordingDays -> Recs]]

(* The ledger says nothing of a date that NSE's files and the store do not. *)
LedgerSound(w, k) ==
  \A d \in Days : /\ k.rows[d] = "whole" => HasFile(w, d)
                  /\ k.ledger[d] = "present" => k.rows[d] = "whole"
                  /\ k.ledger[d] = "404" => ~HasFile(w, d)

(* A verdict is on every symbol of an earlier day's recording, or on none. *)
VerdictsSound(w, day, k) ==
  \A d \in RecordingDays :
    /\ d = Stray \/ d >= day => k.recs[d].verdict = NoVerdict
    /\ d = Stray => k.recs[d].manifest = "none"
    /\ k.recs[d].verdict # NoVerdict =>
         \A s \in Symbols : k.recs[d].contents[s] # "nothing" => k.recs[d].verdict[s] # "unread"
    /\ \A s \in Symbols :
         k.recs[d].verdict[s] = "judged" => HasFile(w, d) /\ <<s, d>> \notin w.unlisted

DiskSound(w, day, k) == k \in Disks /\ LedgerSound(w, k) /\ VerdictsSound(w, day, k)

DisksOK == disk \in survivors /\ \A k \in survivors : DiskSound(world, today, k)

Places == {"idle", "calendar", "universe", "plan", "ask", "record", "actions",
           "master", "queue", "judge", "build", "manifest", "market"}

ControlOK ==
  /\ world \in Worlds /\ today \in Days /\ runs \in 0 .. MaxRuns /\ pc \in Places
  /\ network \in BOOLEAN /\ certified \in BOOLEAN
  /\ calendar \in {0} \cup Days /\ session.day \in {0} \cup Days
  /\ report \in [failed : BOOLEAN, named : SUBSET RecordingDays]
  /\ reply \in [day : {0} \cup Days, outcome : Outcomes]
  /\ errors \in 0 .. MaxErrors /\ deaths \in 0 .. MaxDeaths

(* What the queue holds where: unsettled dates, then unjudged recordings. *)
QueueOK ==
  /\ pc \in {"ask", "record", "judge"} => queue \subseteq Days /\ queue # {}
  /\ pc \in {"ask", "record"} => \A d \in queue : disk.ledger[d] \notin Terminal
  /\ pc = "judge" => \A d \in queue : d < today /\ disk.recs[d].manifest = "ok"
  /\ pc \notin {"ask", "record", "judge"} => queue = {}
  /\ pc = "record" =>
       /\ reply.day \in queue
       /\ reply.outcome = "present" => HasFile(world, reply.day)
       /\ reply.outcome = "404" => ~HasFile(world, reply.day)

StoreInv == ControlOK /\ DisksOK /\ QueueOK

(* A recording leaves the queue judged or named. *)
JudgeInv ==
  /\ pc \in {"judge", "build", "manifest", "market"} =>
       /\ \A d \in RecordingDays : d \in queue \/ UnjudgedIsNamed(d)
       /\ report.failed \/ Ceiling \in queue \/ PriorIsJudged(Ceiling)
  /\ pc \in {"manifest", "market"} => ~report.failed

(* What READY was said of is still there. *)
ReadyInv ==
  certified => today \in disk.masters /\ disk.holidays \notin {NoCache, Unreadable}

-----------------------------------------------------------------------------
(* The least and the greatest of a set of days. *)

LEMMA MinIsLeast ==
  ASSUME NEW K \in Nat, NEW T, T \subseteq 1..K, T # {}
  PROVE  Min(T) \in T /\ \A y \in T : Min(T) <= y
  BY HasLeast DEF Min

LEMMA MaxIsGreatest ==
  ASSUME NEW K \in Nat, NEW T, T \subseteq 0..K, T # {}
  PROVE  Max(T) \in T /\ \A y \in T : y <= Max(T)
<1> DEFINE U == {K + 1 - x : x \in T}
<1>1. PICK u \in U : \A y \in U : u <= y
  <2>1. U \subseteq 1..K + 1
    <3>1. \A x \in T : K + 1 - x \in 1..K + 1
      BY SMT
    <3> QED
      BY <3>1
  <2>2. U # {}
    <3>1. PICK x \in T : TRUE
      OBVIOUS
    <3>2. K + 1 - x \in U
      BY <3>1
    <3> QED
      BY <3>2
  <2>3. K + 1 \in Nat
    OBVIOUS
  <2> HIDE DEF U
  <2> QED
    BY <2>1, <2>2, <2>3, HasLeast
<1>2. PICK x \in T : u = K + 1 - x
  BY <1>1
<1>3. ASSUME NEW y \in T PROVE x >= y
  <2>1. u <= K + 1 - y
    BY <1>1
  <2> QED
    BY <1>2, <2>1, SMT
<1>4. Max(T) \in T /\ \A y \in T : Max(T) >= y
  BY <1>3 DEF Max
<1> QED
  BY <1>4, SMT

LEMMA GreatestIsMax ==
  ASSUME NEW K \in Nat, NEW T, T \subseteq 0..K, NEW m \in T, \A y \in T : y <= m
  PROVE  Max(T) = m
<1>1. PICK greatest \in T : greatest = Max(T) /\ \A y \in T : y <= greatest
  BY MaxIsGreatest
<1>2. greatest \in Int /\ m \in Int /\ m <= greatest /\ greatest <= m
  BY <1>1, SMT
<1> QED
  BY <1>1, <1>2

LEMMA DaysAreNumbers == Days \subseteq 1..Horizon /\ Horizon \in Nat /\ \A d \in Days : d \in Nat /\ d # 0
  BY StoreAssumption DEF Days

-----------------------------------------------------------------------------
(* What NSE's answers make of a date. *)

(* Only the reply that ended a request decides it. *)
LEMMA FetchDecides ==
  ASSUME NEW R, NEW script \in [1 .. MaxAttempts -> R]
  PROVE  \/ Fetch(script) = "failed"
         \/ \E r \in R : Attempt(r) # "trying" /\ Fetch(script) = Attempt(r)
<1> DEFINE Ends == {i \in 1 .. Len(script) : Attempt(script[i]) # "trying"}
           last == SelectInSeq(script, LAMBDA r : Attempt(r) # "trying")
<1>1. script \in Seq(R) /\ Len(script) = MaxAttempts
  BY MaxAttemptsAssumption, LenProperties, SeqDef
<1>2. last = IF Ends # {} THEN Min(Ends) ELSE 0
  BY DEF SelectInSeq
<1>3. Ends # {} => Min(Ends) \in Ends
  BY <1>1, MaxAttemptsAssumption, MinIsLeast
<1>4. Fetch(script) = IF last = 0 THEN "failed" ELSE Attempt(script[last])
  BY DEF Fetch
<1> HIDE DEF last
<1>5. CASE Ends = {}
  BY <1>2, <1>4, <1>5
<1>6. CASE Ends # {}
  <2>1. last \in 1 .. MaxAttempts /\ Attempt(script[last]) # "trying" /\ last # 0
    BY <1>1, <1>2, <1>3, <1>6
  <2>2. script[last] \in R
    BY <2>1
  <2> QED
    BY <1>4, <2>1, <2>2
<1> QED
  BY <1>5, <1>6

LEMMA FetchAnswers ==
  /\ PublishedFetch \subseteq {"body", "failed"}
  /\ UnpublishedFetch \subseteq {"absent", "failed"}
<1>1. ASSUME NEW script \in [1 .. MaxAttempts -> Replies \ {"absent"}]
      PROVE  Fetch(script) \in {"body", "failed"}
  <2>1. \A r \in Replies \ {"absent"} :
          Attempt(r) # "trying" => Attempt(r) \in {"body", "failed"}
    BY DEF Attempt, Replies
  <2> QED
    BY <2>1, FetchDecides
<1>2. ASSUME NEW script \in [1 .. MaxAttempts -> Replies \ {"body"}]
      PROVE  Fetch(script) \in {"absent", "failed"}
  <2>1. \A r \in Replies \ {"body"} :
          Attempt(r) # "trying" => Attempt(r) \in {"absent", "failed"}
    BY DEF Attempt, Replies
  <2> QED
    BY <2>1, FetchDecides
<1> QED
  BY <1>1, <1>2 DEF PublishedFetch, UnpublishedFetch

(* The answers under one name of a date's file: only a published file has  *)
(* contents, and past the age at which a 404 is final it is not absent.    *)
LEMMA AnswersOfAFormat ==
  ASSUME NEW w, NEW d \in Days, NEW morn \in Days, NEW format,
         NEW answer \in FormatAnswers(w, d, morn, format)
  PROVE  /\ answer \in {"sound", "corrupt", "misdated", "failed", "absent"}
         /\ answer \in {"sound", "misdated"} => HasFile(w, d)
         /\ HasFile(w, d) /\ Seals(d, morn) /\ (format = 2) = (d \in w.otherFormat)
              => answer # "absent"
<1> DEFINE here == HasFile(w, d) /\ (format = 2) = (d \in w.otherFormat)
           late == d \in w.late /\ morn - d <= PublicationLag
           file == IF d \in w.misdated THEN {"misdated"} ELSE {"sound", "corrupt"}
           contents == UNION {IF got = "body" THEN file ELSE {got} : got \in PublishedFetch}
<1>1. answer \in (IF here THEN contents ELSE {})
                  \cup (IF ~here \/ late THEN UnpublishedFetch ELSE {})
  BY DEF FormatAnswers
<1>2. contents \subseteq {"sound", "corrupt", "misdated", "failed"}
  BY FetchAnswers
<1>3. Seals(d, morn) => ~late
  BY StoreAssumption, DaysAreNumbers DEF Seals
<1> HIDE DEF contents, late
<1> QED
  BY <1>1, <1>2, <1>3, FetchAnswers

(* download_bhavcopy: present means published, 404 means not published. *)
LEMMA DownloadsAreTrue ==
  ASSUME NEW w, NEW d \in Days, NEW morn \in Days, NEW outcome \in DownloadOutcomes(w, d, morn)
  PROVE  /\ outcome \in Outcomes \ {"none"}
         /\ outcome = "present" => HasFile(w, d)
         /\ outcome = "404" => ~HasFile(w, d)
<1>1. PICK a \in FormatAnswers(w, d, morn, 1), b \in FormatAnswers(w, d, morn, 2) :
        outcome = Download(w, d, morn, <<a, b>>)
  <2>1. PICK answers \in FormatAnswers(w, d, morn, 1) \X FormatAnswers(w, d, morn, 2) :
          outcome = Download(w, d, morn, answers)
    BY DEF DownloadOutcomes
  <2>2. answers = <<answers[1], answers[2]>>
    OBVIOUS
  <2> QED
    BY <2>1, <2>2
<1> DEFINE Asked == {i \in 1 .. Len(<<a, b>>) : <<a, b>>[i] # "absent"}
           asked == SelectInSeq(<<a, b>>, LAMBDA x : x # "absent")
<1>2. asked = IF Asked # {} THEN Min(Asked) ELSE 0
  BY DEF SelectInSeq
<1>3. Asked # {} => Min(Asked) \in 1 .. 2
  <2>1. Asked \subseteq 1 .. 2
    OBVIOUS
  <2> HIDE DEF Asked
  <2> QED
    BY <2>1, MinIsLeast
<1>4. asked = 0 => a = "absent" /\ b = "absent"
  <2> HIDE DEF asked
  <2>1. asked = 0 => Asked = {}
    BY <1>2, <1>3
  <2> QED
    BY <2>1
<1>5. asked # 0 => asked \in 1 .. 2 /\ <<a, b>>[asked] \in {a, b}
  <2> HIDE DEF asked
  <2>1. asked # 0 => asked \in 1 .. 2
    BY <1>2, <1>3
  <2> QED
    BY <2>1
<1>6. Download(w, d, morn, <<a, b>>) =
        CASE asked = 0 /\ Seals(d, morn)  -> "404"
          [] asked = 0 /\ ~Seals(d, morn) -> "pending"
          [] OTHER -> IF \/ <<a, b>>[asked] = "sound"
                         \/ <<a, b>>[asked] = "misdated" /\ d \in w.quirks
                      THEN "present" ELSE "error"
  BY DEF Download
<1> HIDE DEF asked
<1>7. CASE asked = 0
  <2>1. outcome \in {"404", "pending"} /\ (outcome = "404" => Seals(d, morn))
    BY <1>1, <1>6, <1>7
  <2>2. Seals(d, morn) => ~HasFile(w, d)
    <3>1. HasFile(w, d) /\ Seals(d, morn) /\ d \in w.otherFormat => b # "absent"
      BY AnswersOfAFormat, SMT
    <3>2. HasFile(w, d) /\ Seals(d, morn) /\ d \notin w.otherFormat => a # "absent"
      BY AnswersOfAFormat, SMT
    <3> QED
      BY <1>4, <1>7, <3>1, <3>2
  <2> QED
    BY <2>1, <2>2 DEF Outcomes, Terminal
<1>8. CASE asked # 0
  <2>1. outcome \in {"present", "error"}
        /\ (outcome = "present" => <<a, b>>[asked] \in {"sound", "misdated"})
    BY <1>1, <1>6, <1>8
  <2>2. <<a, b>>[asked] \in {"sound", "misdated"} => HasFile(w, d)
    BY <1>5, <1>8, AnswersOfAFormat
  <2> QED
    BY <2>1, <2>2 DEF Outcomes, Terminal
<1> QED
  BY <1>7, <1>8

-----------------------------------------------------------------------------
(* Every write leaves a sound disk. *)

LEMMA KindsOfDay ==
  ASSUME NEW w \in Worlds, NEW d \in Days
  PROVE  /\ HasFile(w, d) /\ ~IsWeekend(d) => w.kind[d] = "trading"
         /\ w.kind[d] = "trading" => HasFile(w, d) /\ ~IsWeekend(d)
  BY WorldAssumption DEF HasFile

(* What touches neither rows, ledger nor recordings. *)
LEMMA SoundMarks ==
  ASSUME NEW w, NEW day, NEW k, DiskSound(w, day, k),
         NEW on \in {NoCache, Unreadable} \cup Days, NEW held \in SUBSET Days
  PROVE  /\ DiskSound(w, day, [k EXCEPT !.holidays = on])
         /\ DiskSound(w, day, [k EXCEPT !.masters = held])
         /\ DiskSound(w, day, [k EXCEPT !.legible = FALSE])
  BY DEF DiskSound, Disks, LedgerSound, VerdictsSound

LEMMA SoundRows ==
  ASSUME NEW w, NEW day, NEW k, DiskSound(w, day, k), NEW d \in Days, HasFile(w, d)
  PROVE  DiskSound(w, day, WithRows(k, d)) /\ WithRows(k, d).ledger = k.ledger
<1>1. WithRows(k, d) \in Disks
  BY DEF DiskSound, Disks, WithRows
<1>2. LedgerSound(w, WithRows(k, d))
  BY DEF DiskSound, Disks, LedgerSound, WithRows
<1>3. VerdictsSound(w, day, WithRows(k, d)) /\ WithRows(k, d).ledger = k.ledger
  BY DEF DiskSound, Disks, VerdictsSound, WithRows
<1> QED
  BY <1>1, <1>2, <1>3 DEF DiskSound

LEMMA SoundSecondWrite ==
  ASSUME NEW w, NEW day, NEW k, DiskSound(w, day, k), NEW d \in Days, NEW outcome \in Outcomes,
         outcome = "present" => HasFile(w, d), outcome = "404" => ~HasFile(w, d)
  PROVE  /\ DiskSound(w, day, SecondWrite(k, d, outcome))
         /\ SecondWrite(k, d, outcome).ledger = [k.ledger EXCEPT ![d] = outcome]
<1>1. ASSUME NEW j, DiskSound(w, day, j), outcome = "present" => j.rows[d] = "whole"
      PROVE  /\ DiskSound(w, day, WithOutcome(j, d, outcome))
             /\ WithOutcome(j, d, outcome).ledger = [j.ledger EXCEPT ![d] = outcome]
  <2>1. WithOutcome(j, d, outcome) \in Disks
    BY <1>1 DEF DiskSound, Disks, WithOutcome
  <2>2. LedgerSound(w, WithOutcome(j, d, outcome))
    BY <1>1 DEF DiskSound, Disks, LedgerSound, WithOutcome
  <2>3. VerdictsSound(w, day, WithOutcome(j, d, outcome))
        /\ WithOutcome(j, d, outcome).ledger = [j.ledger EXCEPT ![d] = outcome]
    BY <1>1 DEF DiskSound, Disks, VerdictsSound, WithOutcome
  <2> QED
    BY <2>1, <2>2, <2>3 DEF DiskSound
<1>2. CASE outcome = "present"
  <2>1. DiskSound(w, day, WithRows(k, d)) /\ WithRows(k, d).ledger = k.ledger
    BY <1>2, SoundRows
  <2>2. WithRows(k, d).rows[d] = "whole"
    BY DEF DiskSound, Disks, WithRows
  <2> QED
    BY <1>1, <1>2, <2>1, <2>2 DEF SecondWrite
<1>3. CASE outcome # "present"
  BY <1>1, <1>3 DEF SecondWrite
<1> QED
  BY <1>2, <1>3

LEMMA SoundRebuild ==
  ASSUME NEW w, NEW day, NEW k, DiskSound(w, day, k)
  PROVE  DiskSound(w, day, RebuiltLedger(k))
<1>1. RebuiltLedger(k) \in Disks
  BY DEF DiskSound, Disks, RebuiltLedger, Outcomes, Terminal
<1>2. LedgerSound(w, RebuiltLedger(k))
  BY DEF DiskSound, Disks, LedgerSound, RebuiltLedger
<1>3. VerdictsSound(w, day, RebuiltLedger(k))
  BY DEF DiskSound, Disks, VerdictsSound, RebuiltLedger
<1> QED
  BY <1>1, <1>2, <1>3 DEF DiskSound

(* A recording changed in a way that keeps its verdict's meaning. *)
LEMMA SoundRecording ==
  ASSUME NEW w, NEW day, NEW k, DiskSound(w, day, k), NEW d \in Days, NEW rec \in Recs,
         d >= day => rec.verdict = NoVerdict,
         rec.verdict # NoVerdict =>
            \A s \in Symbols : rec.contents[s] # "nothing" => rec.verdict[s] # "unread",
         \A s \in Symbols : rec.verdict[s] = "judged" => HasFile(w, d) /\ <<s, d>> \notin w.unlisted
  PROVE  DiskSound(w, day, [k EXCEPT !.recs[d] = rec])
<1> DEFINE new == [k EXCEPT !.recs[d] = rec]
<1>1. d \in RecordingDays /\ d # Stray
  BY DaysAreNumbers DEF RecordingDays, Stray
<1>2. new \in Disks /\ new.recs = [k.recs EXCEPT ![d] = rec] /\ new.rows = k.rows
      /\ new.ledger = k.ledger /\ k.recs \in [RecordingDays -> Recs]
  BY <1>1 DEF DiskSound, Disks
<1>3. LedgerSound(w, new)
  BY <1>2 DEF DiskSound, LedgerSound
<1>4. VerdictsSound(w, day, new)
  <2> HIDE DEF new
  <2> QED
    BY <1>1, <1>2, SMT DEF DiskSound, VerdictsSound
<1> QED
  BY <1>2, <1>3, <1>4 DEF DiskSound

(* A verdict of the job on an earlier day. *)
LEMMA SoundVerdict ==
  ASSUME NEW w, NEW day \in Days, NEW k, DiskSound(w, day, k), NEW d \in Days, d < day
  PROVE  /\ Verdict(w, k, d) \in [Symbols -> {"unread", "absent", "blind", "silent", "judged"}]
         /\ \A s \in Symbols : Verdict(w, k, d)[s] # "unread"
         /\ DiskSound(w, day, [k EXCEPT !.recs[d].verdict = Verdict(w, k, d)])
<1> DEFINE verdict == Verdict(w, k, d)
           rec == [k.recs[d] EXCEPT !.verdict = verdict]
<1>1. k.recs[d] \in Recs /\ k.recs \in [RecordingDays -> Recs] /\ d \in RecordingDays
  BY DEF DiskSound, Disks, RecordingDays
<1>2. /\ verdict \in [Symbols -> {"unread", "absent", "blind", "silent", "judged"}]
      /\ \A s \in Symbols : verdict[s] # "unread"
      /\ \A s \in Symbols : verdict[s] = "judged" => HasRow(w, k, s, d)
  BY <1>1 DEF Verdict, OracleSpoke, Recs
<1>3. \A s \in Symbols : verdict[s] = "judged" => HasFile(w, d) /\ <<s, d>> \notin w.unlisted
  BY <1>2 DEF HasRow, DiskSound, LedgerSound
<1> HIDE DEF verdict
<1>4. rec \in Recs /\ rec.verdict = verdict /\ rec.contents = k.recs[d].contents
  BY <1>1, <1>2 DEF Recs
<1>5. ~(d >= day)
  BY DaysAreNumbers
<1>6. [k EXCEPT !.recs[d].verdict = verdict] = [k EXCEPT !.recs[d] = rec]
  BY <1>1 DEF DiskSound, Disks
<1>7. DiskSound(w, day, [k EXCEPT !.recs[d] = rec])
  <2> HIDE DEF rec
  <2> QED
    BY <1>2, <1>3, <1>4, <1>5, SoundRecording
<1> QED
  BY <1>2, <1>6, <1>7 DEF verdict

LEMMA DisksKept ==
  ASSUME DisksOK, UNCHANGED <<world, today, disk, survivors>>
  PROVE  DisksOK'
  BY DEF DisksOK

LEMMA DisksWritten ==
  ASSUME DisksOK, NEW new, DiskSound(world, today, new), Write(new), UNCHANGED <<world, today>>
  PROVE  DisksOK'
  BY DEF DisksOK, Write, Survivors

-----------------------------------------------------------------------------
(* StoreInv, action by action. *)

LEMMA InitStore == Init => StoreInv
<1> SUFFICES ASSUME Init PROVE StoreInv
  OBVIOUS
<1>1. FirstMorning \in Days /\ 0 \in 0 .. MaxErrors /\ 0 \in 0 .. MaxDeaths /\ 0 \in 0 .. MaxRuns
  BY MorningAssumption
<1>2. NoVerdict \in [Symbols -> {"unread", "absent", "blind", "silent", "judged"}]
      /\ \A s \in Symbols : NoVerdict[s] = "unread"
  BY DEF NoVerdict
<1>3. NoRecording \in Recs /\ NoRecording.verdict = NoVerdict /\ NoRecording.manifest = "none"
  BY <1>2 DEF NoRecording, Recs, RecordingDays, Stray
<1> DEFINE Recording(d) ==
      IF d = 1 THEN [NoRecording EXCEPT !.dir = TRUE, !.manifest = "ok", !.mode = "replay"]
      ELSE IF d = Stray /\ world.stray THEN [NoRecording EXCEPT !.dir = TRUE]
      ELSE NoRecording
<1>4. \A d \in RecordingDays : /\ Recording(d) \in Recs /\ Recording(d).verdict = NoVerdict
                               /\ d = Stray => Recording(d).manifest = "none"
  <2>1. /\ [NoRecording EXCEPT !.dir = TRUE, !.manifest = "ok", !.mode = "replay"] \in Recs
        /\ [NoRecording EXCEPT !.dir = TRUE, !.manifest = "ok", !.mode = "replay"].verdict = NoVerdict
        /\ [NoRecording EXCEPT !.dir = TRUE] \in Recs
        /\ [NoRecording EXCEPT !.dir = TRUE].verdict = NoVerdict
        /\ [NoRecording EXCEPT !.dir = TRUE].manifest = "none"
    BY <1>3 DEF Recs
  <2> QED
    BY <1>3, <2>1 DEF Stray
<1> HIDE DEF Recording
<1> DEFINE rows == [d \in Days |-> IF d <= SettledAtStart /\ HasFile(world, d)
                                   THEN "whole" ELSE "none"]
           ledger == [d \in Days |-> IF d > SettledAtStart THEN "none"
                                     ELSE IF HasFile(world, d) THEN "present" ELSE "404"]
           recs == [d \in RecordingDays |-> Recording(d)]
<1>5. disk = [rows |-> rows, ledger |-> ledger, legible |-> TRUE, holidays |-> NoCache,
              masters |-> {}, recs |-> recs]
  BY DEF Init, Recording
<1>6. disk \in Disks
  <2>1. rows \in [Days -> {"none", "whole"}] /\ ledger \in [Days -> Outcomes]
    BY DEF Outcomes, Terminal
  <2>2. recs \in [RecordingDays -> Recs]
    BY <1>4
  <2> HIDE DEF rows, ledger, recs
  <2> QED
    BY <1>5, <2>1, <2>2 DEF Disks
<1>7. LedgerSound(world, disk)
  <2>1. /\ disk.rows = rows /\ disk.ledger = ledger
    BY <1>5
  <2>2. \A d \in Days : d \in Int /\ SettledAtStart \in Int
    BY MorningAssumption, DaysAreNumbers
  <2> QED
    BY <2>1, <2>2 DEF LedgerSound
<1>8. VerdictsSound(world, today, disk)
  BY <1>2, <1>4, <1>5 DEF VerdictsSound
<1>9. DisksOK
  BY <1>6, <1>7, <1>8 DEF Init, DisksOK, DiskSound
<1>10. ControlOK
  BY <1>1 DEF Init, ControlOK, Places, NoReport, NoReply, NoSession, Outcomes
<1> QED
  BY <1>9, <1>10 DEF Init, StoreInv, QueueOK

(* A command that ends has nothing queued. *)
LEMMA EndsStore ==
  ASSUME ControlOK, End, UNCHANGED <<world, today, runs>>, certified' \in BOOLEAN,
         errors' \in 0 .. MaxErrors, deaths' \in 0 .. MaxDeaths
  PROVE  ControlOK' /\ QueueOK'
  BY DEF ControlOK, QueueOK, End, Places, NoReport, NoReply, NoSession, Outcomes

LEMMA FailType ==
  ASSUME ControlOK, NEW step \in BOOLEAN
  PROVE  Fail(step) \in [failed : BOOLEAN, named : SUBSET RecordingDays]
  BY DEF ControlOK, Fail

LEMMA StartMorningStore == StoreInv /\ StartMorning => StoreInv'
<1> SUFFICES ASSUME StoreInv, StartMorning PROVE StoreInv'
  OBVIOUS
<1>1. ControlOK'
  BY MorningAssumption DEF StoreInv, StartMorning, ControlOK, Places, faults, CanStart
<1>2. QueueOK'
  BY DEF StoreInv, StartMorning, QueueOK
<1>3. DisksOK'
  BY DisksKept DEF StoreInv, StartMorning, Keep
<1> QED
  BY <1>1, <1>2, <1>3 DEF StoreInv

LEMMA CacheServesDays ==
  ASSUME NEW on \in {NoCache, Unreadable} \cup Days, NEW day \in Days, NEW net \in BOOLEAN,
         NEW got \in CachedJson(on, day, net)
  PROVE  /\ got.served \in BOOLEAN /\ got.on \in {NoCache, Unreadable} \cup Days
         /\ got.served => got.on \in Days
         /\ on \notin {NoCache, Unreadable} => got.on \notin {NoCache, Unreadable}
         /\ on \notin {NoCache, Unreadable} /\ ~net => got.served
<1>1. day \notin {NoCache, Unreadable}
  BY DaysAreNumbers DEF NoCache, Unreadable
<1>2. CASE on \notin {NoCache, Unreadable} /\ (on = day \/ ~net)
  <2>1. got = [served |-> TRUE, on |-> on]
    BY <1>2 DEF CachedJson
  <2> QED
    BY <1>2, <2>1
<1>3. CASE ~(on \notin {NoCache, Unreadable} /\ (on = day \/ ~net)) /\ ~net
  <2>1. got = [served |-> FALSE, on |-> on]
    BY <1>3 DEF CachedJson
  <2> QED
    BY <1>3, <2>1
<1>4. CASE ~(on \notin {NoCache, Unreadable} /\ (on = day \/ ~net)) /\ net
  <2>1. PICK answer \in PublishedFetch :
          got = [served |-> answer = "body", on |-> IF answer = "body" THEN day ELSE on]
    BY <1>4 DEF CachedJson
  <2> QED
    BY <1>1, <1>4, <2>1
<1> QED
  BY <1>2, <1>3, <1>4

LEMMA RefreshCalendarStore == StoreInv /\ RefreshCalendar => StoreInv'
<1> SUFFICES ASSUME StoreInv, RefreshCalendar PROVE StoreInv'
  OBVIOUS
<1> USE DEF StoreInv
<1>1. PICK got \in CachedJson(disk.holidays, today, network) :
        /\ IF got.on = disk.holidays THEN Keep ELSE Write([disk EXCEPT !.holidays = got.on])
        /\ calendar' = IF got.served THEN got.on ELSE 0
        /\ report' = Fail(~got.served)
  BY DEF RefreshCalendar
<1>2. DiskSound(world, today, disk) /\ disk.holidays \in {NoCache, Unreadable} \cup Days
  BY DEF DisksOK, DiskSound, Disks
<1>3. /\ got.served \in BOOLEAN /\ got.on \in {NoCache, Unreadable} \cup Days
      /\ got.served => got.on \in Days
  BY <1>1, <1>2, CacheServesDays DEF ControlOK
<1>4. ControlOK'
  BY <1>1, <1>3, FailType DEF RefreshCalendar, ControlOK, Places, run, faults
<1>5. QueueOK'
  BY DEF RefreshCalendar, QueueOK
<1>6. DisksOK'
  <2>1. DiskSound(world, today, [disk EXCEPT !.holidays = got.on])
    BY <1>2, <1>3, SoundMarks
  <2> QED
    BY <1>1, <2>1, DisksKept, DisksWritten DEF RefreshCalendar, Keep, run
<1> QED
  BY <1>4, <1>5, <1>6

LEMMA RefreshUniverseStore == StoreInv /\ RefreshUniverse => StoreInv'
<1> SUFFICES ASSUME StoreInv, RefreshUniverse PROVE StoreInv'
  OBVIOUS
<1>1. ControlOK' /\ QueueOK'
  BY FailType DEF StoreInv, RefreshUniverse, ControlOK, QueueOK, Places, run, faults, Keep
<1>2. DisksOK'
  BY DisksKept DEF StoreInv, RefreshUniverse, Keep, run
<1> QED
  BY <1>1, <1>2 DEF StoreInv

LEMMA PlanTopUpStore == StoreInv /\ PlanTopUp => StoreInv'
<1> SUFFICES ASSUME StoreInv, PlanTopUp PROVE StoreInv'
  OBVIOUS
<1> USE DEF StoreInv
<1>1. DisksOK' /\ disk' = disk
  BY DisksKept DEF PlanTopUp, Keep, run
<1>2. queue' \subseteq Days /\ \A d \in queue' : disk.ledger[d] \notin Terminal
  BY DEF PlanTopUp, ResolveDates, PendingDates
<1>3. ControlOK'
  BY FailType DEF PlanTopUp, ControlOK, Places, run, faults
<1>4. QueueOK'
  BY <1>1, <1>2 DEF PlanTopUp, QueueOK
<1> QED
  BY <1>1, <1>3, <1>4

(* The date asked is in the queue. *)
LEMMA NextOfQueue ==
  ASSUME queue \subseteq Days, queue # {}
  PROVE  Min(queue) \in queue /\ Min(queue) \in Days
  BY MinIsLeast, DaysAreNumbers

LEMMA AskDateStore == StoreInv /\ AskDate => StoreInv'
<1> SUFFICES ASSUME StoreInv, AskDate PROVE StoreInv'
  OBVIOUS
<1> USE DEF StoreInv
<1> DEFINE d == Min(queue)
<1>1. PICK outcome \in DownloadOutcomes(world, d, today) :
        /\ outcome = "error" => errors < MaxErrors
        /\ errors' = IF outcome = "error" THEN errors + 1 ELSE errors
        /\ reply' = [day |-> d, outcome |-> outcome]
        /\ IF outcome = "present" THEN Write(FirstWrite(disk, d, outcome)) ELSE Keep
  BY DEF AskDate
<1>2. pc = "ask" /\ queue' = queue /\ pc' = "record" /\ UNCHANGED <<run, hand, deaths>>
  BY DEF AskDate
<1>3. d \in queue /\ d \in Days /\ queue \subseteq Days
  BY <1>2, NextOfQueue DEF QueueOK
<1> HIDE DEF d
<1>4. /\ outcome \in Outcomes
      /\ outcome = "present" => HasFile(world, d)
      /\ outcome = "404" => ~HasFile(world, d)
  BY <1>3, DownloadsAreTrue DEF ControlOK
<1>5. ControlOK'
  BY <1>1, <1>2, <1>3, <1>4, MorningAssumption DEF ControlOK, Places, run, hand
<1>6. DisksOK' /\ disk'.ledger = disk.ledger
  <2>1. DiskSound(world, today, disk)
    BY DEF DisksOK
  <2>2. CASE outcome = "present"
    <3>1. DiskSound(world, today, WithRows(disk, d)) /\ WithRows(disk, d).ledger = disk.ledger
      BY <1>3, <1>4, <2>1, <2>2, SoundRows
    <3>2. Write(WithRows(disk, d)) /\ UNCHANGED <<world, today>>
      BY <1>1, <1>2, <2>2 DEF FirstWrite, run
    <3> QED
      BY <3>1, <3>2, DisksWritten DEF Write
  <2>3. CASE outcome # "present"
    BY <1>1, <1>2, <2>3, DisksKept DEF Keep, run
  <2> QED
    BY <2>2, <2>3
<1>7. QueueOK'
  BY <1>1, <1>2, <1>3, <1>4, <1>6 DEF QueueOK, run
<1> QED
  BY <1>5, <1>6, <1>7

LEMMA RecordDateStore == StoreInv /\ RecordDate => StoreInv'
<1> SUFFICES ASSUME StoreInv, RecordDate PROVE StoreInv'
  OBVIOUS
<1> USE DEF StoreInv
<1> DEFINE d == reply.day
           new == SecondWrite(disk, d, reply.outcome)
<1>1. /\ pc = "record" /\ d \in queue /\ queue \subseteq Days /\ reply.outcome \in Outcomes
      /\ reply.outcome = "present" => HasFile(world, d)
      /\ reply.outcome = "404" => ~HasFile(world, d)
  BY DEF RecordDate, QueueOK, ControlOK
<1>2. DiskSound(world, today, disk)
  BY DEF DisksOK
<1>3. DiskSound(world, today, new) /\ new.ledger = [disk.ledger EXCEPT ![d] = reply.outcome]
  BY <1>1, <1>2, SoundSecondWrite
<1>4. Write(new) /\ UNCHANGED <<run, faults>>
  BY DEF RecordDate
<1> HIDE DEF new
<1>5. DisksOK' /\ disk'.ledger = [disk.ledger EXCEPT ![d] = reply.outcome]
  BY <1>3, <1>4, DisksWritten DEF Write, run
<1>6. CASE End
  <2>1. ControlOK' /\ QueueOK'
    BY <1>4, <1>6, EndsStore DEF ControlOK, run, faults
  <2> QED
    BY <1>5, <2>1
<1>7. CASE /\ queue' = queue \ {reply.day} /\ reply' = NoReply
           /\ pc' = IF queue' = {} THEN "actions" ELSE "ask"
           /\ UNCHANGED hand
  <2>1. ControlOK'
    BY <1>4, <1>7 DEF ControlOK, Places, NoReply, Outcomes, run, faults, hand
  <2>2. \A e \in queue' : disk'.ledger[e] = disk.ledger[e]
    BY <1>1, <1>2, <1>5, <1>7 DEF DiskSound, Disks
  <2>3. QueueOK'
    BY <1>1, <1>7, <2>2 DEF QueueOK
  <2> QED
    BY <1>5, <2>1, <2>3
<1> QED
  BY <1>6, <1>7 DEF RecordDate

LEMMA InterruptStore == StoreInv /\ Interrupt => StoreInv'
<1> SUFFICES ASSUME StoreInv, Interrupt PROVE StoreInv'
  OBVIOUS
<1>1. ControlOK' /\ QueueOK'
  BY FailType DEF StoreInv, Interrupt, ControlOK, QueueOK, Places, run, faults
<1>2. DisksOK'
  BY DisksKept DEF StoreInv, Interrupt, Keep, run
<1> QED
  BY <1>1, <1>2 DEF StoreInv

LEMMA RefreshCorporateActionsStore == StoreInv /\ RefreshCorporateActions => StoreInv'
<1> SUFFICES ASSUME StoreInv, RefreshCorporateActions PROVE StoreInv'
  OBVIOUS
<1>1. ControlOK' /\ QueueOK'
  BY FailType DEF StoreInv, RefreshCorporateActions, ControlOK, QueueOK, Places, run, faults
<1>2. DisksOK'
  BY DisksKept DEF StoreInv, RefreshCorporateActions, Keep, run
<1> QED
  BY <1>1, <1>2 DEF StoreInv

LEMMA MastersAreDays ==
  ASSUME NEW held \in SUBSET Days, NEW day \in Days, NEW net \in BOOLEAN,
         NEW got \in DayMaster(held, day, net)
  PROVE  /\ got.served \in BOOLEAN /\ got.held \in SUBSET Days /\ held \subseteq got.held
         /\ day \in held => got.served
<1>1. got \in {[served |-> TRUE, held |-> held], [served |-> FALSE, held |-> held],
              [served |-> TRUE, held |-> held \cup {day}]}
      /\ (day \in held => got = [served |-> TRUE, held |-> held])
  BY DEF DayMaster
<1>2. CASE got = [served |-> TRUE, held |-> held]
  BY <1>2
<1>3. CASE got = [served |-> FALSE, held |-> held]
  BY <1>1, <1>3
<1>4. CASE got = [served |-> TRUE, held |-> held \cup {day}]
  BY <1>4
<1> QED
  BY <1>1, <1>2, <1>3, <1>4

LEMMA RefreshMasterStore == StoreInv /\ RefreshMaster => StoreInv'
<1> SUFFICES ASSUME StoreInv, RefreshMaster PROVE StoreInv'
  OBVIOUS
<1> USE DEF StoreInv
<1>1. PICK got \in DayMaster(disk.masters, today, network) :
        /\ IF got.held = disk.masters THEN Keep ELSE Write([disk EXCEPT !.masters = got.held])
        /\ IF calendar = 0
           THEN End
           ELSE /\ report' = Fail(~got.served) /\ pc' = "queue"
                /\ UNCHANGED <<network, queue, reply, calendar, session>>
  BY DEF RefreshMaster
<1>2. pc = "master" /\ UNCHANGED <<run, faults>>
  BY DEF RefreshMaster
<1>3. DiskSound(world, today, disk) /\ disk.masters \in SUBSET Days
  BY DEF DisksOK, DiskSound, Disks
<1>4. got.served \in BOOLEAN /\ got.held \in SUBSET Days
  <2>1. today \in Days /\ network \in BOOLEAN
    BY DEF ControlOK
  <2> QED
    BY <1>1, <1>3, <2>1, MastersAreDays
<1>5. DisksOK'
  <2>1. DiskSound(world, today, [disk EXCEPT !.masters = got.held])
    <3>1. NoCache \in {NoCache, Unreadable} \cup Days
      OBVIOUS
    <3> QED
      BY <1>3, <1>4, <3>1, SoundMarks
  <2> QED
    BY <1>1, <1>2, <2>1, DisksKept, DisksWritten DEF Keep, run
<1>6. CASE calendar = 0
  <2>1. ControlOK' /\ QueueOK'
    BY <1>1, <1>2, <1>6, EndsStore DEF ControlOK, run, faults
  <2> QED
    BY <1>5, <2>1
<1>7. CASE calendar # 0
  <2>1. ControlOK' /\ QueueOK'
    BY <1>1, <1>2, <1>4, <1>7, FailType DEF ControlOK, QueueOK, Places, run, faults
  <2> QED
    BY <1>5, <2>1
<1> QED
  BY <1>6, <1>7

LEMMA QueueRecordingsStore == StoreInv /\ QueueRecordings => StoreInv'
<1> SUFFICES ASSUME StoreInv, QueueRecordings PROVE StoreInv'
  OBVIOUS
<1> USE DEF StoreInv
<1>1. DisksOK'
  BY DisksKept DEF QueueRecordings, Keep, run
<1>2. DOMAIN disk.recs = RecordingDays /\ disk.recs[Stray].manifest = "none"
  BY DEF DisksOK, DiskSound, Disks, VerdictsSound, RecordingDays
<1>3. queue' \subseteq Days /\ \A d \in queue' : d < today /\ disk.recs[d].manifest = "ok"
  BY <1>2 DEF QueueRecordings, PendingRecordings, RecordingDays
<1>4. UnreadableRecordings(disk.recs) \subseteq RecordingDays
  BY <1>2 DEF UnreadableRecordings
<1>5. ControlOK'
  <2>1. report' \in [failed : BOOLEAN, named : SUBSET RecordingDays]
    BY <1>4 DEF QueueRecordings, ControlOK
  <2> QED
    BY <2>1 DEF QueueRecordings, ControlOK, Places, run, faults
<1>6. QueueOK'
  BY <1>3 DEF QueueRecordings, QueueOK, run, Keep
<1> QED
  BY <1>1, <1>5, <1>6

LEMMA JudgeRecordingStore == StoreInv /\ JudgeRecording => StoreInv'
<1> SUFFICES ASSUME StoreInv, JudgeRecording PROVE StoreInv'
  OBVIOUS
<1> USE DEF StoreInv
<1> DEFINE d == Min(queue)
           new == [disk EXCEPT !.recs[d].verdict = Verdict(world, disk, d)]
<1>1. /\ pc = "judge" /\ queue' = queue \ {d}
      /\ pc' = IF queue' = {} THEN "build" ELSE "judge"
      /\ UNCHANGED <<run, network, reply, calendar, session, faults>>
      /\ IF CanBeJudged(disk, d)
         THEN Write(new) /\ report' = report
         ELSE /\ Keep
              /\ report' = [report EXCEPT !.named = @ \cup {d}, !.failed = @ \/ d = Ceiling]
  BY DEF JudgeRecording
<1>2. d \in queue /\ d \in Days /\ d < today /\ queue \subseteq Days
  BY <1>1, NextOfQueue DEF QueueOK
<1>3. DiskSound(world, today, disk)
  BY DEF DisksOK
<1>4. DiskSound(world, today, new)
  BY <1>2, <1>3, SoundVerdict DEF ControlOK
<1> HIDE DEF d, new
<1>5. DisksOK'
  BY <1>1, <1>4, DisksKept, DisksWritten DEF Keep, run
<1>6. ControlOK'
  <2>1. report' \in [failed : BOOLEAN, named : SUBSET RecordingDays]
    <3>1. CASE report' = report
      BY <3>1 DEF ControlOK
    <3>2. CASE report' = [report EXCEPT !.named = @ \cup {d}, !.failed = @ \/ d = Ceiling]
      BY <1>2, <3>2 DEF ControlOK, RecordingDays
    <3> QED
      BY <1>1, <3>1, <3>2
  <2> QED
    BY <1>1, <2>1 DEF ControlOK, Places, run, faults
<1>7. QueueOK'
  <2>1. \A e \in queue' : disk'.recs[e] = disk.recs[e]
    BY <1>1, <1>2, <1>3 DEF Write, Keep, new, DiskSound, Disks, RecordingDays
  <2> QED
    BY <1>1, <1>2, <2>1 DEF QueueOK, run
<1> QED
  BY <1>5, <1>6, <1>7

(* A command that ends writes nothing. *)
LEMMA EndingStore ==
  ASSUME StoreInv, End, Keep, UNCHANGED <<run, errors>>, deaths' \in 0 .. MaxDeaths
  PROVE  StoreInv'
<1>1. ControlOK' /\ QueueOK'
  BY EndsStore DEF StoreInv, ControlOK, run
<1>2. DisksOK'
  BY DisksKept DEF StoreInv, Keep, run
<1> QED
  BY <1>1, <1>2 DEF StoreInv

LEMMA NotReadyStore == StoreInv /\ (NotReady \/ CannotStart \/ Die) => StoreInv'
<1> SUFFICES ASSUME StoreInv, NotReady \/ CannotStart \/ Die PROVE StoreInv'
  OBVIOUS
<1>1. End /\ Keep /\ UNCHANGED <<run, errors>>
  BY DEF NotReady, CannotStart, Die, faults
<1>2. deaths' \in 0 .. MaxDeaths
  BY MorningAssumption DEF NotReady, CannotStart, Die, faults, StoreInv, ControlOK
<1> QED
  BY <1>1, <1>2, EndingStore

(* A write to the day's own recording. *)
LEMMA SoundToday ==
  ASSUME StoreInv, NEW rec \in Recs, rec.verdict = NoVerdict
  PROVE  DiskSound(world, today, [disk EXCEPT !.recs[today] = rec])
<1>1. DiskSound(world, today, disk) /\ today \in Days
  BY DEF StoreInv, DisksOK, ControlOK
<1>2. \A s \in Symbols : rec.verdict[s] # "judged"
  BY DEF NoVerdict
<1> QED
  BY <1>1, <1>2, SoundRecording

LEMMA TodaysRecording ==
  ASSUME StoreInv
  PROVE  disk \in Disks /\ disk.recs[today] \in Recs /\ disk.recs[today].verdict = NoVerdict
<1>1. DiskSound(world, today, disk) /\ today \in Days /\ today \in RecordingDays /\ today >= today
  BY DaysAreNumbers DEF StoreInv, DisksOK, ControlOK, RecordingDays
<1> QED
  BY <1>1 DEF DiskSound, Disks, VerdictsSound

LEMMA BuildScreenerStore == StoreInv /\ BuildScreener => StoreInv'
<1> SUFFICES ASSUME StoreInv, BuildScreener PROVE StoreInv'
  OBVIOUS
<1> DEFINE rec == [disk.recs[today] EXCEPT !.dir = TRUE]
           new == [disk EXCEPT !.recs[today].dir = TRUE]
<1>1. rec \in Recs /\ rec.verdict = NoVerdict
  BY TodaysRecording DEF Recs
<1>2. new = [disk EXCEPT !.recs[today] = rec]
  BY TodaysRecording DEF Disks
<1>3. DiskSound(world, today, new)
  <2> HIDE DEF rec
  <2> QED
    BY <1>1, <1>2, SoundToday
<1>4. (Keep \/ Write(new)) /\ UNCHANGED <<run, network, queue, reply, calendar, report, faults>>
  BY DEF BuildScreener
<1>5. DisksOK'
  <2> HIDE DEF new
  <2> QED
    BY <1>3, <1>4, DisksKept, DisksWritten DEF StoreInv, Keep, run
<1>6. pc = "build" /\ pc' \in {"market", "manifest"} /\ session'.day = today
  BY DEF BuildScreener
<1>7. ControlOK' /\ QueueOK'
  BY <1>4, <1>6 DEF StoreInv, ControlOK, QueueOK, Places, run, faults
<1> QED
  BY <1>5, <1>7 DEF StoreInv

LEMMA OpenSessionStore == StoreInv /\ OpenSession => StoreInv'
<1> SUFFICES ASSUME StoreInv, OpenSession PROVE StoreInv'
  OBVIOUS
<1> DEFINE rec == WithManifest(disk.recs[today], today)
           new == [disk EXCEPT !.recs[today] = rec]
<1>1. rec \in Recs /\ rec.verdict = NoVerdict
  <2>1. today \in RecordingDays
    BY DEF StoreInv, ControlOK, RecordingDays
  <2> QED
    BY <2>1, TodaysRecording DEF Recs, WithManifest
<1>2. DiskSound(world, today, new)
  <2> HIDE DEF rec
  <2> QED
    BY <1>1, SoundToday
<1>3. UNCHANGED <<run, faults>> /\ pc = "manifest"
  BY DEF OpenSession
<1>4. Keep \/ Write(new)
  BY TodaysRecording DEF OpenSession, OpenManifest, Disks
<1>5. DisksOK'
  <2> HIDE DEF new
  <2> QED
    BY <1>2, <1>3, <1>4, DisksKept, DisksWritten DEF StoreInv, Keep, run
<1>6. CASE pc' = "market" /\ UNCHANGED <<queue, reply, hand>>
  <2>1. ControlOK' /\ QueueOK'
    BY <1>3, <1>6 DEF StoreInv, ControlOK, QueueOK, Places, run, faults, hand
  <2> QED
    BY <1>5, <2>1 DEF StoreInv
<1>7. CASE End
  <2>1. ControlOK' /\ QueueOK'
    BY <1>3, <1>7, EndsStore DEF StoreInv, ControlOK, run, faults
  <2> QED
    BY <1>5, <2>1 DEF StoreInv
<1> QED
  BY <1>6, <1>7 DEF OpenSession

LEMMA TradeDayStore == StoreInv /\ TradeDay => StoreInv'
<1> SUFFICES ASSUME StoreInv, TradeDay PROVE StoreInv'
  OBVIOUS
<1>1. PICK more \in [Symbols -> 1 .. Len(Contents)] :
        Write([disk EXCEPT !.recs[today].contents = [s \in Symbols |-> Contents[more[s]]]])
  BY DEF TradeDay
<1> DEFINE contents == [s \in Symbols |-> Contents[more[s]]]
           rec == [disk.recs[today] EXCEPT !.contents = contents]
           new == [disk EXCEPT !.recs[today].contents = contents]
<1>2. contents \in [Symbols -> {"nothing", "alert", "candles"}]
  <2>1. Contents = <<"nothing", "alert", "candles">> /\ Len(Contents) = 3
    BY DEF Contents
  <2>2. \A i \in 1 .. 3 : Contents[i] \in {"nothing", "alert", "candles"}
    BY <2>1
  <2> QED
    BY <2>1, <2>2
<1> HIDE DEF contents
<1>3. rec \in Recs /\ rec.verdict = NoVerdict
  BY <1>2, TodaysRecording DEF Recs
<1>4. new = [disk EXCEPT !.recs[today] = rec]
  BY TodaysRecording DEF Disks
<1>5. DiskSound(world, today, new)
  <2> HIDE DEF rec
  <2> QED
    BY <1>3, <1>4, SoundToday
<1>6. Write(new) /\ End /\ UNCHANGED <<run, faults>>
  BY <1>1 DEF TradeDay, contents
<1>7. DisksOK'
  <2> HIDE DEF new
  <2> QED
    BY <1>5, <1>6, DisksWritten DEF StoreInv, run
<1>8. ControlOK' /\ QueueOK'
  BY <1>6, EndsStore DEF StoreInv, ControlOK, run, faults
<1> QED
  BY <1>7, <1>8 DEF StoreInv

LEMMA BackfillStore == StoreInv /\ Backfill => StoreInv'
<1> SUFFICES ASSUME StoreInv, Backfill PROVE StoreInv'
  OBVIOUS
<1>1. queue' \subseteq Days /\ \A d \in queue' : disk.ledger[d] \notin Terminal
  BY DEF Backfill, ResolveDates, PendingDates
<1>2. QueueOK' /\ DisksOK'
  BY <1>1, DisksKept DEF StoreInv, Backfill, QueueOK, Keep
<1>3. ControlOK'
  BY MorningAssumption DEF StoreInv, Backfill, ControlOK, Places, faults, CanStart
<1> QED
  BY <1>2, <1>3 DEF StoreInv

LEMMA RebuildLedgerStore == StoreInv /\ RebuildLedger => StoreInv'
<1> SUFFICES ASSUME StoreInv, RebuildLedger PROVE StoreInv'
  OBVIOUS
<1>1. DiskSound(world, today, RebuiltLedger(disk))
  BY SoundRebuild DEF StoreInv, DisksOK
<1>2. DisksOK'
  BY <1>1, DisksWritten DEF StoreInv, RebuildLedger, run
<1>3. ControlOK' /\ QueueOK'
  BY DEF StoreInv, RebuildLedger, ControlOK, QueueOK, run, hand, faults
<1> QED
  BY <1>2, <1>3 DEF StoreInv

LEMMA DryRunReadinessStore == StoreInv /\ DryRunReadiness => StoreInv'
<1> SUFFICES ASSUME StoreInv, DryRunReadiness PROVE StoreInv'
  OBVIOUS
<1>1. certified' \in BOOLEAN
  BY DEF DryRunReadiness, Ready
<1>2. ControlOK' /\ QueueOK' /\ DisksOK'
  BY <1>1, DisksKept DEF StoreInv, DryRunReadiness, ControlOK, QueueOK, Keep, hand, faults
<1> QED
  BY <1>2 DEF StoreInv

LEMMA NextDayStore == StoreInv /\ NextDay => StoreInv'
<1> SUFFICES ASSUME StoreInv, NextDay PROVE StoreInv'
  OBVIOUS
<1>1. today + 1 \in Days /\ today' = today + 1 /\ UNCHANGED <<world, disk>> /\ survivors' = {disk}
  BY DaysAreNumbers DEF StoreInv, NextDay, ControlOK, Days
<1>2. DiskSound(world, today + 1, disk)
  <2>1. DiskSound(world, today, disk)
    BY DEF StoreInv, DisksOK
  <2>2. \A d \in RecordingDays : d >= today + 1 => d >= today
    BY <1>1, DaysAreNumbers DEF StoreInv, ControlOK, RecordingDays, Stray
  <2> QED
    BY <2>1, <2>2 DEF DiskSound, VerdictsSound
<1>3. DisksOK'
  BY <1>1, <1>2 DEF DisksOK
<1>4. ControlOK' /\ QueueOK'
  BY <1>1 DEF StoreInv, NextDay, ControlOK, QueueOK, hand, faults
<1> QED
  BY <1>3, <1>4 DEF StoreInv

LEMMA OneMoreDeath ==
  ASSUME deaths \in 0 .. MaxDeaths, deaths < MaxDeaths
  PROVE  deaths + 1 \in 0 .. MaxDeaths
  BY MorningAssumption

LEMMA LosePowerStore == StoreInv /\ LosePower => StoreInv'
<1> SUFFICES ASSUME StoreInv, LosePower PROVE StoreInv'
  OBVIOUS
<1>1. DisksOK'
  BY DEF StoreInv, LosePower, DisksOK
<1>2. deaths' \in 0 .. MaxDeaths /\ certified' \in BOOLEAN /\ errors' = errors
      /\ End /\ UNCHANGED <<world, today, runs>>
  BY OneMoreDeath DEF StoreInv, LosePower, ControlOK
<1>3. ControlOK' /\ QueueOK'
  BY <1>2, EndsStore DEF StoreInv, ControlOK
<1> QED
  BY <1>1, <1>3 DEF StoreInv

(* A damaged file: the ledger, the holiday cache, a manifest, a master. *)
LEMMA DamagedDisk ==
  ASSUME StoreInv, Damage
  PROVE  /\ DiskSound(world, today, disk')
         /\ disk'.ledger = disk.ledger /\ disk'.rows = disk.rows
<1>1. DiskSound(world, today, disk) /\ disk \in Disks
  BY DEF StoreInv, DisksOK, DiskSound
<1>2. CASE disk' = [disk EXCEPT !.legible = FALSE]
  BY <1>1, <1>2, SoundMarks DEF Disks
<1>3. CASE disk' = [disk EXCEPT !.holidays = Unreadable]
  BY <1>1, <1>3, SoundMarks DEF Disks
<1>4. ASSUME NEW d \in disk.masters, disk' = [disk EXCEPT !.masters = @ \ {d}]
      PROVE  DiskSound(world, today, disk') /\ disk'.ledger = disk.ledger /\ disk'.rows = disk.rows
  <2>1. disk' = [disk EXCEPT !.masters = disk.masters \ {d}] /\ disk.masters \ {d} \in SUBSET Days
    BY <1>1, <1>4 DEF Disks
  <2>2. NoCache \in {NoCache, Unreadable} \cup Days
    OBVIOUS
  <2> QED
    BY <1>1, <2>1, <2>2, SoundMarks DEF Disks
<1>5. ASSUME NEW d \in Days, disk.recs[d].manifest = "ok",
             disk' = [disk EXCEPT !.recs[d].manifest = "damaged"]
      PROVE  DiskSound(world, today, disk') /\ disk'.ledger = disk.ledger /\ disk'.rows = disk.rows
  <2> DEFINE rec == [disk.recs[d] EXCEPT !.manifest = "damaged"]
  <2>1. disk.recs[d] \in Recs /\ d \in RecordingDays
    BY <1>1 DEF Disks, RecordingDays
  <2>2. /\ rec \in Recs /\ rec.verdict = disk.recs[d].verdict
        /\ rec.contents = disk.recs[d].contents
        /\ disk' = [disk EXCEPT !.recs[d] = rec]
    BY <1>1, <1>5, <2>1 DEF Recs, Disks
  <2>3. DiskSound(world, today, [disk EXCEPT !.recs[d] = rec])
    <3> HIDE DEF rec
    <3>1. /\ d >= today => rec.verdict = NoVerdict
          /\ rec.verdict # NoVerdict =>
               \A s \in Symbols : rec.contents[s] # "nothing" => rec.verdict[s] # "unread"
          /\ \A s \in Symbols : rec.verdict[s] = "judged" =>
               HasFile(world, d) /\ <<s, d>> \notin world.unlisted
      BY <1>1, <2>1, <2>2 DEF DiskSound, VerdictsSound
    <3> QED
      BY <1>1, <2>2, <3>1, SoundRecording
  <2> QED
    BY <1>1, <2>2, <2>3 DEF Disks
<1> QED
  BY <1>2, <1>3, <1>4, <1>5 DEF Damage

LEMMA DamageStore == StoreInv /\ Damage => StoreInv'
<1> SUFFICES ASSUME StoreInv, Damage PROVE StoreInv'
  OBVIOUS
<1>1. DiskSound(world, today, disk') /\ survivors' = {disk'} /\ UNCHANGED <<world, today>>
  BY DamagedDisk DEF Damage
<1>2. DisksOK'
  BY <1>1 DEF DisksOK
<1>3. ControlOK'
  <2>1. deaths' \in 0 .. MaxDeaths /\ certified' = FALSE
        /\ UNCHANGED <<world, today, runs, pc, queue, reply, hand, errors>>
    BY OneMoreDeath DEF StoreInv, Damage, ControlOK
  <2> QED
    BY <2>1 DEF StoreInv, ControlOK, hand
<1>4. QueueOK'
  BY DEF StoreInv, Damage, QueueOK, hand
<1> QED
  BY <1>2, <1>3, <1>4 DEF StoreInv

(* No step makes a survivor unsound. *)
LEMMA StoreNext == StoreInv /\ [Next]_vars => StoreInv'
<1> SUFFICES ASSUME StoreInv, [Next]_vars PROVE StoreInv'
  OBVIOUS
<1>1. CASE UNCHANGED vars
  BY <1>1 DEF StoreInv, ControlOK, DisksOK, QueueOK, vars
<1>2. CASE StartMorning \/ RefreshCalendar \/ RefreshUniverse
  BY <1>2, StartMorningStore, RefreshCalendarStore, RefreshUniverseStore
<1>3. CASE PlanTopUp \/ AskDate \/ RecordDate \/ Interrupt
  BY <1>3, PlanTopUpStore, AskDateStore, RecordDateStore, InterruptStore
<1>4. CASE RefreshCorporateActions \/ RefreshMaster \/ QueueRecordings \/ JudgeRecording
  BY <1>4, RefreshCorporateActionsStore, RefreshMasterStore, QueueRecordingsStore,
     JudgeRecordingStore
<1>5. CASE NotReady \/ CannotStart \/ BuildScreener \/ OpenSession \/ TradeDay
  BY <1>5, NotReadyStore, BuildScreenerStore, OpenSessionStore, TradeDayStore
<1>6. CASE Backfill \/ RebuildLedger \/ DryRunReadiness \/ NextDay
  BY <1>6, BackfillStore, RebuildLedgerStore, DryRunReadinessStore, NextDayStore
<1>7. CASE Die \/ LosePower \/ Damage
  BY <1>7, NotReadyStore, LosePowerStore, DamageStore
<1> QED
  BY <1>1, <1>2, <1>3, <1>4, <1>5, <1>6, <1>7 DEF Next

LEMMA StoreIsSound == Spec => []StoreInv
<1>1. Init => StoreInv
  BY InitStore
<1>2. StoreInv /\ [Next]_vars => StoreInv'
  BY StoreNext
<1> QED
  BY <1>1, <1>2, PTL DEF Spec

(* Every variable keeps its type, and the disk in use is always among those a *)
(* loss of power may leave (live_refresh.py, daily_store.py, atomic_io.py).   *)
THEOREM TypeCorrect == Spec => []TypeOK
<1>1. StoreInv => TypeOK
  <2> SUFFICES ASSUME StoreInv PROVE TypeOK
    OBVIOUS
  <2>1. disk \in Disks /\ disk \in survivors
    BY DEF StoreInv, DisksOK, DiskSound
  <2>2. Days \subseteq RecordingDays /\ {0} \cup Days = 0 .. Horizon
    BY StoreAssumption DEF RecordingDays, Days
  <2>3. queue \subseteq RecordingDays
    BY <2>2 DEF StoreInv, QueueOK
  <2> QED
    BY <2>1, <2>2, <2>3 DEF StoreInv, ControlOK, TypeOK, Disks, Places
<1> QED
  BY <1>1, StoreIsSound, PTL

(* The ledger is a true calendar of what NSE published, on every disk a loss of *)
(* power may bring back: a present date has its rows, a sealed date had nothing *)
(* published, and what the audit reports the next top-up asks                   *)
(* (daily_store.ingest, bhavcopy.seals_as_non_trading_day, daily_store.verify). *)
THEOREM LedgerIsTrue == Spec => []LedgerIsSound
<1>1. StoreInv => LedgerIsSound
  <2> SUFFICES ASSUME StoreInv PROVE LedgerIsSound
    OBVIOUS
  <2>1. LedgerSound(world, disk) /\ disk \in Disks /\ \A k \in survivors : LedgerSound(world, k)
    BY DEF StoreInv, DisksOK, DiskSound
  <2>2. ASSUME NEW d \in Anomalies(world, disk, 1, Horizon) \ {x \in world.thin : ~IsWeekend(x)}
        PROVE  d \in PendingDates(disk, 1, Horizon)
    <3>1. /\ d \in Days \cap (1 .. Horizon)
          /\ \/ disk.ledger[d] = "present" /\ disk.rows[d] # "whole"
             \/ disk.rows[d] = "whole" /\ disk.ledger[d] # "present"
      BY <2>2 DEF Anomalies
    <3>2. disk.ledger[d] \notin Terminal
      BY <2>1, <3>1 DEF LedgerSound, Terminal
    <3> QED
      BY <3>1, <3>2 DEF PendingDates
  <2> QED
    BY <2>1, <2>2 DEF LedgerIsSound, LedgerSound
<1> QED
  BY <1>1, StoreIsSound, PTL

(* Where a range of the ledger is settled, the calendar derived from it is the *)
(* market's own (calendar._derive).                                            *)
LEMMA DerivedIsTheMarket ==
  ASSUME NEW w \in Worlds, NEW day, NEW k, DiskSound(w, day, k), NEW range \in SUBSET Days,
         \A d \in range : k.ledger[d] \in Terminal
  PROVE  DerivedTrading(k, range) = {d \in range : w.kind[d] = "trading"}
<1>1. ASSUME NEW d \in range
      PROVE  (k.ledger[d] = "present" /\ ~IsWeekend(d)) <=> w.kind[d] = "trading"
  <2>1. HasFile(w, d) <=> k.ledger[d] = "present"
    BY DEF DiskSound, LedgerSound, Terminal
  <2> QED
    BY <2>1, KindsOfDay
<1> QED
  BY <1>1 DEF DerivedTrading

(* A full-history run that may start walks the market's own calendar, however  *)
(* the ledger came to be (run_backtest.preflight).                             *)
THEOREM GoWalksTheMarket == Spec => []GoIsTheMarket
<1>1. StoreInv => GoIsTheMarket
  <2> SUFFICES ASSUME StoreInv, NEW machine \in Machines, Go(machine, disk)
               PROVE  DerivedTrading(disk, SpanRange(machine, disk))
                        = {d \in SpanRange(machine, disk) : world.kind[d] = "trading"}
    BY DEF GoIsTheMarket
  <2>1. /\ SpanRange(machine, disk) \in SUBSET Days
        /\ \A d \in SpanRange(machine, disk) : disk.ledger[d] \in Terminal
    BY DEF Go, CalendarIsDerived, DeriveRefuses
  <2>2. DiskSound(world, today, disk) /\ world \in Worlds
    BY DEF StoreInv, DisksOK, ControlOK
  <2> HIDE DEF SpanRange
  <2> QED
    BY <2>1, <2>2, DerivedIsTheMarket
<1> QED
  BY <1>1, StoreIsSound, PTL

-----------------------------------------------------------------------------
(* Outcomes are only learned. *)

(* What a step does to the ledger. *)
LEMMA LedgerSteps ==
  ASSUME StoreInv, [Next]_vars, NEW d \in Days, disk'.ledger[d] # disk.ledger[d],
         disk.ledger[d] \in Terminal
  PROVE  ~disk.legible \/ deaths' # deaths
<1>1. disk \in Disks /\ today \in Days
  BY DEF StoreInv, DisksOK, DiskSound, ControlOK
<1>2. disk' # disk
  OBVIOUS
<1>3. ASSUME NEW new, Write(new) \/ Keep, new.ledger = disk.ledger PROVE FALSE
  BY <1>3 DEF Write, Keep
<1>4. CASE UNCHANGED vars \/ StartMorning \/ RefreshUniverse \/ PlanTopUp \/ Interrupt
           \/ RefreshCorporateActions \/ QueueRecordings \/ NotReady \/ CannotStart
           \/ Backfill \/ DryRunReadiness \/ NextDay
  BY <1>2, <1>4 DEF vars, StartMorning, RefreshUniverse, PlanTopUp, Interrupt,
     RefreshCorporateActions, QueueRecordings, NotReady, CannotStart, Backfill,
     DryRunReadiness, NextDay, Keep
<1>5. CASE RefreshCalendar
  <2>1. PICK on : Keep \/ Write([disk EXCEPT !.holidays = on])
    BY <1>5 DEF RefreshCalendar
  <2>2. [disk EXCEPT !.holidays = on].ledger = disk.ledger
    BY <1>1 DEF Disks
  <2> QED
    BY <1>3, <2>1, <2>2
<1>6. CASE RefreshMaster
  <2>1. PICK held : Keep \/ Write([disk EXCEPT !.masters = held])
    BY <1>6 DEF RefreshMaster
  <2>2. [disk EXCEPT !.masters = held].ledger = disk.ledger
    BY <1>1 DEF Disks
  <2> QED
    BY <1>3, <2>1, <2>2
<1>7. CASE JudgeRecording \/ BuildScreener \/ OpenSession \/ TradeDay
  <2>1. PICK recs : Keep \/ Write([disk EXCEPT !.recs = recs])
    <3>1. \A e \in RecordingDays : \A r : [disk EXCEPT !.recs[e] = r]
                                        = [disk EXCEPT !.recs = [disk.recs EXCEPT ![e] = r]]
      BY <1>1 DEF Disks
    <3> QED
      BY <1>7, <3>1 DEF JudgeRecording, BuildScreener, OpenSession, OpenManifest, TradeDay
  <2>2. [disk EXCEPT !.recs = recs].ledger = disk.ledger
    BY <1>1 DEF Disks
  <2> QED
    BY <1>3, <2>1, <2>2
<1>8. CASE AskDate
  <2>1. pc = "ask"
    BY <1>8 DEF AskDate
  <2>2. PICK e, outcome : (outcome = "present" /\ Write(FirstWrite(disk, e, outcome))) \/ Keep
    BY <1>8 DEF AskDate
  <2>3. WithRows(disk, e).ledger = disk.ledger
    BY <1>1 DEF Disks, WithRows
  <2> QED
    BY <1>3, <2>2, <2>3 DEF FirstWrite
<1>9. CASE RecordDate
  <2>1. /\ reply.day \in queue /\ reply.day \in Days /\ reply.outcome \in Outcomes
        /\ disk.ledger[reply.day] \notin Terminal
    BY <1>9 DEF StoreInv, RecordDate, QueueOK, ControlOK
  <2>2. disk'.ledger = [disk.ledger EXCEPT ![reply.day] = reply.outcome]
    <3>1. DiskSound(world, today, disk)
          /\ (reply.outcome = "present" => HasFile(world, reply.day))
          /\ (reply.outcome = "404" => ~HasFile(world, reply.day))
      BY <1>9 DEF StoreInv, DisksOK, RecordDate, QueueOK
    <3> QED
      BY <1>9, <2>1, <3>1, SoundSecondWrite DEF RecordDate, Write
  <2> QED
    BY <1>1, <2>1, <2>2 DEF Disks
<1>10. CASE RebuildLedger
  BY <1>10 DEF RebuildLedger
<1>11. CASE Die \/ LosePower \/ Damage
  <2>1. deaths' = deaths + 1 /\ deaths \in 0 .. MaxDeaths
    BY <1>11 DEF Die, LosePower, Damage, StoreInv, ControlOK
  <2> QED
    BY <2>1, SMT
<1> QED
  BY <1>4, <1>5, <1>6, <1>7, <1>8, <1>9, <1>10, <1>11 DEF Next

(* What the ledger has settled stays settled: the top-up asks no settled date,  *)
(* and a retry can only settle more (daily_store.pending_dates).               *)
THEOREM SettledStaysSettled == Spec => NeverUnlearned
<1>1. StoreInv /\ [Next]_vars
        => [\A d \in Days : disk.ledger[d] \in Terminal /\ disk'.ledger[d] # disk.ledger[d]
              => ~disk.legible \/ deaths' # deaths]_vars
  BY LedgerSteps
<1> QED
  BY <1>1, StoreIsSound, PTL DEF Spec, NeverUnlearned

-----------------------------------------------------------------------------
(* No recording goes unjudged unnoticed. *)

(* prev_trading_day is a trading day before its day, and the last one. *)
LEMMA PreviousTradingDay ==
  ASSUME NEW trading \in SUBSET Days, NEW d \in {0} \cup Days
  PROVE  /\ PrevTradingDay(trading, d) \in {0} \cup Days
         /\ PrevTradingDay(trading, d) # 0 =>
              PrevTradingDay(trading, d) \in trading /\ PrevTradingDay(trading, d) < d
         /\ \A x \in trading : x < d => x <= PrevTradingDay(trading, d)
<1> DEFINE T == {x \in trading : x < d} \cup {0}
<1>1. T \subseteq 0 .. Horizon /\ T # {} /\ Horizon \in Nat
  <2>1. Horizon \in Nat /\ \A x \in trading : x \in 0 .. Horizon
    BY StoreAssumption DEF Days
  <2> QED
    BY <2>1
<1>2. PrevTradingDay(trading, d) = Max(T)
  BY DEF PrevTradingDay
<1>3. Max(T) \in T /\ \A y \in T : y <= Max(T)
  <2> HIDE DEF T
  <2> QED
    BY <1>1, MaxIsGreatest
<1> QED
  BY <1>2, <1>3

LEMMA CeilingIsEarlier ==
  ASSUME StoreInv
  PROVE  Ceiling \in {0} \cup Days /\ (Ceiling # 0 => Ceiling < today)
<1>1. PublishedTrading(world, calendar) \in SUBSET Days /\ today \in {0} \cup Days
  BY DEF PublishedTrading, StoreInv, ControlOK
<1> QED
  BY <1>1, PreviousTradingDay DEF Ceiling

(* A recording that is not judged shows nothing, or is still unverified. *)
LEMMA JudgedOrPending ==
  ASSUME StoreInv, NEW d \in Days, d < today, disk.recs[d].manifest = "ok",
         disk.recs[d].mode = "live"
  PROVE  \/ d \in PendingRecordings(disk.recs, today)
         \/ /\ disk.recs[d].verdict # NoVerdict
            /\ \A s \in Judgeable(d) : disk.recs[d].verdict[s] # "unread"
<1>1. DOMAIN disk.recs = RecordingDays /\ d \in RecordingDays
  BY DEF StoreInv, DisksOK, DiskSound, Disks, RecordingDays
<1>2. RecordingDay(disk.recs[d], d) # {}
  BY DEF RecordingDay
<1>3. disk.recs[d].verdict # NoVerdict => \A s \in Judgeable(d) : disk.recs[d].verdict[s] # "unread"
  BY <1>1 DEF StoreInv, DisksOK, DiskSound, VerdictsSound, Judgeable
<1> QED
  BY <1>1, <1>2, <1>3 DEF PendingRecordings

LEMMA QueueRecordingsJudge == StoreInv /\ QueueRecordings => JudgeInv'
<1> SUFFICES ASSUME StoreInv, QueueRecordings PROVE JudgeInv'
  OBVIOUS
<1>1. /\ queue' = PendingRecordings(disk.recs, today)
      /\ report'.named = UnreadableRecordings(disk.recs)
      /\ (\E d \in UnreadableRecordings(disk.recs) : MayBePrior(disk.recs[d], d, Ceiling))
           => report'.failed
      /\ pc' \in {"build", "judge"} /\ UNCHANGED <<disk, today, world, calendar>>
  BY DEF QueueRecordings, StoreInv, ControlOK, Keep, run
<1>2. DOMAIN disk.recs = RecordingDays /\ disk.recs[Stray].manifest = "none"
  BY DEF StoreInv, DisksOK, DiskSound, Disks, VerdictsSound, RecordingDays
<1>3. ASSUME NEW d \in RecordingDays PROVE d \in queue' \/ UnjudgedIsNamed(d)'
  <2>1. CASE disk.recs[d].dir /\ disk.recs[d].manifest # "ok"
    BY <1>1, <1>2, <2>1 DEF UnjudgedIsNamed, UnreadableRecordings
  <2>2. CASE disk.recs[d].dir /\ disk.recs[d].manifest = "ok"
    <3>1. d \in Days
      BY <1>2, <2>2 DEF RecordingDays
    <3> QED
      BY <1>1, <2>2, <3>1, JudgedOrPending DEF UnjudgedIsNamed
  <2>3. CASE ~disk.recs[d].dir
    BY <1>1, <2>3 DEF UnjudgedIsNamed
  <2> QED
    BY <2>1, <2>2, <2>3
<1>4. PICK c \in {0} \cup Days : c = Ceiling /\ c = Ceiling'
  BY <1>1, CeilingIsEarlier DEF Ceiling
<1>5. report'.failed \/ c \in queue' \/ PriorIsJudged(c)'
  <2>1. SUFFICES ASSUME c # 0, ~report'.failed, disk.recs[c].dir, disk.recs[c].mode = "live"
                 PROVE  c \in queue' \/ PriorIsJudged(c)'
    BY <1>1 DEF PriorIsJudged
  <2>2. c \in Days /\ c < today /\ c \in RecordingDays
    BY <1>4, <2>1, CeilingIsEarlier DEF RecordingDays
  <2>3. disk.recs[c].manifest = "ok"
    <3>1. disk.recs[c].manifest # "ok" => c \in UnreadableRecordings(disk.recs)
      BY <1>2, <2>1, <2>2 DEF UnreadableRecordings
    <3>2. MayBePrior(disk.recs[c], c, c)
      BY <2>1 DEF MayBePrior, RecordingDayOrName, Stray
    <3> QED
      BY <1>1, <1>4, <2>1, <3>1, <3>2
  <2>4. \/ c \in queue'
        \/ \A s \in Judgeable(c) : disk.recs[c].verdict[s] # "unread"
    BY <1>1, <2>1, <2>2, <2>3, JudgedOrPending
  <2> QED
    BY <1>1, <2>3, <2>4 DEF PriorIsJudged, Judgeable
<1> QED
  BY <1>1, <1>3, <1>4, <1>5 DEF JudgeInv

LEMMA JudgeRecordingJudge == StoreInv /\ JudgeInv /\ JudgeRecording => JudgeInv'
<1> SUFFICES ASSUME StoreInv, JudgeInv, JudgeRecording PROVE JudgeInv'
  OBVIOUS
<1>0. PICK d, verdict : d = Min(queue) /\ verdict = Verdict(world, disk, d)
  OBVIOUS
<1>1. /\ pc = "judge" /\ queue' = queue \ {d} /\ pc' \in {"build", "judge"}
      /\ UNCHANGED <<world, today, calendar>>
      /\ \/ disk' = [disk EXCEPT !.recs[d].verdict = verdict] /\ report' = report
         \/ /\ disk' = disk
            /\ report' = [report EXCEPT !.named = @ \cup {d}, !.failed = @ \/ d = Ceiling]
  BY <1>0 DEF JudgeRecording, Write, Keep, run
<1>2. d \in queue /\ d \in Days /\ d < today /\ d \in RecordingDays
  BY <1>0, <1>1, NextOfQueue DEF StoreInv, QueueOK, RecordingDays
<1>3. /\ verdict \in [Symbols -> {"unread", "absent", "blind", "silent", "judged"}]
      /\ \A s \in Symbols : verdict[s] # "unread"
  <2>1. DiskSound(world, today, disk) /\ today \in Days
    BY DEF StoreInv, DisksOK, ControlOK
  <2> QED
    BY <1>0, <1>2, <2>1, SoundVerdict
<1>4. disk \in Disks /\ disk.recs[d] \in Recs /\ disk.recs \in [RecordingDays -> Recs]
  BY <1>2 DEF StoreInv, DisksOK, DiskSound, Disks
<1>5. /\ report \in [failed : BOOLEAN, named : SUBSET RecordingDays]
      /\ report.named \subseteq report'.named /\ (report.failed => report'.failed)
      /\ \/ disk' = [disk EXCEPT !.recs[d].verdict = verdict]
         \/ d \in report'.named /\ (d = Ceiling => report'.failed)
  <2>1. report \in [failed : BOOLEAN, named : SUBSET RecordingDays]
    BY DEF StoreInv, ControlOK
  <2>2. CASE report' = report /\ disk' = [disk EXCEPT !.recs[d].verdict = verdict]
    BY <2>1, <2>2
  <2>3. CASE report' = [report EXCEPT !.named = @ \cup {d}, !.failed = @ \/ d = Ceiling]
    <3>1. /\ report'.named = report.named \cup {d}
          /\ report'.failed = (report.failed \/ d = Ceiling)
      BY <2>1, <2>3
    <3> QED
      BY <2>1, <3>1
  <2> QED
    BY <1>1, <2>2, <2>3
<1>6. \A e \in RecordingDays \ {d} : disk'.recs[e] = disk.recs[e]
  BY <1>1, <1>4 DEF Disks
<1>7. ASSUME NEW e \in RecordingDays PROVE e \in queue' \/ UnjudgedIsNamed(e)'
  <2>1. e \in queue \/ UnjudgedIsNamed(e)
    BY <1>1 DEF JudgeInv
  <2>2. CASE e # d
    BY <1>1, <1>5, <1>6, <2>1, <2>2 DEF UnjudgedIsNamed, Judgeable
  <2>3. CASE e = d /\ disk' = [disk EXCEPT !.recs[d].verdict = verdict]
    <3>1. /\ disk'.recs[d].verdict = verdict /\ disk'.recs[d].contents = disk.recs[d].contents
          /\ disk'.recs[d].manifest = disk.recs[d].manifest
      BY <1>2, <1>4, <2>3 DEF Disks, Recs
    <3>2. disk.recs[d].manifest = "ok"
      BY <1>1, <1>2 DEF StoreInv, QueueOK
    <3>3. verdict # NoVerdict
      BY <1>3, StoreAssumption DEF NoVerdict
    <3> QED
      BY <2>3, <3>1, <3>2, <3>3 DEF UnjudgedIsNamed, Judgeable
  <2>4. CASE e = d /\ d \in report'.named
    BY <2>4 DEF UnjudgedIsNamed
  <2>5. disk' # [disk EXCEPT !.recs[d].verdict = verdict] => d \in report'.named
    BY <1>5
  <2> QED
    BY <2>2, <2>3, <2>4, <2>5
<1>8. PICK c \in {0} \cup Days : c = Ceiling /\ c = Ceiling'
  BY <1>1, CeilingIsEarlier DEF Ceiling
<1>9. report'.failed \/ c \in queue' \/ PriorIsJudged(c)'
  <2>1. SUFFICES ASSUME ~report'.failed, c # 0 PROVE c \in queue' \/ PriorIsJudged(c)'
    BY DEF PriorIsJudged
  <2>2. c \in RecordingDays
    BY DEF RecordingDays, Stray
  <2>3. c \in queue \/ PriorIsJudged(c)
    BY <1>1, <1>5, <1>8, <2>1 DEF JudgeInv
  <2>4. CASE c # d
    BY <1>1, <1>6, <2>2, <2>3, <2>4 DEF PriorIsJudged, Judgeable
  <2>5. CASE c = d
    <3>1. disk' = [disk EXCEPT !.recs[d].verdict = verdict]
      BY <1>5, <1>8, <2>1, <2>5
    <3>2. /\ disk'.recs[d].verdict = verdict /\ disk'.recs[d].contents = disk.recs[d].contents
          /\ disk'.recs[d].manifest = disk.recs[d].manifest
      BY <1>2, <1>4, <3>1 DEF Disks, Recs
    <3>3. disk.recs[d].manifest = "ok"
      BY <1>1, <1>2 DEF StoreInv, QueueOK
    <3>4. \A s \in Judgeable(d)' : verdict[s] # "unread"
      BY <1>3, <3>2 DEF Judgeable
    <3> QED
      BY <2>5, <3>2, <3>3, <3>4 DEF PriorIsJudged
  <2> QED
    BY <2>4, <2>5
<1> QED
  BY <1>1, <1>7, <1>8, <1>9 DEF JudgeInv

(* A write to the day's own recording moves no earlier one. *)
LEMMA TodayMovesNoEarlier ==
  ASSUME StoreInv, JudgeInv, pc \in {"build", "manifest"}, ~report.failed,
         UNCHANGED <<world, today, calendar, queue, report>>, DOMAIN disk'.recs = RecordingDays,
         \A d \in RecordingDays : d # today => disk'.recs[d] = disk.recs[d]
  PROVE  JudgeInv'
<1>1. today \in Days /\ queue = {}
  BY DEF StoreInv, ControlOK, QueueOK
<1>2. ASSUME NEW d \in RecordingDays PROVE UnjudgedIsNamed(d)'
  <2>1. UnjudgedIsNamed(d)
    BY <1>1 DEF JudgeInv
  <2>2. CASE d = today
    BY <1>1, <2>2, DaysAreNumbers DEF UnjudgedIsNamed
  <2>3. CASE d # today
    BY <2>1, <2>3 DEF UnjudgedIsNamed, Judgeable
  <2> QED
    BY <2>2, <2>3
<1>3. PICK c \in {0} \cup Days : c = Ceiling /\ c = Ceiling'
  BY CeilingIsEarlier DEF Ceiling
<1>4. PriorIsJudged(c)'
  <2>1. c # 0 => c < today /\ c # today /\ c \in RecordingDays
    BY <1>1, <1>3, CeilingIsEarlier, DaysAreNumbers DEF RecordingDays
  <2>2. PriorIsJudged(c)
    BY <1>1, <1>3 DEF JudgeInv
  <2> QED
    BY <2>1, <2>2 DEF PriorIsJudged, Judgeable
<1> QED
  BY <1>2, <1>3, <1>4 DEF JudgeInv

LEMMA SessionJudge == StoreInv /\ JudgeInv /\ (BuildScreener \/ OpenSession) => JudgeInv'
<1> SUFFICES ASSUME StoreInv, JudgeInv, BuildScreener \/ OpenSession PROVE JudgeInv'
  OBVIOUS
<1>1. disk \in Disks /\ today \in RecordingDays
  BY TodaysRecording DEF StoreInv, ControlOK, RecordingDays
<1>2. CASE BuildScreener
  <2>1. disk' = disk \/ disk' = [disk EXCEPT !.recs[today].dir = TRUE]
    BY <1>2 DEF BuildScreener, Keep, Write
  <2>2. /\ DOMAIN disk'.recs = RecordingDays
        /\ \A d \in RecordingDays : d # today => disk'.recs[d] = disk.recs[d]
    BY <1>1, <2>1 DEF Disks
  <2>3. pc = "build" /\ ~report.failed /\ UNCHANGED <<world, today, calendar, queue, report>>
    BY <1>2 DEF BuildScreener, run
  <2> QED
    BY <2>2, <2>3, TodayMovesNoEarlier
<1>3. CASE OpenSession /\ pc' = "market"
  <2>1. disk' = disk \/ disk' = [disk EXCEPT !.recs[today] = WithManifest(@, today)]
    BY <1>3 DEF OpenSession, OpenManifest, Write, Keep
  <2>2. /\ DOMAIN disk'.recs = RecordingDays
        /\ \A d \in RecordingDays : d # today => disk'.recs[d] = disk.recs[d]
    BY <1>1, <2>1 DEF Disks
  <2>3. pc = "manifest" /\ UNCHANGED <<world, today, calendar, queue, report>>
    BY <1>3 DEF OpenSession, End, run, hand
  <2> QED
    BY <2>2, <2>3, TodayMovesNoEarlier DEF JudgeInv
<1>4. CASE OpenSession /\ pc' # "market"
  BY <1>4 DEF OpenSession, End, JudgeInv
<1> QED
  BY <1>2, <1>3, <1>4

LEMMA JudgeNext == StoreInv /\ JudgeInv /\ [Next]_vars => JudgeInv'
<1> SUFFICES ASSUME StoreInv, JudgeInv, [Next]_vars PROVE JudgeInv'
  OBVIOUS
<1>1. CASE UNCHANGED vars
  BY <1>1 DEF JudgeInv, UnjudgedIsNamed, Judgeable, PriorIsJudged, Ceiling, vars
<1>2. CASE QueueRecordings \/ JudgeRecording \/ BuildScreener \/ OpenSession
  BY <1>2, QueueRecordingsJudge, JudgeRecordingJudge, SessionJudge
<1>3. CASE \/ StartMorning \/ RefreshCalendar \/ RefreshUniverse \/ PlanTopUp \/ AskDate
           \/ RecordDate \/ Interrupt \/ RefreshCorporateActions \/ RefreshMaster
  <2>1. pc' \in {"calendar", "universe", "plan", "ask", "record", "actions", "master", "queue", "idle"}
    BY <1>3 DEF StartMorning, RefreshCalendar, RefreshUniverse, PlanTopUp, AskDate, RecordDate,
       Interrupt, RefreshCorporateActions, RefreshMaster, End
  <2> QED
    BY <2>1 DEF JudgeInv
<1>4. CASE \/ NotReady \/ CannotStart \/ TradeDay \/ Backfill \/ RebuildLedger
           \/ DryRunReadiness \/ NextDay \/ Die \/ LosePower \/ Damage
  <2>1. pc' \in {"idle", "ask"}
    BY <1>4 DEF NotReady, CannotStart, TradeDay, Backfill, RebuildLedger, DryRunReadiness,
       NextDay, Die, LosePower, Damage, End
  <2> QED
    BY <2>1 DEF JudgeInv
<1> QED
  BY <1>1, <1>2, <1>3, <1>4 DEF Next

(* Verdicts rest on published rows, and the bell is rung only over a previous   *)
(* trading day that is judged and with every earlier morning judged or named   *)
(* (live_refresh.verify_prior_recordings, unverified_recordings).              *)
THEOREM NoneGoesUnnoticed == Spec => []RecordingsAreJudged
<1>1. Init => JudgeInv
  BY DEF Init, JudgeInv
<1>2. StoreInv /\ JudgeInv => RecordingsAreJudged
  <2> SUFFICES ASSUME StoreInv, JudgeInv PROVE RecordingsAreJudged
    OBVIOUS
  <2>1. \A d \in Days : VerdictHasRow(d)
    BY DEF StoreInv, DisksOK, DiskSound, VerdictsSound, VerdictHasRow, RecordingDays
  <2>2. CASE pc = "market"
    <3>1. queue = {}
      BY <2>2 DEF StoreInv, QueueOK
    <3> QED
      BY <2>1, <2>2, <3>1 DEF JudgeInv, RecordingsAreJudged, Ceiling
  <2> QED
    BY <2>1, <2>2 DEF RecordingsAreJudged
<1> QED
  BY <1>1, <1>2, StoreIsSound, JudgeNext, PTL DEF Spec

-----------------------------------------------------------------------------
(* READY keeps its word. *)

LEMMA ReadyNext == StoreInv /\ ReadyInv /\ [Next]_vars => ReadyInv'
<1> SUFFICES ASSUME StoreInv, ReadyInv, [Next]_vars, certified' PROVE
      today' \in disk'.masters /\ disk'.holidays \notin {NoCache, Unreadable}
  BY DEF ReadyInv
<1> DEFINE Kept == /\ certified /\ today' = today
                   /\ disk'.masters = disk.masters /\ disk'.holidays = disk.holidays
<1>1. disk \in Disks /\ today \in Days
  BY DEF StoreInv, DisksOK, DiskSound, ControlOK
<1>2. CASE Kept
  BY <1>2 DEF ReadyInv
<1>3. CASE \/ UNCHANGED vars \/ StartMorning \/ RefreshUniverse \/ PlanTopUp \/ Interrupt
           \/ RefreshCorporateActions \/ QueueRecordings \/ NotReady \/ CannotStart
           \/ Backfill \/ Die
  <2>1. certified' = certified /\ today' = today /\ disk' = disk
    BY <1>3 DEF vars, StartMorning, RefreshUniverse, PlanTopUp, Interrupt,
       RefreshCorporateActions, QueueRecordings, NotReady, CannotStart, Backfill, Die, Keep, run
  <2> QED
    BY <1>2, <2>1
<1>4. CASE RefreshCalendar
  <2>1. PICK got \in CachedJson(disk.holidays, today, network) :
          IF got.on = disk.holidays THEN Keep ELSE Write([disk EXCEPT !.holidays = got.on])
    BY <1>4 DEF RefreshCalendar
  <2>2. certified /\ today' = today
    BY <1>4 DEF RefreshCalendar, run
  <2>3. disk.holidays \notin {NoCache, Unreadable} => got.on \notin {NoCache, Unreadable}
    <3>1. disk.holidays \in {NoCache, Unreadable} \cup Days /\ network \in BOOLEAN
      BY <1>1 DEF Disks, StoreInv, ControlOK
    <3> QED
      BY <1>1, <3>1, CacheServesDays
  <2>4. disk'.masters = disk.masters /\ disk'.holidays = got.on
    BY <1>1, <2>1 DEF Keep, Write, Disks
  <2> QED
    BY <2>2, <2>3, <2>4 DEF ReadyInv
<1>5. CASE RefreshMaster
  <2>1. PICK got \in DayMaster(disk.masters, today, network) :
          IF got.held = disk.masters THEN Keep ELSE Write([disk EXCEPT !.masters = got.held])
    BY <1>5 DEF RefreshMaster
  <2>2. certified /\ today' = today
    BY <1>5 DEF RefreshMaster, run
  <2>3. disk.masters \subseteq got.held
    <3>1. disk.masters \in SUBSET Days /\ network \in BOOLEAN
      BY <1>1 DEF Disks, StoreInv, ControlOK
    <3> QED
      BY <1>1, <3>1, MastersAreDays
  <2>4. disk'.masters = got.held /\ disk'.holidays = disk.holidays
    BY <1>1, <2>1 DEF Keep, Write, Disks
  <2> QED
    BY <2>2, <2>3, <2>4 DEF ReadyInv
<1>6. CASE AskDate \/ RecordDate \/ RebuildLedger
  <2>1. certified /\ today' = today
    BY <1>6 DEF AskDate, RecordDate, RebuildLedger, run
  <2>2. \A d, outcome : /\ FirstWrite(disk, d, outcome).masters = disk.masters
                        /\ FirstWrite(disk, d, outcome).holidays = disk.holidays
                        /\ SecondWrite(disk, d, outcome).masters = disk.masters
                        /\ SecondWrite(disk, d, outcome).holidays = disk.holidays
                        /\ RebuiltLedger(disk).masters = disk.masters
                        /\ RebuiltLedger(disk).holidays = disk.holidays
    BY <1>1 DEF Disks, FirstWrite, SecondWrite, WithRows, WithOutcome, RebuiltLedger
  <2>3. disk'.masters = disk.masters /\ disk'.holidays = disk.holidays
    BY <1>6, <2>2 DEF AskDate, RecordDate, RebuildLedger, Keep, Write
  <2> QED
    BY <1>2, <2>1, <2>3
<1>7. CASE JudgeRecording \/ BuildScreener \/ OpenSession \/ TradeDay
  <2>1. certified /\ today' = today
    BY <1>7 DEF JudgeRecording, BuildScreener, OpenSession, TradeDay, run
  <2>2. disk'.masters = disk.masters /\ disk'.holidays = disk.holidays
    BY <1>1, <1>7 DEF JudgeRecording, BuildScreener, OpenSession, OpenManifest, TradeDay, Keep, Write,
       Disks
  <2> QED
    BY <1>2, <2>1, <2>2
<1>8. CASE DryRunReadiness
  <2>1. PICK machine \in Machines, send \in BOOLEAN : Ready(Assess(machine, disk, today, send))
    BY <1>8 DEF DryRunReadiness
  <2>2. MasterCheck(disk, today) /\ CalendarCheck(disk, today)
    BY <2>1 DEF Ready, Assess
  <2>3. PICK got \in CachedJson(disk.holidays, today, FALSE) : got.served
    BY <2>2 DEF CalendarCheck
  <2>4. disk.holidays \notin {NoCache, Unreadable}
    <3>1. CASE disk.holidays \in {NoCache, Unreadable}
      <4>1. got = [served |-> FALSE, on |-> disk.holidays]
        BY <3>1 DEF CachedJson
      <4> QED
        BY <2>3, <4>1
    <3> QED
      BY <3>1
  <2> QED
    BY <1>8, <2>2, <2>4 DEF DryRunReadiness, Keep, MasterCheck
<1>9. CASE NextDay \/ LosePower \/ Damage
  BY <1>9 DEF NextDay, LosePower, Damage
<1> QED
  BY <1>3, <1>4, <1>5, <1>6, <1>7, <1>8, <1>9 DEF Next

(* As long as nothing happens to the files, the calendar and master steps of    *)
(* the certified day's offline command do not fail, and its session is not     *)
(* refused for want of the day's master (dry_run_readiness.assess).            *)
THEOREM ReadyKeepsItsWord == Spec => ReadyIsServed
<1>1. Init => ReadyInv
  BY DEF Init, ReadyInv
<1> DEFINE Served ==
      certified /\ ~network =>
        /\ pc = "calendar" /\ pc' = "universe" => calendar' # 0
        /\ pc = "master" /\ pc' = "queue" => report'.failed = report.failed
        /\ pc = "build" => DayMasterHeld
<1>2. StoreInv /\ ReadyInv /\ [Next]_vars => [Served]_vars
  <2> SUFFICES ASSUME StoreInv, ReadyInv, Next, certified, ~network PROVE
        /\ pc = "calendar" /\ pc' = "universe" => calendar' # 0
        /\ pc = "master" /\ pc' = "queue" => report'.failed = report.failed
        /\ pc = "build" => DayMasterHeld
    OBVIOUS
  <2>1. /\ disk.holidays \in Days /\ disk.holidays \notin {NoCache, Unreadable}
        /\ disk.masters \in SUBSET Days /\ today \in disk.masters /\ today \in Days
        /\ report \in [failed : BOOLEAN, named : SUBSET RecordingDays]
        /\ network \in BOOLEAN
    BY DEF StoreInv, ReadyInv, DisksOK, DiskSound, Disks, ControlOK
  <2>2. CASE pc = "calendar" /\ pc' = "universe"
    <3>1. RefreshCalendar
      BY <2>2 DEF Next, StartMorning, RefreshUniverse, PlanTopUp, AskDate, RecordDate, Interrupt,
         RefreshCorporateActions, RefreshMaster, QueueRecordings, JudgeRecording, NotReady,
         CannotStart, BuildScreener, OpenSession, TradeDay, Backfill, RebuildLedger,
         DryRunReadiness, NextDay, Die, LosePower, Damage, End
    <3>2. PICK got \in CachedJson(disk.holidays, today, network) :
            calendar' = IF got.served THEN got.on ELSE 0
      BY <3>1 DEF RefreshCalendar
    <3>3. got.served /\ got.on \in Days
      BY <2>1, CacheServesDays
    <3> QED
      BY <2>2, <3>2, <3>3, DaysAreNumbers
  <2>3. CASE pc = "master" /\ pc' = "queue"
    <3>1. RefreshMaster /\ pc' # "idle"
      BY <2>3 DEF Next, StartMorning, RefreshCalendar, RefreshUniverse, PlanTopUp, AskDate,
         RecordDate, Interrupt, RefreshCorporateActions, QueueRecordings, JudgeRecording, NotReady,
         CannotStart, BuildScreener, OpenSession, TradeDay, Backfill, RebuildLedger,
         DryRunReadiness, NextDay, Die, LosePower, Damage, End
    <3>2. PICK got \in DayMaster(disk.masters, today, network) : report' = Fail(~got.served)
      BY <3>1 DEF RefreshMaster, End
    <3>3. got.served
      BY <2>1, MastersAreDays
    <3> QED
      BY <2>1, <2>3, <3>2, <3>3 DEF Fail
  <2>4. DayMasterHeld
    BY <2>1 DEF DayMasterHeld
  <2> QED
    BY <2>2, <2>3, <2>4
<1>3. Spec => [][Served]_vars
  <2> HIDE DEF Served
  <2> QED
    BY <1>1, <1>2, StoreIsSound, ReadyNext, PTL DEF Spec
<1> QED
  BY <1>3 DEF ReadyIsServed

-----------------------------------------------------------------------------
(* The live pair is the market's last two sessions. *)

(* How far the ledger is settled without a hole. *)
LEMMA SettledWithoutAHole ==
  ASSUME NEW k, NEW day \in Days
  PROVE  /\ SettledThrough(k, day) \in 0 .. day - 1
         /\ \A x \in 1 .. SettledThrough(k, day) : k.ledger[x] \in Terminal
<1> DEFINE T == {d \in 0 .. day - 1 : \A x \in 1 .. d : k.ledger[x] \in Terminal}
<1>1. SettledThrough(k, day) = Max(T)
  BY DEF SettledThrough
<1>2. T \subseteq 0 .. Horizon /\ 0 \in T /\ Horizon \in Nat
  BY StoreAssumption DEF Days
<1>3. Max(T) \in T
  <2> HIDE DEF T
  <2> QED
    BY <1>2, MaxIsGreatest
<1> QED
  BY <1>1, <1>3

(* The live calendar misses no session, and of what it holds before its day    *)
(* only what NSE published a file for counts (calendar.live_trading_calendar). *)
LEMMA LiveCalendarHasSessions ==
  ASSUME NEW w \in Worlds, NEW day \in Days, NEW k, DiskSound(w, day, k), NEW fetchedOn,
         NEW d \in Days, d < day
  PROVE  /\ w.kind[d] = "trading" => d \in LiveTrading(w, k, fetchedOn, day)
         /\ d \in LiveTrading(w, k, fetchedOn, day) /\ HasFile(w, d) => w.kind[d] = "trading"
<1> DEFINE settled == SettledThrough(k, day)
           range == 1 .. settled
           published == PublishedTrading(w, fetchedOn)
<1>1. settled \in 0 .. day - 1 /\ \A x \in range : k.ledger[x] \in Terminal
  BY SettledWithoutAHole
<1>2. range \in SUBSET Days
  BY <1>1, StoreAssumption DEF Days
<1>3. LiveTrading(w, k, fetchedOn, day)
        = DerivedTrading(k, range) \cup {x \in published : x > settled /\ x <= day}
  BY DEF LiveTrading
<1> HIDE DEF settled
<1>4. DerivedTrading(k, range) = {x \in range : w.kind[x] = "trading"}
  BY <1>1, <1>2, DerivedIsTheMarket
<1>5. \A x \in published : x \in Days /\ ~IsWeekend(x)
  BY DEF PublishedTrading
<1>6. w.kind[d] = "trading" => d \in published
  BY KindsOfDay DEF PublishedTrading, PublishedHolidays
<1>7. w.kind[d] = "trading" => d \in LiveTrading(w, k, fetchedOn, day)
  <2>1. d \in 1 .. settled \/ d > settled
    BY <1>1, StoreAssumption DEF Days
  <2>2. d <= day
    BY StoreAssumption DEF Days
  <2> HIDE DEF published
  <2> QED
    BY <1>3, <1>4, <1>6, <2>1, <2>2
<1>8. d \in LiveTrading(w, k, fetchedOn, day) /\ HasFile(w, d) => w.kind[d] = "trading"
  <2> HIDE DEF published
  <2> QED
    BY <1>3, <1>4, <1>5, KindsOfDay
<1> QED
  BY <1>7, <1>8

(* A previous trading day with a published file is the last session before. *)
LEMMA PreviousIsLastSession ==
  ASSUME NEW w \in Worlds, NEW trading \in SUBSET Days, NEW d \in Days,
         \A x \in Days : x < d /\ w.kind[x] = "trading" => x \in trading,
         \A x \in trading : x < d /\ HasFile(w, x) => w.kind[x] = "trading",
         PrevTradingDay(trading, d) # 0, HasFile(w, PrevTradingDay(trading, d))
  PROVE  /\ PrevTradingDay(trading, d) = Max({x \in Days : w.kind[x] = "trading" /\ x < d})
         /\ PrevTradingDay(trading, d) \in Days /\ PrevTradingDay(trading, d) < d
<1> DEFINE prev == PrevTradingDay(trading, d)
           S == {x \in Days : w.kind[x] = "trading" /\ x < d}
<1>1. prev \in trading /\ prev < d /\ \A x \in trading : x < d => x <= prev
  BY PreviousTradingDay
<1>2. prev \in S /\ \A x \in S : x <= prev
  <2> HIDE DEF prev
  <2> QED
    BY <1>1 DEF prev
<1>3. S \subseteq 0 .. Horizon /\ Horizon \in Nat
  BY StoreAssumption DEF Days
<1> HIDE DEF prev, S
<1>4. prev \in S /\ \A x \in S : x <= prev
  BY <1>2
<1>5. prev = Max(S)
  BY <1>3, <1>4, GreatestIsMax
<1> QED
  BY <1>1, <1>5 DEF prev, S

LEMMA BuildScreenerPair == StoreInv /\ BuildScreener => PairIsReal'
<1> SUFFICES ASSUME StoreInv, BuildScreener, session'.biased # {} PROVE
      LET sessions == {d \in Days : world.kind[d] = "trading" /\ d < today}
      IN  /\ session'.pair[1] = Max(sessions)
          /\ session'.pair[2] = Max(sessions \ {session'.pair[1]})
  BY DEF PairIsReal, BuildScreener, run
<1> DEFINE trading == LiveTrading(world, disk, calendar, today)
           pair == BiasPair(trading, today)
           first == PrevTradingDay(trading, today)
           second == PrevTradingDay(trading, first)
           sessions == {d \in Days : world.kind[d] = "trading" /\ d < today}
<1>1. /\ world \in Worlds /\ today \in Days /\ DiskSound(world, today, disk)
  BY DEF StoreInv, ControlOK, DisksOK
<1>2. session'.pair = <<first, second>> /\ session'.biased \subseteq Biased(<<first, second>>)
  BY DEF BuildScreener, BiasPair
<1>3. trading \in SUBSET Days
  <2>1. SettledThrough(disk, today) \in 0 .. today - 1
    BY <1>1, SettledWithoutAHole
  <2>2. 1 .. SettledThrough(disk, today) \subseteq Days
    BY <1>1, <2>1, StoreAssumption DEF Days
  <2> QED
    BY <2>2 DEF LiveTrading, DerivedTrading, PublishedTrading
<1>4. \A d \in Days : d < today =>
        /\ world.kind[d] = "trading" => d \in trading
        /\ d \in trading /\ HasFile(world, d) => world.kind[d] = "trading"
  BY <1>1, LiveCalendarHasSessions
<1> HIDE DEF trading
<1>5. first \in {0} \cup Days /\ second \in {0} \cup Days
  BY <1>1, <1>3, PreviousTradingDay
<1>6. first # 0 /\ second # 0 /\ HasFile(world, first) /\ HasFile(world, second)
  <2>1. PICK s \in Biased(<<first, second>>) : TRUE
    BY <1>2
  <2>2. /\ first # 0 /\ HasRow(world, disk, s, first)
        /\ second # 0 /\ HasRow(world, disk, s, second)
    <3>1. \A i \in 1 .. 2 : /\ <<first, second>>[i] # 0
                            /\ HasRow(world, disk, s, <<first, second>>[i])
      BY <2>1 DEF Biased
    <3>2. 1 \in 1 .. 2 /\ 2 \in 1 .. 2 /\ <<first, second>>[1] = first /\ <<first, second>>[2] = second
      OBVIOUS
    <3> HIDE DEF first, second
    <3> QED
      BY <3>1, <3>2
  <2> HIDE DEF first, second
  <2> QED
    BY <1>1, <1>5, <2>2 DEF HasRow, DiskSound, LedgerSound
<1>7. first = Max(sessions) /\ first \in Days /\ first < today
  BY <1>1, <1>3, <1>4, <1>6, PreviousIsLastSession
<1> HIDE DEF first
<1>8. second = Max({x \in Days : world.kind[x] = "trading" /\ x < first})
  <2>1. \A x \in Days : x < first => x < today
    BY <1>1, <1>7, StoreAssumption DEF Days
  <2> QED
    BY <1>1, <1>3, <1>4, <1>6, <1>7, <2>1, PreviousIsLastSession
<1> HIDE DEF second
<1>9. {x \in Days : world.kind[x] = "trading" /\ x < first} = sessions \ {first}
  <2>1. sessions \subseteq 0 .. Horizon /\ Horizon \in Nat /\ sessions \subseteq Int
    BY StoreAssumption DEF Days
  <2>2. first \in sessions
    BY <1>1, <1>4, <1>6, <1>7, <1>3, PreviousTradingDay DEF first
  <2>3. \A x \in sessions : x <= first
    BY <1>7, <2>1, <2>2, MaxIsGreatest
  <2>4. \A x \in sessions \ {first} : x < first
    <3> HIDE DEF sessions
    <3> QED
      BY <2>1, <2>2, <2>3
  <2>5. \A x \in Days : x < first => x < today /\ x # first
    BY <1>1, <1>7, StoreAssumption DEF Days
  <2> QED
    BY <2>4, <2>5
<1> QED
  BY <1>2, <1>7, <1>8, <1>9

LEMMA PairNext == StoreInv /\ PairIsReal /\ [Next]_vars => PairIsReal'
<1> SUFFICES ASSUME StoreInv, PairIsReal, [Next]_vars PROVE PairIsReal'
  OBVIOUS
<1>1. CASE session' = session /\ world' = world
  BY <1>1 DEF PairIsReal
<1>2. CASE session' = NoSession
  BY <1>2 DEF PairIsReal, NoSession
<1>3. CASE BuildScreener
  BY <1>3, BuildScreenerPair
<1>4. CASE \/ UNCHANGED vars \/ StartMorning \/ RefreshCalendar \/ RefreshUniverse \/ PlanTopUp
           \/ AskDate \/ RecordDate \/ Interrupt \/ RefreshCorporateActions \/ RefreshMaster
           \/ QueueRecordings \/ JudgeRecording
  BY <1>1, <1>2, <1>4 DEF vars, StartMorning, RefreshCalendar, RefreshUniverse, PlanTopUp,
     AskDate, RecordDate, Interrupt, RefreshCorporateActions, RefreshMaster, QueueRecordings,
     JudgeRecording, End, run, hand
<1>5. CASE \/ NotReady \/ CannotStart \/ OpenSession \/ TradeDay \/ Backfill \/ RebuildLedger
           \/ DryRunReadiness \/ NextDay \/ Die \/ LosePower \/ Damage
  BY <1>1, <1>2, <1>5 DEF NotReady, CannotStart, OpenSession, TradeDay, Backfill, RebuildLedger,
     DryRunReadiness, NextDay, Die, LosePower, Damage, End, run, hand
<1> QED
  BY <1>3, <1>4, <1>5 DEF Next

(* A symbol is traded live on a bias of the market's last two weekday sessions, *)
(* however stale the calendar in hand and however the store came by its history *)
(* (calendar.live_trading_calendar, bias_pair).                                 *)
THEOREM PairIsTheMarkets == Spec => []PairIsReal
<1>1. Init => PairIsReal
  BY DEF Init, PairIsReal, NoSession
<1> QED
  BY <1>1, StoreIsSound, PairNext, PTL DEF Spec

=============================================================================
