---------------------------- MODULE BacktestProofs ----------------------------
(***************************************************************************)
(* Proofs about Backtest for every universe, every content of the stores,  *)
(* any number of launches and deaths and any states of the code.           *)
(*                                                                         *)
(* A symbol that the progress file names has a shard, and the shard is the *)
(* whole walk of that symbol by the code the progress file names: the      *)
(* shard is written before the symbol is noted, a launch under another     *)
(* state of the code stops before it walks, and what a walk writes depends *)
(* on nothing a death can lose.  The ledger is written when every symbol   *)
(* is noted.                                                               *)
(***************************************************************************)
EXTENDS Evidence, SignalLemmas

RunSymbols == ToSet(SymbolOrder)

WholeWalk(x) == WalkSymbol(world, x, NonStandardSessions(world))

WholeLedger == FlattenSeq([i \in DOMAIN SymbolOrder |-> WholeWalk(SymbolOrder[i])])

Walking == proc.pc \in {"walk", "record", "manifest"}

(* The shard of a symbol is its whole walk by this code. *)
IsWalkedBy(x, code) == disk.shards[x] = [code |-> code, rows |-> WholeWalk(x)]

InputsOK == world \in Worlds /\ head \in Versions

ProcOK ==
    /\ proc \in [pc : {"off", "scan", "save-scan", "resume", "walk", "record", "manifest", "raised"},
                 code : Versions \cup {NoRow}, sessions : {proc.sessions},
                 done : Seq(RunSymbols), next : 1 .. Len(SymbolOrder) + 1]
    /\ proc.pc \notin {"off", "raised"} => proc.code \in Versions
    /\ proc.pc \in {"scan", "save-scan", "resume"} => proc.done = <<>> /\ proc.next = 1
    /\ At("record") => proc.next <= Len(SymbolOrder)

DiskOK ==
    /\ disk = [scan |-> disk.scan, progress |-> disk.progress, shards |-> disk.shards,
               ledger |-> disk.ledger, manifest |-> disk.manifest]
    /\ DOMAIN disk.shards = RunSymbols /\ disk.shards = [x \in RunSymbols |-> disk.shards[x]]

(* The days that leave the calendar are those of the stores, whoever       *)
(* scanned them.                                                           *)
ScanOK ==
    /\ disk.scan # NoRow => disk.scan.days = NonStandardSessions(world)
    /\ Walking \/ proc.pc \in {"save-scan", "resume"} => proc.sessions = NonStandardSessions(world)

ProgressOK ==
    disk.progress # NoRow =>
        /\ disk.progress \in [code : Versions, done : Seq(RunSymbols)]
        /\ \A x \in ToSet(disk.progress.done) : IsWalkedBy(x, disk.progress.code)

(* The process and the progress file agree while symbols are walked.       *)
WalkOK ==
    Walking =>
        /\ \/ disk.progress = NoRow /\ proc.done = <<>>
           \/ disk.progress = [code |-> proc.code, done |-> proc.done]
        /\ \A i \in 1 .. proc.next - 1 : SymbolOrder[i] \in ToSet(proc.done)
        /\ At("record") => IsWalkedBy(Symbol, proc.code)

(* Every symbol is noted, the ledger is the whole one. *)
Complete ==
    /\ disk.progress # NoRow
    /\ RunSymbols \subseteq ToSet(disk.progress.done)
    /\ disk.ledger = WholeLedger

BooksOK ==
    /\ disk.ledger # NoRow \/ At("manifest") => Complete
    /\ disk.manifest # NoRow =>
         /\ Complete
         /\ disk.manifest = [code |-> disk.progress.code, totals |-> Manifest(WholeLedger)]

RunInv == InputsOK /\ ProcOK /\ DiskOK /\ ScanOK /\ ProgressOK /\ WalkOK /\ BooksOK
-----------------------------------------------------------------------------
LEMMA SymbolsAreSymbols ==
  /\ Len(SymbolOrder) \in Nat \ {0}
  /\ DOMAIN SymbolOrder = 1 .. Len(SymbolOrder)
  /\ \A i \in 1 .. Len(SymbolOrder) : SymbolOrder[i] \in RunSymbols
  /\ \A x \in RunSymbols : \E i \in 1 .. Len(SymbolOrder) : x = SymbolOrder[i]
  BY BacktestAssumption DEF RunSymbols, ToSet

LEMMA NotedOnceMore ==
  ASSUME NEW done \in Seq(RunSymbols), NEW x \in RunSymbols
  PROVE  /\ Append(done, x) \in Seq(RunSymbols)
         /\ ToSet(Append(done, x)) = ToSet(done) \cup {x}
<1>1. ToSet(Append(done, x)) \subseteq ToSet(done) \cup {x}
  BY DEF ToSet
<1>2. x \in ToSet(Append(done, x))
  <2>1. Append(done, x)[Len(done) + 1] = x /\ Len(done) + 1 \in DOMAIN Append(done, x)
    OBVIOUS
  <2> QED
    BY <2>1 DEF ToSet
<1>3. ASSUME NEW i \in DOMAIN done PROVE done[i] \in ToSet(Append(done, x))
  <2>1. Append(done, x)[i] = done[i] /\ i \in DOMAIN Append(done, x)
    OBVIOUS
  <2> QED
    BY <2>1 DEF ToSet
<1> QED
  BY <1>1, <1>2, <1>3 DEF ToSet

LEMMA NothingNoted == ToSet(<<>>) = {}
  BY DEF ToSet

(* A progress file is not the absence of one. *)
LEMMA ProgressIsAFile ==
  ASSUME NEW c \in Versions, NEW done \in Seq(RunSymbols)
  PROVE  [code |-> c, done |-> done] # NoRow
  BY BacktestAssumption DEF RunSymbols

(* With every symbol noted, the shards put together are the whole ledger. *)
LEMMA ShardsMakeTheLedger ==
  ASSUME ProgressOK, disk.progress # NoRow, RunSymbols \subseteq ToSet(disk.progress.done)
  PROVE  LedgerRows = WholeLedger
<1>1. ASSUME NEW i \in DOMAIN SymbolOrder
      PROVE  disk.shards[SymbolOrder[i]].rows = WholeWalk(SymbolOrder[i])
  <2>1. SymbolOrder[i] \in ToSet(disk.progress.done)
    BY SymbolsAreSymbols
  <2>2. IsWalkedBy(SymbolOrder[i], disk.progress.code)
    BY <2>1 DEF ProgressOK
  <2> QED
    BY <2>2 DEF IsWalkedBy
<1>2. [i \in DOMAIN SymbolOrder |-> disk.shards[SymbolOrder[i]].rows]
        = [i \in DOMAIN SymbolOrder |-> WholeWalk(SymbolOrder[i])]
  BY <1>1, Zenon
<1> QED
  BY <1>2, Zenon DEF LedgerRows, WholeLedger

-----------------------------------------------------------------------------
LEMMA RunInit == Init => RunInv
<1> SUFFICES ASSUME Init PROVE RunInv
  OBVIOUS
<1>1. proc = Off /\ disk = EmptyDisk
  BY DEF Init
<1>2. ProcOK
  BY <1>1, SymbolsAreSymbols DEF ProcOK, Off, At
<1>3. DiskOK
  BY <1>1 DEF DiskOK, EmptyDisk, RunSymbols
<1>4. ScanOK /\ ProgressOK /\ WalkOK /\ BooksOK
  BY <1>1 DEF ScanOK, ProgressOK, WalkOK, BooksOK, Walking, At, Off, EmptyDisk
<1> QED
  BY <1>2, <1>3, <1>4 DEF RunInv, Init, InputsOK


(* A step that leaves the disk alone leaves what is said of the disk. *)
LEMMA DiskIsKept ==
  ASSUME RunInv, UNCHANGED <<world, disk>>, head' \in Versions, ProcOK',
         (Walking \/ proc.pc \in {"save-scan", "resume"})' =>
            proc'.sessions = NonStandardSessions(world),
         WalkOK', proc'.pc # "manifest"
  PROVE  RunInv'
<1>1. DiskOK'
  BY DEF RunInv, DiskOK, RunSymbols
<1>2. ScanOK'
  BY DEF RunInv, ScanOK, Walking
<1>3. ProgressOK'
  BY DEF RunInv, ProgressOK, IsWalkedBy, WholeWalk, RunSymbols
<1>4. WholeLedger' = WholeLedger
  BY DEF WholeLedger, WholeWalk
<1>5. Complete' <=> Complete
  BY <1>4 DEF Complete, RunSymbols
<1>6. BooksOK'
  BY <1>4, <1>5 DEF RunInv, BooksOK, At
<1>7. InputsOK'
  BY DEF RunInv, InputsOK
<1> QED
  BY <1>1, <1>2, <1>3, <1>6, <1>7 DEF RunInv

(* Outside the walk nothing is said of the process but its type. *)
LEMMA NotWalking ==
  ASSUME RunInv, UNCHANGED <<world, disk>>, head' \in Versions, ProcOK',
         proc'.pc \in {"off", "raised", "scan"}
  PROVE  RunInv'
<1>1. WalkOK'
  BY DEF WalkOK, Walking
<1> QED
  BY <1>1, DiskIsKept DEF Walking

LEMMA LaunchKeeps == ASSUME RunInv, Launch PROVE RunInv'
<1>1. proc' = [Off EXCEPT !.pc = "scan", !.code = head] /\ UNCHANGED <<world, head, disk>>
  BY DEF Launch
<1>2. proc' = [pc |-> "scan", code |-> head, sessions |-> {}, done |-> <<>>, next |-> 1]
  BY <1>1 DEF Off
<1>3. ProcOK'
  BY <1>2, SymbolsAreSymbols DEF ProcOK, At, RunInv, InputsOK
<1> QED
  BY <1>1, <1>2, <1>3, NotWalking DEF RunInv, InputsOK

LEMMA ScanKeeps == ASSUME RunInv, Scan PROVE RunInv'
<1> DEFINE days == IF ScanIsCached THEN disk.scan.days ELSE NonStandardSessions(world)
           pc == IF ScanIsCached THEN "resume" ELSE "save-scan"
<1>1. /\ At("scan") /\ UNCHANGED <<world, head, disk>>
      /\ proc' = [proc EXCEPT !.sessions = days, !.pc = pc]
  BY DEF Scan
<1>2. days = NonStandardSessions(world)
  BY DEF RunInv, ScanOK, ScanIsCached
<1>3. pc \in {"resume", "save-scan"}
  OBVIOUS
<1> HIDE DEF days, pc
<1>4. proc' = [pc |-> pc, code |-> proc.code, sessions |-> days, done |-> proc.done, next |-> proc.next]
  BY <1>1 DEF RunInv, ProcOK
<1>5. ProcOK'
  BY <1>1, <1>3, <1>4 DEF RunInv, ProcOK, At
<1>6. WalkOK'
  BY <1>3, <1>4 DEF WalkOK, Walking
<1> QED
  BY <1>1, <1>2, <1>3, <1>4, <1>5, <1>6, DiskIsKept DEF RunInv, InputsOK

LEMMA ResumeKeeps == ASSUME RunInv, Resume PROVE RunInv'
<1>1. At("resume") /\ UNCHANGED <<world, head, disk>> /\ head' \in Versions
  BY DEF Resume, RunInv, InputsOK
<1>2. CASE disk.progress # NoRow /\ disk.progress.code # proc.code
  <2>1. proc' = Off
    BY <1>2 DEF Resume
  <2>2. ProcOK'
    BY <2>1, SymbolsAreSymbols DEF ProcOK, Off, At
  <2> QED
    BY <1>1, <2>1, <2>2, NotWalking DEF Off
<1>3. CASE disk.progress = NoRow \/ disk.progress.code = proc.code
  <2> DEFINE done == IF disk.progress = NoRow THEN <<>> ELSE disk.progress.done
  <2>1. proc.done = <<>> /\ proc.next = 1 /\ proc.code \in Versions
    BY <1>1 DEF RunInv, ProcOK, At
  <2>2. done \in Seq(RunSymbols)
    BY DEF RunInv, ProgressOK
  <2>3. proc' = [pc |-> "walk", code |-> proc.code, sessions |-> proc.sessions,
                 done |-> done, next |-> 1]
    BY <1>3, <2>1 DEF Resume, RunInv, ProcOK
  <2>4. \/ disk.progress = NoRow /\ done = <<>>
        \/ disk.progress = [code |-> proc.code, done |-> done]
    BY <1>3 DEF RunInv, ProgressOK
  <2> HIDE DEF done
  <2>5. ProcOK'
    BY <2>1, <2>2, <2>3, SymbolsAreSymbols DEF ProcOK, At
  <2>6. WalkOK'
    BY <1>1, <2>3, <2>4 DEF WalkOK, At
  <2>7. proc.sessions = NonStandardSessions(world)
    BY <1>1 DEF RunInv, ScanOK, At
  <2> QED
    BY <1>1, <2>3, <2>5, <2>6, <2>7, DiskIsKept
<1> QED
  BY <1>2, <1>3

LEMMA SkipKeeps == ASSUME RunInv, SkipSymbol PROVE RunInv'
<1>1. /\ At("walk") /\ proc.next <= Len(SymbolOrder) /\ Symbol \in ToSet(proc.done)
      /\ UNCHANGED <<world, head, disk>> /\ head' \in Versions
  BY DEF SkipSymbol, IsDone, RunInv, InputsOK
<1>2. proc' = [pc |-> "walk", code |-> proc.code, sessions |-> proc.sessions,
               done |-> proc.done, next |-> proc.next + 1]
  BY <1>1 DEF SkipSymbol, At, RunInv, ProcOK
<1>3. ProcOK'
  BY <1>1, <1>2, SymbolsAreSymbols DEF RunInv, ProcOK, At
<1>4. WalkOK'
  <2>1. \A i \in 1 .. proc.next : SymbolOrder[i] \in ToSet(proc.done)
    <3>1. \A i \in 1 .. proc.next - 1 : SymbolOrder[i] \in ToSet(proc.done)
      BY <1>1 DEF RunInv, WalkOK, Walking, At
    <3>2. proc.next \in Nat
      BY SymbolsAreSymbols DEF RunInv, ProcOK
    <3> QED
      BY <1>1, <3>1, <3>2 DEF Symbol
  <2>2. proc'.next - 1 = proc.next
    BY <1>2, SymbolsAreSymbols DEF RunInv, ProcOK
  <2> QED
    BY <1>1, <1>2, <2>1, <2>2 DEF WalkOK, Walking, At, RunInv
<1>5. proc.sessions = NonStandardSessions(world)
  BY <1>1 DEF RunInv, ScanOK, Walking, At
<1> QED
  BY <1>1, <1>2, <1>3, <1>4, <1>5, DiskIsKept

LEMMA DieKeeps == ASSUME RunInv, proc' = Off, UNCHANGED <<world, head, disk>> PROVE RunInv'
<1>1. ProcOK'
  BY SymbolsAreSymbols DEF ProcOK, Off, At
<1> QED
  BY <1>1, NotWalking DEF Off, RunInv, InputsOK

LEMMA MoveHeadKeeps == ASSUME RunInv, MoveHead PROVE RunInv'
<1>1. At("off") /\ UNCHANGED <<world, disk, proc>> /\ head' \in Versions
  BY DEF MoveHead
<1>2. ProcOK'
  BY <1>1 DEF RunInv, ProcOK, At
<1> QED
  BY <1>1, <1>2, NotWalking DEF At

LEMMA SaveScanKeeps == ASSUME RunInv, SaveScan PROVE RunInv'
<1>1. At("save-scan") /\ UNCHANGED <<world, head>>
  BY DEF SaveScan
<1>2. proc' = [pc |-> "resume", code |-> proc.code, sessions |-> proc.sessions,
               done |-> proc.done, next |-> proc.next]
  BY <1>1 DEF SaveScan, Goto, RunInv, ProcOK
<1>3. disk' = [scan |-> [code |-> proc.code, days |-> proc.sessions], progress |-> disk.progress,
               shards |-> disk.shards, ledger |-> disk.ledger, manifest |-> disk.manifest]
  BY <1>1 DEF SaveScan, RunInv, DiskOK
<1>4. proc.sessions = NonStandardSessions(world)
  BY <1>1 DEF RunInv, ScanOK, At
<1>5. ProcOK'
  BY <1>1, <1>2 DEF RunInv, ProcOK, At
<1>6. DiskOK'
  BY <1>3 DEF RunInv, DiskOK, RunSymbols
<1>7. ScanOK'
  BY <1>1, <1>2, <1>3, <1>4 DEF ScanOK
<1>8. ProgressOK'
  BY <1>1, <1>3 DEF RunInv, ProgressOK, IsWalkedBy, WholeWalk, RunSymbols
<1>9. WalkOK'
  BY <1>2 DEF WalkOK, Walking
<1>10. WholeLedger' = WholeLedger
  BY <1>1 DEF WholeLedger, WholeWalk
<1>11. BooksOK'
  BY <1>2, <1>3, <1>10 DEF RunInv, BooksOK, Complete, At, RunSymbols
<1> QED
  BY <1>1, <1>5, <1>6, <1>7, <1>8, <1>9, <1>11 DEF RunInv, InputsOK

(* Writing a shard: another code's progress file would have stopped the    *)
(* launch, so the shard agrees with what the file already says.            *)
LEMMA WriteShardKeeps == ASSUME RunInv, WriteShard PROVE RunInv'
<1>1. /\ At("walk") /\ proc.next \in 1 .. Len(SymbolOrder)
      /\ UNCHANGED <<world, head>> /\ head' \in Versions
  BY SymbolsAreSymbols DEF WriteShard, RunInv, InputsOK, ProcOK
<1>2. CASE WalkStops(world, Symbol, proc.sessions)
  <2>1. proc' = [Off EXCEPT !.pc = "raised"] /\ UNCHANGED disk
    BY <1>2 DEF WriteShard
  <2>2. proc' = [pc |-> "raised", code |-> NoRow, sessions |-> {}, done |-> <<>>, next |-> 1]
    BY <2>1 DEF Off
  <2>3. ProcOK'
    BY <2>2, SymbolsAreSymbols DEF ProcOK, At
  <2> QED
    BY <1>1, <2>1, <2>2, <2>3, NotWalking
<1>3. CASE ~WalkStops(world, Symbol, proc.sessions)
  <2> DEFINE shard == [code |-> proc.code, rows |-> WholeWalk(Symbol)]
             shards == [disk.shards EXCEPT ![Symbol] = shard]
  <2>1. proc.sessions = NonStandardSessions(world)
    BY <1>1 DEF RunInv, ScanOK, Walking, At
  <2>2. disk' = [scan |-> disk.scan, progress |-> disk.progress, shards |-> shards,
                 ledger |-> disk.ledger, manifest |-> disk.manifest]
    BY <1>3, <2>1 DEF WriteShard, RunInv, DiskOK, WholeWalk
  <2>3. proc' = [pc |-> "record", code |-> proc.code, sessions |-> proc.sessions,
                 done |-> proc.done, next |-> proc.next]
    BY <1>3 DEF WriteShard, Goto, RunInv, ProcOK
  <2>4. Symbol \in RunSymbols /\ Symbol' = Symbol
    BY <1>1, <2>3, SymbolsAreSymbols DEF Symbol
  <2>5. shards = [x \in RunSymbols |-> IF x = Symbol THEN shard ELSE disk.shards[x]]
    BY <2>4 DEF RunInv, DiskOK
  <2>6. \/ disk.progress = NoRow /\ proc.done = <<>>
        \/ disk.progress = [code |-> proc.code, done |-> proc.done]
    BY <1>1 DEF RunInv, WalkOK, Walking, At
  <2> HIDE DEF shards
  <2>7. \A x : WholeWalk(x)' = WholeWalk(x)
    BY <1>1 DEF WholeWalk
  <2>8. ProcOK'
    BY <1>1, <2>3 DEF RunInv, ProcOK, At
  <2>9. DiskOK'
    BY <2>2, <2>5 DEF DiskOK, RunSymbols
  <2>10. ScanOK'
    BY <1>1, <2>1, <2>2, <2>3 DEF RunInv, ScanOK
  <2>11. ProgressOK'
    <3>1. disk'.progress = disk.progress /\ disk'.shards = shards
      BY <2>2
    <3>2. ASSUME disk.progress # NoRow, NEW x \in ToSet(disk.progress.done)
          PROVE  shards[x] = [code |-> disk.progress.code, rows |-> WholeWalk(x)]
      <4>1. disk.progress.code = proc.code /\ x \in RunSymbols
        BY <2>6, <3>2 DEF RunInv, ProgressOK, ToSet
      <4>2. disk.shards[x] = [code |-> disk.progress.code, rows |-> WholeWalk(x)]
        BY <3>2 DEF RunInv, ProgressOK, IsWalkedBy
      <4> QED
        BY <2>5, <4>1, <4>2
    <3>3. disk.progress # NoRow => disk.progress \in [code : Versions, done : Seq(RunSymbols)]
      BY DEF RunInv, ProgressOK
    <3> QED
      BY <2>7, <3>1, <3>2, <3>3 DEF ProgressOK, IsWalkedBy, RunSymbols
  <2>12. WalkOK'
    <3>1. \A i \in 1 .. proc.next - 1 : SymbolOrder[i] \in ToSet(proc.done)
      BY <1>1 DEF RunInv, WalkOK, Walking, At
    <3>2. shards[Symbol] = shard
      BY <2>4, <2>5
    <3> QED
      BY <2>2, <2>3, <2>4, <2>6, <2>7, <3>1, <3>2 DEF WalkOK, Walking, At, IsWalkedBy
  <2>13. WholeLedger' = WholeLedger
    BY <2>7, Zenon DEF WholeLedger
  <2>14. BooksOK'
    BY <1>1, <2>2, <2>3, <2>13 DEF RunInv, BooksOK, Complete, At, RunSymbols
  <2> QED
    BY <1>1, <2>8, <2>9, <2>10, <2>11, <2>12, <2>14 DEF RunInv, InputsOK
<1> QED
  BY <1>2, <1>3

LEMMA RecordDoneKeeps == ASSUME RunInv, RecordDone PROVE RunInv'
<1> DEFINE done == Append(proc.done, Symbol)
           progress == [code |-> proc.code, done |-> done]
<1>1. /\ At("record") /\ proc.next \in 1 .. Len(SymbolOrder) /\ proc.next + 1 \in 1 .. Len(SymbolOrder) + 1
      /\ UNCHANGED <<world, head>>
  BY SymbolsAreSymbols DEF RecordDone, RunInv, ProcOK
<1>2. disk' = [scan |-> disk.scan, progress |-> progress, shards |-> disk.shards,
               ledger |-> disk.ledger, manifest |-> disk.manifest]
  BY DEF RecordDone, RunInv, DiskOK
<1>3. proc' = [pc |-> "walk", code |-> proc.code, sessions |-> proc.sessions,
               done |-> done, next |-> proc.next + 1]
  BY DEF RecordDone, RunInv, ProcOK
<1>4. Symbol \in RunSymbols /\ proc.done \in Seq(RunSymbols) /\ proc.code \in Versions
  BY <1>1, SymbolsAreSymbols DEF Symbol, RunInv, ProcOK, At
<1>5. done \in Seq(RunSymbols) /\ ToSet(done) = ToSet(proc.done) \cup {Symbol}
  BY <1>4, NotedOnceMore
<1>6. progress # NoRow
  BY <1>4, <1>5, ProgressIsAFile
<1>7. \/ disk.progress = NoRow /\ proc.done = <<>>
      \/ disk.progress = [code |-> proc.code, done |-> proc.done]
  BY <1>1 DEF RunInv, WalkOK, Walking, At
<1> HIDE DEF done
<1>8. \A x : WholeWalk(x)' = WholeWalk(x)
  BY <1>1 DEF WholeWalk
<1>9. ProcOK'
  BY <1>1, <1>3, <1>4, <1>5 DEF ProcOK, At
<1>10. DiskOK'
  BY <1>2 DEF RunInv, DiskOK, RunSymbols
<1>11. ScanOK'
  BY <1>1, <1>2, <1>3 DEF RunInv, ScanOK, Walking, At
<1>12. ProgressOK'
  <2>1. ASSUME NEW x \in ToSet(proc.done) PROVE IsWalkedBy(x, proc.code)
    <3>1. CASE disk.progress # NoRow
      BY <1>7, <3>1, <2>1 DEF RunInv, ProgressOK
    <3>2. CASE disk.progress = NoRow
      BY <1>7, <3>2, <2>1, NothingNoted, <1>4, <1>5, ProgressIsAFile
    <3> QED
      BY <3>1, <3>2
  <2>2. IsWalkedBy(Symbol, proc.code)
    BY <1>1 DEF RunInv, WalkOK, Walking, At
  <2>3. \A x \in ToSet(done) : IsWalkedBy(x, proc.code)
    BY <1>5, <2>1, <2>2
  <2> QED
    BY <1>2, <1>4, <1>5, <1>8, <2>3 DEF ProgressOK, IsWalkedBy, RunSymbols
<1>13. WalkOK'
  <2>1. \A i \in 1 .. proc.next : SymbolOrder[i] \in ToSet(done)
    <3>1. \A i \in 1 .. proc.next - 1 : SymbolOrder[i] \in ToSet(proc.done)
      BY <1>1 DEF RunInv, WalkOK, Walking, At
    <3> QED
      BY <1>1, <1>5, <3>1 DEF Symbol
  <2>2. proc'.next - 1 = proc.next
    BY <1>1, <1>3
  <2> QED
    BY <1>2, <1>3, <2>1, <2>2 DEF WalkOK, At
<1>14. WholeLedger' = WholeLedger
  BY <1>8, Zenon DEF WholeLedger
<1>15. ASSUME Complete PROVE Complete' /\ disk.progress.code = proc.code
  <2>1. disk.progress = [code |-> proc.code, done |-> proc.done]
    BY <1>7, <1>15 DEF Complete
  <2>2. RunSymbols \subseteq ToSet(done)
    BY <1>5, <1>15, <2>1 DEF Complete
  <2> QED
    BY <1>2, <1>6, <1>14, <1>15, <2>1, <2>2 DEF Complete, RunSymbols
<1>16. BooksOK'
  BY <1>2, <1>3, <1>14, <1>15 DEF RunInv, BooksOK, At
<1> QED
  BY <1>1, <1>9, <1>10, <1>11, <1>12, <1>13, <1>16 DEF RunInv, InputsOK

(* A walk that has passed its last symbol has noted every one. *)
LEMMA AllAreNoted ==
  ASSUME RunInv, Walking, proc.next > Len(SymbolOrder)
  PROVE  /\ disk.progress # NoRow
         /\ RunSymbols \subseteq ToSet(disk.progress.done)
<1>1. proc.next = Len(SymbolOrder) + 1
  BY SymbolsAreSymbols DEF RunInv, ProcOK
<1>2. \A i \in 1 .. Len(SymbolOrder) : SymbolOrder[i] \in ToSet(proc.done)
  <2>1. \A i \in 1 .. proc.next - 1 : SymbolOrder[i] \in ToSet(proc.done)
    BY DEF RunInv, WalkOK
  <2> QED
    BY <1>1, <2>1, SymbolsAreSymbols
<1>3. RunSymbols \subseteq ToSet(proc.done)
  BY <1>2, SymbolsAreSymbols
<1>4. ToSet(proc.done) # {}
  BY <1>2, SymbolsAreSymbols
<1>5. disk.progress = [code |-> proc.code, done |-> proc.done]
  BY <1>4, NothingNoted DEF RunInv, WalkOK
<1>6. proc.code \in Versions /\ proc.done \in Seq(RunSymbols)
  BY DEF RunInv, ProcOK, Walking
<1> QED
  BY <1>3, <1>5, <1>6, ProgressIsAFile

LEMMA WriteLedgerKeeps == ASSUME RunInv, WriteLedger PROVE RunInv'
<1>1. At("walk") /\ proc.next > Len(SymbolOrder) /\ UNCHANGED <<world, head>>
  BY DEF WriteLedger
<1>2. disk.progress # NoRow /\ RunSymbols \subseteq ToSet(disk.progress.done)
  BY <1>1, AllAreNoted DEF Walking, At
<1>3. LedgerRows = WholeLedger
  BY <1>2, ShardsMakeTheLedger DEF RunInv
<1>4. disk' = [scan |-> disk.scan, progress |-> disk.progress, shards |-> disk.shards,
               ledger |-> WholeLedger, manifest |-> disk.manifest]
  BY <1>3 DEF WriteLedger, RunInv, DiskOK
<1>5. proc' = [pc |-> "manifest", code |-> proc.code, sessions |-> proc.sessions,
               done |-> proc.done, next |-> proc.next]
  BY DEF WriteLedger, Goto, RunInv, ProcOK
<1>6. \A x : WholeWalk(x)' = WholeWalk(x)
  BY <1>1 DEF WholeWalk
<1>7. ProcOK'
  BY <1>1, <1>5 DEF RunInv, ProcOK, At
<1>8. DiskOK'
  BY <1>4 DEF RunInv, DiskOK, RunSymbols
<1>9. ScanOK'
  BY <1>1, <1>4, <1>5 DEF RunInv, ScanOK, Walking, At
<1>10. ProgressOK'
  BY <1>4, <1>6 DEF RunInv, ProgressOK, IsWalkedBy, RunSymbols
<1>11. WalkOK'
  BY <1>1, <1>4, <1>5 DEF RunInv, WalkOK, Walking, At
<1>12. WholeLedger' = WholeLedger
  BY <1>6, Zenon DEF WholeLedger
<1>13. Complete'
  BY <1>2, <1>4, <1>12 DEF Complete, RunSymbols
<1>14. BooksOK'
  BY <1>4, <1>12, <1>13 DEF RunInv, BooksOK
<1> QED
  BY <1>1, <1>7, <1>8, <1>9, <1>10, <1>11, <1>14 DEF RunInv, InputsOK

LEMMA WriteManifestKeeps == ASSUME RunInv, WriteManifest PROVE RunInv'
<1>1. At("manifest") /\ proc' = Off /\ UNCHANGED <<world, head>>
  BY DEF WriteManifest
<1>2. Complete
  BY <1>1 DEF RunInv, BooksOK
<1>3. LedgerRows = WholeLedger
  BY <1>2, ShardsMakeTheLedger DEF RunInv, Complete
<1>4. proc.code = disk.progress.code
  BY <1>1, <1>2 DEF RunInv, WalkOK, Walking, At, Complete
<1>5. disk' = [scan |-> disk.scan, progress |-> disk.progress, shards |-> disk.shards,
               ledger |-> disk.ledger,
               manifest |-> [code |-> disk.progress.code, totals |-> Manifest(WholeLedger)]]
  BY <1>3, <1>4 DEF WriteManifest, RunInv, DiskOK
<1>6. \A x : WholeWalk(x)' = WholeWalk(x)
  BY <1>1 DEF WholeWalk
<1>7. ProcOK'
  BY <1>1, SymbolsAreSymbols DEF ProcOK, Off, At
<1>8. DiskOK'
  BY <1>5 DEF RunInv, DiskOK, RunSymbols
<1>9. ScanOK'
  BY <1>1, <1>5 DEF RunInv, ScanOK, Walking, Off
<1>10. ProgressOK'
  BY <1>5, <1>6 DEF RunInv, ProgressOK, IsWalkedBy, RunSymbols
<1>11. WalkOK'
  BY <1>1 DEF WalkOK, Walking, Off
<1>12. WholeLedger' = WholeLedger
  BY <1>6, Zenon DEF WholeLedger
<1>13. Complete'
  BY <1>2, <1>5, <1>12 DEF Complete, RunSymbols
<1>14. BooksOK'
  BY <1>5, <1>12, <1>13 DEF BooksOK
<1> QED
  BY <1>1, <1>7, <1>8, <1>9, <1>10, <1>11, <1>14 DEF RunInv, InputsOK

-----------------------------------------------------------------------------
(* Every step keeps the invariant of the run directory. *)
LEMMA RunNext == RunInv /\ [Next]_vars => RunInv'
<1> SUFFICES ASSUME RunInv, [Next]_vars PROVE RunInv'
  OBVIOUS
<1>1. CASE Launch
  BY <1>1, LaunchKeeps
<1>2. CASE Scan
  BY <1>2, ScanKeeps
<1>3. CASE SaveScan
  BY <1>3, SaveScanKeeps
<1>4. CASE Resume
  BY <1>4, ResumeKeeps
<1>5. CASE SkipSymbol
  BY <1>5, SkipKeeps
<1>6. CASE WriteShard
  BY <1>6, WriteShardKeeps
<1>7. CASE RecordDone
  BY <1>7, RecordDoneKeeps
<1>8. CASE WriteLedger
  BY <1>8, WriteLedgerKeeps
<1>9. CASE WriteManifest
  BY <1>9, WriteManifestKeeps
<1>10. CASE Die
  BY <1>10, DieKeeps DEF Die
<1>11. CASE MoveHead
  BY <1>11, MoveHeadKeeps
<1>12. CASE UNCHANGED vars
  BY <1>12 DEF vars, RunInv, InputsOK, ProcOK, DiskOK, ScanOK, ProgressOK, WalkOK, BooksOK,
               Complete, Walking, At, Symbol, IsWalkedBy, WholeWalk, WholeLedger, RunSymbols
<1> QED
  BY <1>1, <1>2, <1>3, <1>4, <1>5, <1>6, <1>7, <1>8, <1>9, <1>10, <1>11, <1>12 DEF Next

LEMMA RunAlways == Spec => []RunInv
  BY RunInit, RunNext, PTL DEF Spec

(* Whichever launches died, and whichever code they ran under: a ledger    *)
(* that is complete is the ledger of one undisturbed run, and its manifest *)
(* counts that ledger under the code that wrote it.                        *)
THEOREM LedgerIsThatOfOneRun == Spec => []LedgerIsOneRun
<1>1. ASSUME RunInv PROVE LedgerIsOneRun
  <2>1. At("manifest") => disk.ledger = WholeLedger
    BY <1>1 DEF RunInv, BooksOK, Complete
  <2>2. ASSUME disk.ledger # NoRow, NEW x \in RunSymbols
        PROVE  disk.shards[x].code = disk.progress.code
    <3>1. disk.progress # NoRow /\ x \in ToSet(disk.progress.done)
      BY <1>1, <2>2 DEF RunInv, BooksOK, Complete
    <3>2. IsWalkedBy(x, disk.progress.code)
      BY <1>1, <3>1 DEF RunInv, ProgressOK
    <3> QED
      BY <3>2 DEF IsWalkedBy
  <2>3. disk.manifest # NoRow =>
           /\ disk.manifest.code = disk.progress.code
           /\ disk.manifest.totals = Manifest(disk.ledger)
    BY <1>1 DEF RunInv, BooksOK, Complete
  <2> QED
    BY <2>1, <2>2, <2>3 DEF LedgerIsOneRun, WholeLedger, WholeWalk, RunSymbols
<1> QED
  BY RunAlways, <1>1, PTL

-----------------------------------------------------------------------------
(* Of the bars that are kept, each is one that was there, and no two are   *)
(* the same.  The loop that keeps them is followed bar by bar.             *)

KeptStep(bars, stamps, kept, i) ==
    IF i = 0 THEN <<>>
    ELSE IF bars[i].t \in stamps THEN Append(kept[i - 1], bars[i]) ELSE kept[i - 1]

IsKept(bars, stamps, n, kept) == kept = [i \in 0 .. n |-> KeptStep(bars, stamps, kept, i)]

LEMMA KeptExists ==
  ASSUME NEW bars, NEW stamps, NEW n \in Nat
  PROVE  \E kept : IsKept(bars, stamps, n, kept)
<1> DEFINE T == {i \in 1 .. n : ~\E kept : IsKept(bars, stamps, i, kept)}
<1>1. \E kept : IsKept(bars, stamps, 0, kept)
  <2>1. IsKept(bars, stamps, 0, [i \in 0 .. 0 |-> <<>>])
    BY DEF IsKept, KeptStep
  <2> QED
    BY <2>1
<1>2. ASSUME T # {} PROVE FALSE
  <2>1. PICK m \in T : \A i \in T : m <= i
    <3> HIDE DEF T
    <3>1. T \subseteq 1 .. n
      BY DEF T
    <3> QED
      BY <1>2, <3>1, HasLeast
  <2>2. m \in 1 .. n /\ m - 1 \in 0 .. n
    BY <2>1
  <2>3. \E kept : IsKept(bars, stamps, m - 1, kept)
    BY <1>1, <2>1, <2>2
  <2>4. PICK kept : IsKept(bars, stamps, m - 1, kept)
    BY <2>3
  <2> DEFINE more == [i \in 0 .. m |-> IF i = m THEN KeptStep(bars, stamps, kept, m) ELSE kept[i]]
  <2>5. ASSUME NEW i \in 0 .. m PROVE more[i] = KeptStep(bars, stamps, more, i)
    <3>1. i # 0 => more[i - 1] = kept[i - 1]
      BY <2>2
    <3>2. KeptStep(bars, stamps, more, i) = KeptStep(bars, stamps, kept, i)
      BY <3>1 DEF KeptStep
    <3>3. i # m => kept[i] = KeptStep(bars, stamps, kept, i)
      BY <2>2, <2>4 DEF IsKept
    <3> QED
      BY <3>2, <3>3
  <2>6. more = [i \in 0 .. m |-> KeptStep(bars, stamps, more, i)]
    BY <2>5
  <2>7. IsKept(bars, stamps, m, more)
    <3> HIDE DEF more
    <3> QED
      BY <2>6 DEF IsKept
  <2> QED
    BY <2>1, <2>7
<1> QED
  BY <1>1, <1>2

LEMMA StampedIsKept ==
  ASSUME NEW R, NEW bars \in Seq(R), NEW stamps
  PROVE  \E kept : /\ IsKept(bars, stamps, Len(bars), kept)
                   /\ Stamped(bars, stamps) = kept[Len(bars)]
<1> DEFINE kept == CHOOSE f : f = [i \in 0 .. Len(bars) |->
                                     IF i = 0 THEN <<>>
                                     ELSE IF bars[i].t \in stamps THEN Append(f[i - 1], bars[i])
                                     ELSE f[i - 1]]
<1>1. \E f : f = [i \in 0 .. Len(bars) |->
                    IF i = 0 THEN <<>>
                    ELSE IF bars[i].t \in stamps THEN Append(f[i - 1], bars[i]) ELSE f[i - 1]]
  <2>1. PICK f : IsKept(bars, stamps, Len(bars), f)
    BY KeptExists
  <2> QED
    BY <2>1, Zenon DEF IsKept, KeptStep
<1>2. kept = [i \in 0 .. Len(bars) |->
                IF i = 0 THEN <<>>
                ELSE IF bars[i].t \in stamps THEN Append(kept[i - 1], bars[i]) ELSE kept[i - 1]]
  BY <1>1, Zenon
<1>3. Stamped(bars, stamps) = kept[Len(bars)]
  BY Zenon DEF Stamped
<1> HIDE DEF kept
<1> QED
  BY <1>2, <1>3, Zenon DEF IsKept, KeptStep

(* Where the kept bars were. *)
Picks(bars, stamps, n, picked, at) ==
    /\ at \in [1 .. Len(picked) -> 1 .. n]
    /\ \A k \in 1 .. Len(picked) : picked[k] = bars[at[k]] /\ bars[at[k]].t \in stamps
    /\ \A j, k \in 1 .. Len(picked) : j < k => at[j] < at[k]

LEMMA KeptArePicked ==
  ASSUME NEW R, NEW bars \in Seq(R), NEW stamps, NEW kept, IsKept(bars, stamps, Len(bars), kept)
  PROVE  /\ kept[Len(bars)] \in Seq(R)
         /\ \E at : Picks(bars, stamps, Len(bars), kept[Len(bars)], at)
<1> DEFINE Holds(n) == kept[n] \in Seq(R) /\ \E at : Picks(bars, stamps, n, kept[n], at)
           T == {n \in 1 .. Len(bars) : ~Holds(n)}
<1>1. Holds(0)
  <2>1. kept[0] = <<>>
    BY DEF IsKept, KeptStep
  <2>2. Picks(bars, stamps, 0, <<>>, <<>>)
    BY DEF Picks
  <2> QED
    BY <2>1, <2>2
<1>2. ASSUME NEW n \in 1 .. Len(bars), Holds(n - 1) PROVE Holds(n)
  <2> DEFINE before == kept[n - 1]
  <2>1. before \in Seq(R) /\ bars[n] \in R
    BY <1>2
  <2>2. PICK at : Picks(bars, stamps, n - 1, before, at)
    BY <1>2
  <2>3. kept[n] = IF bars[n].t \in stamps THEN Append(before, bars[n]) ELSE before
    <3>1. n \in 0 .. Len(bars) /\ n # 0
      OBVIOUS
    <3>2. \A i \in 0 .. Len(bars) : kept[i] = KeptStep(bars, stamps, kept, i)
      <4> DEFINE f == [i \in 0 .. Len(bars) |-> KeptStep(bars, stamps, kept, i)]
      <4>1. \A i \in 0 .. Len(bars) : f[i] = KeptStep(bars, stamps, kept, i)
        OBVIOUS
      <4>2. kept = f
        BY DEF IsKept
      <4> HIDE DEF f
      <4> QED
        BY <4>1, <4>2
    <3>3. kept[n] = KeptStep(bars, stamps, kept, n)
      BY <3>1, <3>2
    <3> QED
      BY <3>1, <3>3 DEF KeptStep
  <2> HIDE DEF before
  <2>4. CASE bars[n].t \notin stamps
    <3>1. Picks(bars, stamps, n, before, at)
      BY <2>2 DEF Picks
    <3> QED
      BY <2>1, <2>3, <2>4, <3>1
  <2>5. CASE bars[n].t \in stamps
    <3> DEFINE more == Append(before, bars[n])
               there == [k \in 1 .. Len(before) + 1 |-> IF k = Len(before) + 1 THEN n ELSE at[k]]
    <3>1. more \in Seq(R) /\ Len(more) = Len(before) + 1 /\ more[Len(before) + 1] = bars[n]
          /\ \A k \in 1 .. Len(before) : more[k] = before[k]
      BY <2>1
    <3>2. at \in [1 .. Len(before) -> 1 .. n - 1] /\ Len(before) \in Nat /\ n \in Nat
      BY <2>1, <2>2 DEF Picks
    <3>3. there \in [1 .. Len(before) + 1 -> 1 .. n]
      BY <3>2
    <3>4. \A k \in 1 .. Len(before) + 1 : more[k] = bars[there[k]] /\ bars[there[k]].t \in stamps
      <4>1. ASSUME NEW k \in 1 .. Len(before) + 1
            PROVE  more[k] = bars[there[k]] /\ bars[there[k]].t \in stamps
        <5>1. CASE k = Len(before) + 1
          BY <2>5, <3>1, <5>1
        <5>2. CASE k # Len(before) + 1
          <6>1. k \in 1 .. Len(before) /\ there[k] = at[k]
            BY <3>2, <5>2
          <6>2. before[k] = bars[at[k]] /\ bars[at[k]].t \in stamps
            BY <2>2, <6>1 DEF Picks
          <6> QED
            BY <3>1, <6>1, <6>2
        <5> QED
          BY <5>1, <5>2
      <4> QED
        BY <4>1
    <3>5. \A j, k \in 1 .. Len(before) + 1 : j < k => there[j] < there[k]
      <4>1. ASSUME NEW j \in 1 .. Len(before) + 1, NEW k \in 1 .. Len(before) + 1, j < k
            PROVE  there[j] < there[k]
        <5>1. j \in 1 .. Len(before) /\ there[j] = at[j] /\ at[j] \in 1 .. n - 1
          BY <3>2, <4>1
        <5>2. CASE k = Len(before) + 1
          BY <3>2, <5>1, <5>2
        <5>3. CASE k # Len(before) + 1
          <6>1. k \in 1 .. Len(before) /\ there[k] = at[k]
            BY <3>2, <5>3
          <6> QED
            BY <2>2, <4>1, <5>1, <6>1 DEF Picks
        <5> QED
          BY <5>2, <5>3
      <4> QED
        BY <4>1
    <3> HIDE DEF more, there
    <3>6. Picks(bars, stamps, n, more, there)
      BY <3>1, <3>3, <3>4, <3>5 DEF Picks
    <3>7. kept[n] = more
      BY <2>3, <2>5 DEF more
    <3> QED
      BY <3>1, <3>6, <3>7
  <2> QED
    BY <2>4, <2>5
<1> HIDE DEF Holds
<1>3. ASSUME T # {} PROVE FALSE
  <2>1. T \subseteq 1 .. Len(bars) /\ Len(bars) \in Nat
    OBVIOUS
  <2>2. PICK m \in T : \A n \in T : m <= n
    <3> HIDE DEF T
    <3> QED
      BY <1>3, <2>1, HasLeast
  <2>3. m \in 1 .. Len(bars) /\ ~Holds(m) /\ m - 1 \in 0 .. Len(bars)
    BY <2>1, <2>2
  <2>4. m - 1 \notin T
    BY <2>2, <2>3
  <2>5. Holds(m - 1)
    BY <1>1, <2>3, <2>4
  <2> QED
    BY <1>2, <2>3, <2>5
<1>4. Holds(Len(bars))
  BY <1>1, <1>3
<1> QED
  BY <1>4 DEF Holds

LEMMA StampedArePicked ==
  ASSUME NEW R, NEW bars \in Seq(R), NEW stamps
  PROVE  /\ Stamped(bars, stamps) \in Seq(R)
         /\ \E at : Picks(bars, stamps, Len(bars), Stamped(bars, stamps), at)
  BY StampedIsKept, KeptArePicked, Zenon

-----------------------------------------------------------------------------
(* What passing gate 2 says of the bars of the session.                    *)

Inside(bars) == {i \in DOMAIN bars : InSession(bars[i].t)}

LEMMA PassedGateTwo ==
  ASSUME NEW bars \in Seq(StoredBars), NEW reconciled,
         IntegrityGate(bars, reconciled, TRUE).passed
  PROVE  /\ \A i, j \in Inside(bars) : bars[i].t = bars[j].t => i = j
         /\ \A i \in Inside(bars) : Sane(bars[i]) /\ ~Negative(bars[i])
<1> DEFINE present == {bars[i].t : i \in Inside(bars)}
           stamp == [i \in Inside(bars) |-> bars[i].t]
<1>1. /\ ~(Cardinality(Inside(bars)) > Cardinality(present))
      /\ \A i \in Inside(bars) : Sane(bars[i]) /\ ~Negative(bars[i])
  BY DEF IntegrityGate, Inside
<1>2. IsFiniteSet(Inside(bars))
  <2>1. IsFiniteSet(1 .. Len(bars))
    BY FS_Interval
  <2>2. Inside(bars) \subseteq 1 .. Len(bars)
    BY DEF Inside
  <2> QED
    BY <2>1, <2>2, FS_Subset
<1>3. stamp \in Surjection(Inside(bars), present)
  BY DEF Surjection
<1> HIDE DEF present, stamp
<1>4. /\ IsFiniteSet(present) /\ Cardinality(present) <= Cardinality(Inside(bars))
      /\ Cardinality(present) = Cardinality(Inside(bars)) => stamp \in Injection(Inside(bars), present)
  BY <1>2, <1>3, FS_Surjection
<1>5. Cardinality(present) \in Nat /\ Cardinality(Inside(bars)) \in Nat
  BY <1>2, <1>4, FS_CardinalityType
<1>6. stamp \in Injection(Inside(bars), present)
  BY <1>1, <1>4, <1>5
<1>7. \A i, j \in Inside(bars) : bars[i].t = bars[j].t => i = j
  BY <1>6 DEF Injection, IsInjective, stamp
<1> QED
  BY <1>1, <1>7

(* A day that the gates let through has the bars the engines ask for.      *)
LEMMA GatedDaysNeverRaise ==
  ASSUME NEW s, NEW d, Minutes(s, d) \in Seq(StoredBars), Refusal(GateDay(s, d)) = "none"
  PROVE  /\ ~HasDuplicate(InSessionBars(Minutes(s, d)))
         /\ ~ProfileRaises(WindowBars(InSessionBars(Minutes(s, d))))
<1> DEFINE bars == Minutes(s, d)
           session == InSessionBars(bars)
           window == WindowBars(session)
<1>1. PICK reconciled : IntegrityGate(bars, reconciled, TRUE).passed
  <2>1. GateDay(s, d).reconciled # NoRow /\ GateDay(s, d).gate2
    BY DEF Refusal
  <2>2. d \in DOMAIN s.rows
    BY <2>1 DEF GateDay, GatesWithoutRow
  <2> QED
    BY <2>1, <2>2 DEF GateDay, GatesOf
<1> HIDE DEF bars
<1>2. bars \in Seq(StoredBars)
  BY DEF bars
<1>3. session \in Seq(StoredBars)
      /\ \E at : Picks(bars, 0 .. SessionMinutes - 1, Len(bars), session, at)
  BY <1>2, StampedArePicked DEF InSessionBars
<1> HIDE DEF session
<1>4. PICK at : Picks(bars, 0 .. SessionMinutes - 1, Len(bars), session, at)
  BY <1>3
<1>5. ASSUME NEW k \in DOMAIN session
      PROVE  at[k] \in Inside(bars) /\ session[k] = bars[at[k]]
  BY <1>2, <1>3, <1>4 DEF Picks, Inside, InSession
<1>6. \A j, k \in DOMAIN session : session[j].t = session[k].t => j = k
  <2>1. \A j, k \in DOMAIN session : at[j] = at[k] => j = k
    <3>1. DOMAIN session = 1 .. Len(session) /\ Len(session) \in Nat
      BY <1>3
    <3>2. \A k \in 1 .. Len(session) : at[k] \in Int
      BY <1>4 DEF Picks
    <3> QED
      BY <1>4, <3>1, <3>2 DEF Picks
  <2>2. \A i, j \in Inside(bars) : bars[i].t = bars[j].t => i = j
    BY <1>1, <1>2, PassedGateTwo
  <2> QED
    BY <1>5, <2>1, <2>2
<1>7. \A k \in DOMAIN session : Sane(session[k]) /\ ~Negative(session[k])
  BY <1>1, <1>2, <1>5, PassedGateTwo
<1>8. window \in Seq(StoredBars)
      /\ \E into : Picks(session, 0 .. CandleMinutes * ProfileCandles - 1, Len(session), window, into)
  BY <1>3, StampedArePicked DEF WindowBars
<1> HIDE DEF window
<1>9. PICK into : Picks(session, 0 .. CandleMinutes * ProfileCandles - 1, Len(session), window, into)
  BY <1>8
<1>10. ASSUME NEW k \in DOMAIN window
       PROVE  into[k] \in DOMAIN session /\ window[k] = session[into[k]]
  BY <1>3, <1>8, <1>9 DEF Picks
<1>11. \A j, k \in DOMAIN window : window[j].t = window[k].t => j = k
  <2>1. \A j, k \in DOMAIN window : into[j] = into[k] => j = k
    <3>1. DOMAIN window = 1 .. Len(window) /\ Len(window) \in Nat
      BY <1>8
    <3>2. \A k \in 1 .. Len(window) : into[k] \in Int
      BY <1>9 DEF Picks
    <3> QED
      BY <1>9, <3>1, <3>2 DEF Picks
  <2> QED
    BY <1>6, <1>10, <2>1
<1>12. \A k \in DOMAIN window : ~(window[k].v < 0) /\ ~(window[k].h < window[k].l)
  <2>1. ASSUME NEW k \in DOMAIN window
        PROVE  ~(window[k].v < 0) /\ ~(window[k].h < window[k].l)
    <3>1. Sane(window[k]) /\ ~Negative(window[k]) /\ window[k] \in StoredBars
      BY <1>7, <1>8, <1>10
    <3> QED
      BY <3>1 DEF Sane, Negative, StoredBars
  <2> QED
    BY <2>1
<1>13. ~HasDuplicate(session) /\ ~ProfileRaises(window)
  BY <1>6, <1>11, <1>12 DEF HasDuplicate, ProfileRaises
<1> QED
  BY <1>13 DEF bars, session, window

LEMMA MinutesAreBars ==
  ASSUME RunInv, NEW x \in RunSymbols, NEW d
  PROVE  x \in DOMAIN world.symbols /\ Minutes(world.symbols[x], d) \in Seq(StoredBars)
  BY BacktestAssumption DEF RunInv, InputsOK, RunSymbols, Minutes

LEMMA NothingIsStamped ==
  ASSUME NEW stamps
  PROVE  Stamped(<<>>, stamps) = <<>>
<1>1. Stamped(<<>>, stamps) \in Seq(StoredBars)
      /\ \E at : Picks(<<>>, stamps, 0, Stamped(<<>>, stamps), at)
  <2>1. <<>> \in Seq(StoredBars) /\ Len(<<>>) = 0
    OBVIOUS
  <2> QED
    BY <2>1, StampedArePicked
<1> DEFINE kept == Stamped(<<>>, stamps)
<1> HIDE DEF kept
<1>2. PICK at : Picks(<<>>, stamps, 0, kept, at)
  BY <1>1 DEF kept
<1>3. kept \in Seq(StoredBars) /\ at \in [1 .. Len(kept) -> 1 .. 0]
  BY <1>1, <1>2 DEF kept, Picks
<1>4. Len(kept) = 0
  <2>1. ASSUME Len(kept) # 0 PROVE FALSE
    <3>1. 1 \in 1 .. Len(kept)
      BY <1>3, <2>1
    <3>2. at[1] \in 1 .. 0
      BY <1>3, <3>1
    <3> QED
      BY <3>2
  <2> QED
    BY <2>1
<1>5. kept = <<>>
  BY <1>3, <1>4
<1> QED
  BY <1>5 DEF kept

(* No content of the stores makes a walk stop. *)
LEMMA WalksReachTheirEnd ==
  ASSUME RunInv, NEW x \in RunSymbols, NEW sessions
  PROVE  ~WalkStops(world, x, sessions)
<1>1. ASSUME NEW d, NEW day PROVE ~WalkRaises(world.symbols[x], d, day)
  <2>1. Minutes(world.symbols[x], d) \in Seq(StoredBars)
    BY MinutesAreBars
  <2> QED
    BY <2>1, GatedDaysNeverRaise DEF WalkRaises
<1> QED
  BY <1>1 DEF WalkStops

LEMMA NoneEverRaises == RunInv /\ ~At("raised") /\ [Next]_vars => ~At("raised")'
<1> SUFFICES ASSUME RunInv, ~At("raised"), [Next]_vars PROVE ~At("raised")'
  OBVIOUS
<1>1. CASE WriteShard
  <2>1. Symbol \in RunSymbols
    BY <1>1, SymbolsAreSymbols DEF WriteShard, Symbol, RunInv, ProcOK
  <2>2. proc' = [proc EXCEPT !.pc = "record"]
    BY <1>1, <2>1, WalksReachTheirEnd DEF WriteShard, Goto
  <2> QED
    BY <2>2 DEF At, RunInv, ProcOK
<1>2. CASE Launch \/ SaveScan \/ SkipSymbol \/ RecordDone
  BY <1>2 DEF Launch, SaveScan, SkipSymbol, RecordDone, Goto, Off, At, RunInv, ProcOK
<1>4. CASE Scan
  <2>1. proc'.pc \in {"resume", "save-scan"}
    <3> DEFINE pc == IF ScanIsCached THEN "resume" ELSE "save-scan"
    <3>1. PICK days : proc' = [proc EXCEPT !.sessions = days, !.pc = pc]
      BY <1>4 DEF Scan
    <3>2. pc \in {"resume", "save-scan"}
      OBVIOUS
    <3> HIDE DEF pc
    <3> QED
      BY <3>1, <3>2 DEF RunInv, ProcOK
  <2> QED
    BY <2>1 DEF At
<1>5. CASE Resume
  BY <1>5 DEF Resume, Off, At, RunInv, ProcOK
<1>3. CASE WriteLedger \/ WriteManifest \/ Die \/ MoveHead \/ UNCHANGED vars
  BY <1>3 DEF WriteLedger, WriteManifest, Die, MoveHead, vars, Goto, Off, At, RunInv, ProcOK
<1> QED
  BY <1>1, <1>2, <1>3, <1>4, <1>5 DEF Next

LEMMA TakenOutIsUseless ==
  ASSUME RunInv, NEW x \in RunSymbols, NEW d \in NonStandardSessions(world)
  PROVE  NothingToUse(world.symbols[x], d)
<1> DEFINE s == world.symbols[x]
<1>1. x \in DOMAIN world.symbols
  BY MinutesAreBars
<1>2. InSessionBars(Minutes(s, d)) = <<>>
  <2>1. CASE Minutes(s, d) = <<>>
    BY <2>1, NothingIsStamped DEF InSessionBars
  <2>2. CASE Minutes(s, d) # <<>>
    <3>1. ~HasInside(s, d)
      BY <1>1, <2>2 DEF NonStandardSessions
    <3> QED
      BY <3>1 DEF HasInside
  <2> QED
    BY <2>1, <2>2
<1>3. LoadMinutes(s, d).bars = <<>>
  BY <1>2 DEF LoadMinutes, Loaded, Unusable
<1>4. WindowBars(<<>>) = <<>>
  BY NothingIsStamped DEF WindowBars
<1>5. Profile(InSessionBars(Minutes(s, d)), s.tick, TRUE) = NoRow
  BY <1>2, <1>4 DEF Profile
<1> QED
  BY <1>3, <1>5 DEF NothingToUse

(* Whatever the stores hold: no day that the gates let through makes an    *)
(* engine raise, so every walk reaches its end; and a day that the scan    *)
(* takes out of the calendar had nothing that could be read or traded on.  *)
THEOREM GatesLetThroughTheUsable == Spec => []GatesAreExact
<1>1. Init => ~At("raised")
  BY DEF Init, Off, At
<1>2. RunInv /\ ~At("raised") => GatesAreExact
  <2> SUFFICES ASSUME RunInv, ~At("raised"), At("walk"),
                      NEW d \in proc.sessions, NEW x \in DOMAIN world.symbols
               PROVE  NothingToUse(world.symbols[x], d)
    BY DEF GatesAreExact
  <2>1. proc.sessions = NonStandardSessions(world)
    BY DEF RunInv, ScanOK, Walking, At
  <2>2. x \in RunSymbols
    BY BacktestAssumption DEF RunInv, InputsOK, RunSymbols
  <2> QED
    BY <2>1, <2>2, TakenOutIsUseless
<1> QED
  BY RunAlways, NoneEverRaises, <1>1, <1>2, PTL DEF Spec

-----------------------------------------------------------------------------
(* The rows of a walk: which day a row is of, and what it keeps of the     *)
(* day's bias whatever becomes of the day afterwards.                      *)

RowFields == {"symbol", "day", "status", "reason", "bias", "rule", "side", "poc2", "outcome", "exit",
              "dropped", "shapes", "trade"}

Shaped(r) == r = [f \in RowFields |-> r[f]]

SameDay(r, q) == r.day = q.day /\ r.bias = q.bias /\ r.rule = q.rule

LEMMA EmptyIsShaped ==
  ASSUME NEW d, NEW status, NEW reason
  PROVE  Shaped(EmptyRow(d, status, reason))
  BY DEF Shaped, RowFields, EmptyRow

LEMMA SimulationKeepsTheDay ==
  ASSUME NEW row, Shaped(row), NEW answer, NEW bars
  PROVE  /\ Shaped(SimulateDay(row, answer, bars))
         /\ SameDay(SimulateDay(row, answer, bars), row)
<1>1. ASSUME NEW trade
      PROVE  Shaped(SimulatedRow(row, answer, trade, bars))
             /\ SameDay(SimulatedRow(row, answer, trade, bars), row)
  <2> DEFINE shapes == Shapes(row, answer, trade, bars)
             out == [row EXCEPT !.outcome = answer.outcome, !.exit = answer.exit.kind,
                                !.trade = trade, !.shapes = shapes]
  <2> HIDE DEF shapes
  <2>1. Shaped(out) /\ SameDay(out, row)
    BY DEF Shaped, RowFields, SameDay
  <2> QED
    BY <2>1 DEF SimulatedRow, shapes
<1> QED
  BY <1>1 DEF SimulateDay

LEMMA EvaluationKeepsTheDay ==
  ASSUME NEW s, NEW d, NEW day, NEW gates, NEW row, Shaped(row)
  PROVE  /\ Shaped(Evaluate(s, d, day, gates, row))
         /\ SameDay(Evaluate(s, d, day, gates, row), row)
<1> DEFINE bars == InSessionBars(Minutes(s, d))
           dropped == row.dropped \/ DroppedBars(Minutes(s, d)) > 0
           sided == [row EXCEPT !.side = SideOf(day.bias), !.dropped = dropped]
           poc2 == Profile(bars, s.tick, gates.reconciled)
<1>1. \A why : /\ Shaped([row EXCEPT !.status = "refused", !.reason = why])
               /\ SameDay([row EXCEPT !.status = "refused", !.reason = why], row)
  BY DEF Shaped, RowFields, SameDay
<1>2. Shaped(sided) /\ SameDay(sided, row)
  <2> HIDE DEF dropped
  <2> QED
    BY DEF Shaped, RowFields, SameDay
<1> HIDE DEF bars, poc2, sided
<1>3. Shaped(SignalRow(sided, bars, poc2)) /\ SameDay(SignalRow(sided, bars, poc2), row)
  <2>1. CASE poc2 = NoRow
    BY <1>2, <2>1 DEF SignalRow, Shaped, RowFields, SameDay
  <2>2. CASE poc2 # NoRow
    <3> DEFINE priced == [sided EXCEPT !.poc2 = poc2]
               answer == EvaluateDay(Aggregate(bars), sided.side, poc2)
    <3>1. Shaped(priced) /\ SameDay(priced, row)
      BY <1>2 DEF Shaped, RowFields, SameDay
    <3> HIDE DEF priced, answer
    <3>2. /\ Shaped(SimulateDay(priced, answer, Aggregate(bars)))
          /\ SameDay(SimulateDay(priced, answer, Aggregate(bars)), priced)
      BY <3>1, SimulationKeepsTheDay
    <3> QED
      BY <2>2, <3>1, <3>2 DEF SignalRow, SameDay, priced, answer
  <2> QED
    BY <2>1, <2>2
<1>4. \/ \E why : Evaluate(s, d, day, gates, row) = [row EXCEPT !.status = "refused", !.reason = why]
      \/ Evaluate(s, d, day, gates, row) = SignalRow(sided, bars, poc2)
  BY DEF Evaluate, sided, bars, poc2
<1> QED
  BY <1>1, <1>3, <1>4

LEMMA WalkKeepsTheDay ==
  ASSUME NEW s, NEW d, NEW day
  PROVE  /\ Shaped(WalkDay(s, d, day))
         /\ SameDay(WalkDay(s, d, day), [day |-> d, bias |-> day.bias, rule |-> day.rule])
<1> DEFINE row == [EmptyRow(d, "evaluated", "evaluated") EXCEPT !.bias = day.bias, !.rule = day.rule,
                                                            !.dropped = day.dropped]
<1>1. Shaped(row) /\ SameDay(row, [day |-> d, bias |-> day.bias, rule |-> day.rule])
  BY DEF Shaped, RowFields, SameDay, EmptyRow
<1>2. CASE Minutes(s, d) = <<>>
  <2>1. WalkDay(s, d, day) = [row EXCEPT !.status = "refused", !.reason = "no-minutes"]
    BY <1>2 DEF WalkDay
  <2> HIDE DEF row
  <2> QED
    BY <1>1, <2>1 DEF Shaped, RowFields, SameDay
<1>3. CASE Minutes(s, d) # <<>>
  <2>1. WalkDay(s, d, day) = Evaluate(s, d, day, GateDay(s, d), row)
    BY <1>3 DEF WalkDay
  <2> HIDE DEF row
  <2> QED
    BY <1>1, <2>1, EvaluationKeepsTheDay DEF SameDay
<1> QED
  BY <1>2, <1>3

(* A day of a set by its rank is a day of the set. *)
LEMMA InOrderIsOfThem ==
  ASSUME NEW days, days \subseteq Nat, IsFiniteSet(days), NEW i \in DOMAIN InOrder(days)
  PROVE  InOrder(days)[i] \in days
<1>1. i \in 1 .. Cardinality(days)
  BY DEF InOrder
<1>2. \E d \in days : Cardinality({e \in days : e <= d}) = i
  BY <1>1, RankIsTaken
<1>3. InOrder(days)[i] = CHOOSE d \in days : Cardinality({e \in days : e <= d}) = i
  BY <1>1 DEF InOrder
<1> QED
  BY <1>2, <1>3, Zenon

RowOf(w, x, sessions, d) ==
    IF d \in sessions THEN RefusedRow(d, "non-standard-session")
    ELSE WalkOneDay(w.symbols[x], d, BiasMap(w.symbols[x], w.trading \ sessions))

LEMMA RowsAreOfDays ==
  ASSUME NEW w, NEW x, NEW sessions, NEW r \in ToSet(WalkSymbol(w, x, sessions))
  PROVE  \E d \in Span \cap (w.trading \cup sessions) :
            r = [RowOf(w, x, sessions, d) EXCEPT !.symbol = x]
<1> DEFINE days == Span \cap (w.trading \cup sessions)
           walked == InOrder(days)
           rows == WalkDays(w.symbols[x], sessions, walked, BiasMap(w.symbols[x], w.trading \ sessions))
<1>1. days \subseteq Nat /\ IsFiniteSet(days)
  <2>1. IsFiniteSet(Span) /\ Span \subseteq Nat
    BY FS_Interval, BacktestAssumption DEF Span
  <2> QED
    BY <2>1, FS_Subset
<1> HIDE DEF days
<1>2. PICK i \in DOMAIN rows : r = [rows[i] EXCEPT !.symbol = x]
  <2>1. WalkSymbol(w, x, sessions) = [i \in DOMAIN rows |-> [rows[i] EXCEPT !.symbol = x]]
    BY DEF WalkSymbol, days
  <2> HIDE DEF rows
  <2> QED
    BY <2>1 DEF ToSet
<1>3. i \in DOMAIN walked /\ walked[i] \in days
  BY <1>1, <1>2, InOrderIsOfThem DEF WalkDays
<1>4. rows[i] = RowOf(w, x, sessions, walked[i])
  BY <1>3 DEF WalkDays, RowOf
<1> QED
  BY <1>2, <1>3, <1>4 DEF days

(* What a row of a walked day keeps of the day's bias. *)
KeepsItsBias(w, x, sessions, r) ==
    LET series == BiasMap(w.symbols[x], w.trading \ sessions)
    IN /\ Shaped(r) /\ r.day \in Span
       /\ r.day \notin sessions /\ r.day \in DOMAIN series =>
             r.bias = series[r.day].bias /\ r.rule = series[r.day].rule
       /\ r.day \in sessions \/ r.day \notin DOMAIN series =>
             r.bias = "none" /\ r.rule = "none"

LEMMA RowKeepsItsBias ==
  ASSUME NEW w, NEW x, NEW sessions, NEW r \in ToSet(WalkSymbol(w, x, sessions))
  PROVE  KeepsItsBias(w, x, sessions, r)
<1> DEFINE series == BiasMap(w.symbols[x], w.trading \ sessions)
<1>1. PICK d \in Span : r = [RowOf(w, x, sessions, d) EXCEPT !.symbol = x]
  BY RowsAreOfDays
<1> DEFINE row == RowOf(w, x, sessions, d)
           out == [row EXCEPT !.symbol = x]
<1> HIDE DEF series
<1>2. Shaped(row) /\ row.day = d
      /\ (d \notin sessions /\ d \in DOMAIN series => row.bias = series[d].bias /\ row.rule = series[d].rule)
      /\ (d \in sessions \/ d \notin DOMAIN series => row.bias = "none" /\ row.rule = "none")
  <2>1. \A why : LET q == RefusedRow(d, why)
                 IN Shaped(q) /\ q.day = d /\ q.bias = "none" /\ q.rule = "none"
    BY DEF RefusedRow, EmptyRow, Shaped, RowFields
  <2>2. CASE d \in sessions \/ d \notin DOMAIN series
    BY <2>1, <2>2 DEF RowOf, WalkOneDay, series
  <2>3. CASE d \notin sessions /\ d \in DOMAIN series /\ Unresolved(series[d])
    <3>1. row = [RefusedRow(d, series[d].rule) EXCEPT !.bias = series[d].bias, !.rule = series[d].rule]
      BY <2>3 DEF RowOf, WalkOneDay, series
    <3> HIDE DEF row
    <3> QED
      BY <2>3, <3>1 DEF RefusedRow, EmptyRow, Shaped, RowFields
  <2>4. CASE d \notin sessions /\ d \in DOMAIN series /\ ~Unresolved(series[d])
    <3>1. row = WalkDay(w.symbols[x], d, series[d])
      BY <2>4 DEF RowOf, WalkOneDay, series
    <3> HIDE DEF row
    <3> QED
      BY <2>4, <3>1, WalkKeepsTheDay DEF SameDay
  <2> QED
    BY <2>2, <2>3, <2>4
<1> HIDE DEF row
<1>3. Shaped(out) /\ SameDay(out, row)
  BY <1>2 DEF Shaped, RowFields, SameDay
<1>4. r = out
  BY <1>1 DEF row
<1> HIDE DEF out
<1> QED
  BY <1>2, <1>3, <1>4 DEF SameDay, KeepsItsBias, series

-----------------------------------------------------------------------------
(* The series of biases, unfolded: a day is judged with the last bias of   *)
(* the day before it in the series.                                        *)

SeriesStep(s, table, trading, days, f, d) ==
    BiasFor(s, table, Before(trading, d), Before(trading, Before(trading, d)),
            IF {e \in days : e < d} = {} THEN "none" ELSE f[Max({e \in days : e < d})].last)

IsSeries(s, table, trading, days, f) ==
    f = [d \in days |-> SeriesStep(s, table, trading, days, f, d)]

LEMMA GreatestOf ==
  ASSUME NEW days, days \subseteq Nat, IsFiniteSet(days), days # {}
  PROVE  Max(days) \in days /\ \A d \in days : d <= Max(days)
<1>1. PICK d \in days : \A x \in days : x <= d
  BY HasNewest
<1>2. d \in days /\ \A x \in days : d >= x
  <2>1. \A x \in days : x \in Nat /\ d \in Nat
    OBVIOUS
  <2> QED
    BY <1>1, <2>1
<1>3. Max(days) \in days /\ \A x \in days : Max(days) >= x
  BY <1>2, Zenon DEF Max
<1> QED
  BY <1>3

LEMMA SeriesExists ==
  ASSUME NEW s, NEW table, NEW trading, NEW days, days \subseteq Nat, IsFiniteSet(days)
  PROVE  \E f : IsSeries(s, table, trading, days, f)
<1> DEFINE Till(n) == {d \in days : d < n}
           Holds(n) == \E f : IsSeries(s, table, trading, Till(n), f)
           T == {n \in Nat : ~Holds(n)}
<1>0. \A d \in days : d \in Nat
  OBVIOUS
<1>1. Holds(0)
  <2>1. Till(0) = {}
    <3>1. \A d \in days : ~(d < 0)
      BY <1>0
    <3> QED
      BY <3>1
  <2>2. IsSeries(s, table, trading, Till(0), <<>>)
    <3> HIDE DEF Till
    <3> QED
      BY <2>1 DEF IsSeries
  <2> QED
    BY <2>2
<1>2. ASSUME NEW n \in Nat, Holds(n) PROVE Holds(n + 1)
  <2>1. PICK f : IsSeries(s, table, trading, Till(n), f)
    BY <1>2
  <2> DEFINE g == [d \in Till(n + 1) |->
                     IF d \in Till(n) THEN f[d] ELSE SeriesStep(s, table, trading, Till(n), f, d)]
  <2>2. ASSUME NEW d \in Till(n + 1)
        PROVE  g[d] = SeriesStep(s, table, trading, Till(n + 1), g, d)
    <3> DEFINE A == {e \in Till(n) : e < d}
               B == {e \in Till(n + 1) : e < d}
    <3>0. d \in Nat /\ d < n + 1 /\ \A e \in days : e < d => e < n /\ e < n + 1
      <4>1. d \in days /\ d < n + 1
        OBVIOUS
      <4>2. d \in Nat
        BY <1>0, <4>1
      <4> QED
        BY <1>0, <4>1, <4>2
    <3>1. A = B
      BY <3>0, Zenon
    <3>2. A # {} => Max(A) \in A
      <4>1. A \subseteq Nat
        BY <1>0
      <4>2. A \in SUBSET days
        OBVIOUS
      <4> HIDE DEF A
      <4>3. IsFiniteSet(A)
        BY <4>2, FS_Subset
      <4> QED
        BY <4>1, <4>3, GreatestOf
    <3>3. A # {} => g[Max(A)] = f[Max(A)]
      <4>1. A \subseteq Till(n) /\ A \subseteq Till(n + 1)
        BY <3>0, Zenon
      <4> HIDE DEF A, Till
      <4> QED
        BY <3>2, <4>1
    <3>4. SeriesStep(s, table, trading, Till(n + 1), g, d) = SeriesStep(s, table, trading, Till(n), f, d)
      <4> HIDE DEF Till, g
      <4> QED
        BY <3>1, <3>3 DEF SeriesStep
    <3>5. d \in Till(n) => f[d] = SeriesStep(s, table, trading, Till(n), f, d)
      <4> HIDE DEF Till
      <4> QED
        BY <2>1 DEF IsSeries
    <3> HIDE DEF Till, A, B
    <3> QED
      BY <3>4, <3>5
  <2>3. g = [d \in Till(n + 1) |-> SeriesStep(s, table, trading, Till(n + 1), g, d)]
    <3> HIDE DEF Till
    <3> QED
      BY <2>2
  <2>4. IsSeries(s, table, trading, Till(n + 1), g)
    <3> HIDE DEF g, Till
    <3> QED
      BY <2>3 DEF IsSeries
  <2> QED
    BY <2>4
<1> HIDE DEF Holds
<1>3. T = {}
  <2> SUFFICES ASSUME T # {} PROVE FALSE
    OBVIOUS
  <2>1. PICK n \in T : \A m \in T : n <= m
    <3> HIDE DEF T
    <3>1. T \subseteq Nat
      BY DEF T
    <3> QED
      BY <3>1, HasLeastNat
  <2>2. n \in Nat /\ n # 0 /\ ~Holds(n)
    BY <1>1
  <2>3. n - 1 \in Nat /\ n - 1 \notin T
    BY <2>1, <2>2
  <2>4. Holds(n - 1)
    BY <2>3
  <2>5. Holds((n - 1) + 1)
    BY <1>2, <2>3, <2>4
  <2> QED
    BY <2>2, <2>5
<1>4. PICK K \in Nat : \A d \in days : d < K
  <2>1. CASE days = {}
    BY <2>1
  <2>2. CASE days # {}
    <3>1. Max(days) \in Nat /\ \A d \in days : d <= Max(days)
      BY <2>2, GreatestOf
    <3>2. Max(days) + 1 \in Nat /\ \A d \in days : d < Max(days) + 1
      BY <1>0, <3>1
    <3> QED
      BY <3>2
  <2> QED
    BY <2>1, <2>2
<1>5. Till(K) = days
  BY <1>4
<1>6. Holds(K)
  BY <1>3
<1> QED
  BY <1>5, <1>6 DEF Holds

LEMMA SeriesUnfolds ==
  ASSUME NEW s, NEW table, NEW trading, NEW days, days \subseteq Nat, IsFiniteSet(days)
  PROVE  LET f == BiasSeries(s, table, trading, days)
         IN /\ DOMAIN f = days
            /\ \A d \in days : f[d] = SeriesStep(s, table, trading, days, f, d)
<1> DEFINE series == CHOOSE f : f = [d \in days |->
              BiasFor(s, table, Before(trading, d), Before(trading, Before(trading, d)),
                      IF {e \in days : e < d} = {} THEN "none" ELSE f[Max({e \in days : e < d})].last)]
<1>1. \E f : f = [d \in days |->
              BiasFor(s, table, Before(trading, d), Before(trading, Before(trading, d)),
                      IF {e \in days : e < d} = {} THEN "none" ELSE f[Max({e \in days : e < d})].last)]
  <2>1. PICK f : IsSeries(s, table, trading, days, f)
    BY SeriesExists
  <2> QED
    BY <2>1, Zenon DEF IsSeries, SeriesStep
<1>2. series = [d \in days |->
              BiasFor(s, table, Before(trading, d), Before(trading, Before(trading, d)),
                      IF {e \in days : e < d} = {} THEN "none" ELSE series[Max({e \in days : e < d})].last)]
  BY <1>1, Zenon
<1>3. BiasSeries(s, table, trading, days) = series
  BY Zenon DEF BiasSeries
<1> HIDE DEF series
<1>4. IsSeries(s, table, trading, days, series)
  BY <1>2, Zenon DEF IsSeries, SeriesStep
<1>5. /\ DOMAIN series = days
      /\ \A d \in days : series[d] = SeriesStep(s, table, trading, days, series, d)
  <2> DEFINE f == [d \in days |-> SeriesStep(s, table, trading, days, series, d)]
  <2>1. DOMAIN f = days /\ \A d \in days : f[d] = SeriesStep(s, table, trading, days, series, d)
    OBVIOUS
  <2>2. series = f
    BY <1>4 DEF IsSeries
  <2> HIDE DEF f
  <2> QED
    BY <2>1, <2>2
<1> QED
  BY <1>3, <1>5

LEMMA BiasDaysAreDays ==
  ASSUME NEW trading
  PROVE  BiasDays(trading) \subseteq Nat /\ IsFiniteSet(BiasDays(trading))
<1> DEFINE pairable == {d \in Span : Pairable(trading, d)}
<1>1. IsFiniteSet(Span) /\ Span \subseteq Nat
  BY FS_Interval, BacktestAssumption DEF Span
<1>2. CASE pairable = {}
  <2>1. BiasDays(trading) = {}
    BY <1>2 DEF BiasDays
  <2> QED
    BY <2>1, FS_EmptySet
<1>3. CASE pairable # {}
  <2>1. pairable \in SUBSET Span /\ pairable \subseteq Nat
    BY <1>1
  <2> HIDE DEF pairable
  <2>2. Min(pairable) \in pairable
    <3>1. PICK x \in pairable : \A y \in pairable : x <= y
      BY <1>3, <2>1, HasLeastNat
    <3> QED
      BY <3>1, Zenon DEF Min
  <2>3. Min(pairable) \in Nat
    BY <2>1, <2>2
  <2>4. Min(pairable) .. End \subseteq Nat /\ IsFiniteSet(Min(pairable) .. End)
    <3>1. End \in Nat
      BY BacktestAssumption
    <3> QED
      BY <2>3, <3>1, FS_Interval
  <2>5. BiasDays(trading) = trading \cap (Min(pairable) .. End)
    BY <1>3 DEF BiasDays, pairable
  <2>6. BiasDays(trading) \in SUBSET (Min(pairable) .. End)
    BY <2>5
  <2>7. IsFiniteSet(BiasDays(trading))
    BY <2>4, <2>6, FS_Subset
  <2> QED
    BY <2>4, <2>6, <2>7
<1> QED
  BY <1>2, <1>3

LEMMA BiasMapUnfolds ==
  ASSUME NEW s, NEW trading
  PROVE  LET f == BiasMap(s, trading)
         IN /\ DOMAIN f = BiasDays(trading)
            /\ \A d \in BiasDays(trading) :
                 f[d] = SeriesStep(s, TableOf(s), trading, BiasDays(trading), f, d)
  BY BiasDaysAreDays, SeriesUnfolds DEF BiasMap

-----------------------------------------------------------------------------
(* One day's judgement: what it carries and what it decides.               *)

LEMMA PairCarries ==
  ASSUME NEW p, NEW c, NEW minutes, NEW last
  PROVE  EvaluatePair(p, c, minutes, last).bias
           = IF EvaluatePair(p, c, minutes, "none").bias = "none" THEN last
             ELSE EvaluatePair(p, c, minutes, "none").bias
<1>1. RuleThree(p, c, minutes, last).bias
        = IF RuleThree(p, c, minutes, "none").bias = "none" THEN last
          ELSE RuleThree(p, c, minutes, "none").bias
  BY DEF RuleThree, Decided, Carried
<1> QED
  BY <1>1 DEF EvaluatePair, Decided, Carried

LEMMA MinutesOnlyWhenNeeded ==
  ASSUME NEW p, NEW c, NEW minutes, NEW other, NEW last, ~NeedsMinutes(p, c)
  PROVE  EvaluatePair(p, c, minutes, last) = EvaluatePair(p, c, other, last)
  BY DEF EvaluatePair, NeedsMinutes, BreaksOut

LEMMA RuleThreeReadsMinutes ==
  ASSUME NEW p, NEW c, NEW minutes, NEW last,
         EvaluatePair(p, c, minutes, last).rule \in {"rule-3-outside-bar", "rule-3-tie"}
  PROVE  minutes # <<>> /\ NeedsMinutes(p, c)
<1>1. EvaluatePair(p, c, minutes, last) = RuleThree(p, c, minutes, last)
      /\ ~IsInside(p, c) /\ ~BreaksOut(p, c) /\ IsOutside(p, c)
  BY DEF EvaluatePair, BreaksOut, Decided, Carried
<1>2. RuleThree(p, c, minutes, last).rule \in {"rule-3-outside-bar", "rule-3-tie"}
  BY <1>1
<1>3. minutes # <<>>
  BY <1>2 DEF RuleThree, Carried
<1> QED
  BY <1>1, <1>3 DEF NeedsMinutes

LEMMA LoadedMinutesWereGated ==
  ASSUME NEW s, NEW d, LoadMinutes(s, d).bars # <<>>
  PROVE  /\ LoadMinutes(s, d).fault = "none"
         /\ Refusal(GateDay(s, d)) = "none"
         /\ \A b \in ToSet(InSessionBars(Minutes(s, d))) : Sane(b)
<1> DEFINE bars == InSessionBars(Minutes(s, d))
<1> HIDE DEF bars
<1>1. /\ LoadMinutes(s, d).fault = "none" /\ Refusal(GateDay(s, d)) = "none"
      /\ ~\E i \in DOMAIN bars : ~Sane(bars[i])
  BY DEF LoadMinutes, Loaded, Unusable, bars
<1> QED
  BY <1>1 DEF ToSet, bars

(* What is decided about a pair without a last bias. *)
DecisionOf(s, table, current, previous) ==
    IF current \in table.suppressions \/ previous \in table.suppressions THEN "none"
    ELSE IF current \notin DOMAIN s.rows \/ previous \notin DOMAIN s.rows THEN "none"
    ELSE IF /\ NeedsMinutes(AdjustPrevious(s, table, current, previous), s.rows[current])
            /\ LoadMinutes(s, current).fault # "none" THEN "none"
    ELSE EvaluatePair(AdjustPrevious(s, table, current, previous), s.rows[current],
                      LoadMinutes(s, current).bars, "none").bias

LEMMA DayCarriesOrDecides ==
  ASSUME NEW s, NEW table, NEW current, NEW previous, NEW last
  PROVE  LET day == BiasFor(s, table, current, previous, last)
             decision == DecisionOf(s, table, current, previous)
         IN /\ day.bias = (IF decision = "none" THEN last ELSE decision) /\ day.last = day.bias
            /\ day.rule \in {"rule-3-outside-bar", "rule-3-tie"} =>
                 /\ Refusal(GateDay(s, current)) = "none"
                 /\ \A b \in ToSet(InSessionBars(Minutes(s, current))) : Sane(b)
<1> DEFINE p == AdjustPrevious(s, table, current, previous)
           c == s.rows[current]
           full == LoadMinutes(s, current)
           loaded == IF NeedsMinutes(p, c) THEN full ELSE Loaded(<<>>, 0)
           day == BiasFor(s, table, current, previous, last)
           decision == DecisionOf(s, table, current, previous)
<1>1. CASE \/ current \in table.suppressions \/ previous \in table.suppressions
           \/ current \notin DOMAIN s.rows \/ previous \notin DOMAIN s.rows
  BY <1>1 DEF BiasFor, DecisionOf, DayBias
<1>2. CASE /\ ~(current \in table.suppressions \/ previous \in table.suppressions)
           /\ ~(current \notin DOMAIN s.rows \/ previous \notin DOMAIN s.rows)
  <2>1. day = JudgePair(p, c, loaded, last)
    BY <1>2 DEF BiasFor
  <2>2. decision = IF NeedsMinutes(p, c) /\ full.fault # "none" THEN "none"
                   ELSE EvaluatePair(p, c, full.bars, "none").bias
    BY <1>2 DEF DecisionOf
  <2> HIDE DEF p, c, full, day, decision
  <2>3. CASE NeedsMinutes(p, c) /\ full.fault # "none"
    <3>1. loaded = full
      BY <2>3
    <3>2. day.bias = last /\ day.last = last /\ day.rule = full.fault
      BY <2>1, <2>3, <3>1 DEF JudgePair, DayBias
    <3>3. full.fault \in {"none", "minutes-ungated", "minutes-malformed"}
      BY DEF LoadMinutes, Loaded, Unusable, full
    <3> QED
      BY <2>2, <2>3, <3>2, <3>3 DEF day, decision
  <2>4. CASE ~(NeedsMinutes(p, c) /\ full.fault # "none")
    <3>1. loaded.fault = "none"
      BY <2>4 DEF Loaded
    <3> DEFINE answer == EvaluatePair(p, c, loaded.bars, last)
    <3>2. day = DayBias(answer.bias, answer.rule, loaded.dropped > 0, answer.bias)
      BY <2>1, <3>1 DEF JudgePair
    <3>3. EvaluatePair(p, c, loaded.bars, "none") = EvaluatePair(p, c, full.bars, "none")
      BY MinutesOnlyWhenNeeded
    <3>4. answer.bias = IF decision = "none" THEN last ELSE decision
      BY <2>2, <2>4, <3>3, PairCarries
    <3>5. ASSUME answer.rule \in {"rule-3-outside-bar", "rule-3-tie"}
          PROVE  /\ Refusal(GateDay(s, current)) = "none"
                 /\ \A b \in ToSet(InSessionBars(Minutes(s, current))) : Sane(b)
      <4>1. loaded.bars # <<>> /\ NeedsMinutes(p, c)
        BY <3>5, RuleThreeReadsMinutes
      <4>2. LoadMinutes(s, current).bars # <<>>
        BY <4>1 DEF full
      <4> QED
        BY <4>2, LoadedMinutesWereGated
    <3> HIDE DEF answer, loaded
    <3>6. day.bias = answer.bias /\ day.last = answer.bias /\ day.rule = answer.rule
      BY <3>2 DEF DayBias
    <3> QED
      BY <3>4, <3>5, <3>6 DEF day, decision
  <2> QED
    BY <2>3, <2>4 DEF day, decision
<1> QED
  BY <1>1, <1>2

LEMMA GreatestIs ==
  ASSUME NEW days, days \subseteq Nat, NEW d \in days, \A x \in days : x <= d
  PROVE  Max(days) = d
<1>1. d \in days /\ \A x \in days : d >= x
  <2>1. \A x \in days : x \in Nat /\ d \in Nat
    OBVIOUS
  <2> QED
    BY <2>1
<1>2. Max(days) \in days /\ \A x \in days : Max(days) >= x
  BY <1>1, Zenon DEF Max
<1>3. Max(days) >= d /\ Max(days) <= d /\ Max(days) \in Nat /\ d \in Nat
  BY <1>2
<1> QED
  BY <1>3

(* The day's own decision, its pair taken from the calendar. *)
DecidedOn(s, trading, d) ==
    DecisionOf(s, TableOf(s), Before(trading, d), Before(trading, Before(trading, d)))

DecidingDays(s, trading, d) ==
    {e \in BiasDays(trading) : e <= d /\ DecidedOn(s, trading, e) # "none"}

(* However many days carried in between, a bias is the decision of the     *)
(* last day that decided one.                                              *)
LEMMA SeriesHoldsTheLastDecision ==
  ASSUME NEW s, NEW trading, NEW day \in BiasDays(trading)
  PROVE  LET f == BiasMap(s, trading)
             deciding == DecidingDays(s, trading, day)
         IN /\ f[day].last = f[day].bias
            /\ f[day].bias = IF deciding = {} THEN "none" ELSE DecidedOn(s, trading, Max(deciding))
<1> DEFINE days == BiasDays(trading)
           f == BiasMap(s, trading)
           D(d) == DecidedOn(s, trading, d)
           U(d) == DecidingDays(s, trading, d)
           Holds(d) == /\ f[d].last = f[d].bias
                       /\ f[d].bias = IF U(d) = {} THEN "none" ELSE D(Max(U(d)))
           T == {d \in days : ~Holds(d)}
<1>1. /\ days \subseteq Nat /\ IsFiniteSet(days) /\ \A d \in days : d \in Nat
      /\ \A d \in days : f[d] = SeriesStep(s, TableOf(s), trading, days, f, d)
  BY BiasMapUnfolds, BiasDaysAreDays
<1>2. \A d : U(d) = {e \in days : e <= d /\ D(e) # "none"}
  BY DEF DecidingDays
<1> HIDE DEF days, f, D, U
<1>3. ASSUME NEW d \in days, \A e \in days : e < d => Holds(e) PROVE Holds(d)
  <2> DEFINE earlier == {e \in days : e < d}
             last == IF earlier = {} THEN "none" ELSE f[Max(earlier)].last
  <2>1. f[d].bias = (IF D(d) = "none" THEN last ELSE D(d)) /\ f[d].last = f[d].bias
    <3> HIDE DEF Holds
    <3>1. f[d] = BiasFor(s, TableOf(s), Before(trading, d), Before(trading, Before(trading, d)), last)
      BY <1>1 DEF SeriesStep
    <3> HIDE DEF last
    <3> QED
      BY <3>1, DayCarriesOrDecides DEF D, DecidedOn
  <2>2. CASE D(d) # "none"
    <3>1. d \in U(d) /\ U(d) \subseteq Nat /\ \A x \in U(d) : x <= d
      <4>1. U(d) = {e \in days : e <= d /\ D(e) # "none"}
        BY <1>2
      <4>2. d \in Nat /\ d <= d
        BY <1>1
      <4> QED
        BY <1>1, <2>2, <4>1, <4>2
    <3>2. Max(U(d)) = d
      BY <3>1, GreatestIs
    <3> QED
      BY <2>1, <2>2, <3>1, <3>2
  <2>3. CASE D(d) = "none" /\ earlier = {}
    <3>1. U(d) = {}
      <4>1. \A e \in days : e <= d => e = d
        <5>1. \A e \in days : ~(e < d)
          BY <2>3
        <5> QED
          BY <1>1, <5>1
      <4> QED
        BY <1>2, <2>3, <4>1
    <3> QED
      BY <2>1, <2>3, <3>1
  <2>4. CASE D(d) = "none" /\ earlier # {}
    <3> DEFINE m == Max(earlier)
    <3>1. m \in earlier /\ \A e \in earlier : e <= m
      <4>1. earlier \in SUBSET days /\ earlier \subseteq Nat
        BY <1>1
      <4> HIDE DEF earlier
      <4>2. IsFiniteSet(earlier)
        BY <1>1, <4>1, FS_Subset
      <4> QED
        BY <2>4, <4>1, <4>2, GreatestOf
    <3> HIDE DEF m
    <3>2. m \in days /\ m < d /\ \A e \in days : e < d => e <= m
      BY <3>1
    <3>3. Holds(m)
      BY <1>3, <3>2
    <3>4. U(d) = U(m)
      <4>1. \A e \in days : e <= d /\ D(e) # "none" <=> e <= m /\ D(e) # "none"
        <5> SUFFICES ASSUME NEW e \in days
                     PROVE  e <= d /\ D(e) # "none" <=> e <= m /\ D(e) # "none"
          OBVIOUS
        <5>1. e \in Nat /\ d \in Nat /\ m \in Nat
          BY <1>1, <3>2
        <5>2. CASE e = d
          BY <2>4, <3>2, <5>1, <5>2
        <5>3. CASE e # d
          BY <3>2, <5>1, <5>3
        <5> QED
          BY <5>2, <5>3
      <4> QED
        BY <1>2, <4>1
    <3>5. last = f[m].last
      BY <2>4 DEF m
    <3> HIDE DEF last, earlier
    <3> QED
      BY <2>1, <2>4, <3>3, <3>4, <3>5
  <2> QED
    BY <2>2, <2>3, <2>4
<1>4. T = {}
  <2> SUFFICES ASSUME T # {} PROVE FALSE
    OBVIOUS
  <2>1. PICK d \in T : \A e \in T : d <= e
    <3>1. T \subseteq Nat
      BY <1>1
    <3> HIDE DEF T
    <3> QED
      BY <3>1, HasLeastNat
  <2>2. d \in days /\ ~Holds(d)
    OBVIOUS
  <2>3. ASSUME NEW e \in days, e < d PROVE Holds(e)
    <3>1. e \in Nat /\ d \in Nat
      BY <1>1, <2>2
    <3>2. e \notin T
      <4> HIDE DEF T
      <4> QED
        BY <2>1, <2>3, <3>1
    <3> QED
      BY <2>3, <3>2
  <2> HIDE DEF Holds
  <2> QED
    BY <1>3, <2>2, <2>3
<1>5. Holds(day)
  <2>1. day \in days
    BY DEF days
  <2> HIDE DEF Holds
  <2> QED
    BY <1>4, <2>1
<1> QED
  BY <1>5 DEF f, D, U

-----------------------------------------------------------------------------
(* Turned upside down.                                                     *)

LEMMA LeastOfTwo ==
  ASSUME NEW a \in Int, NEW b \in Int
  PROVE  Min({a, b}) = IF a <= b THEN a ELSE b
<1> DEFINE m == IF a <= b THEN a ELSE b
<1>1. m \in {a, b} /\ \A y \in {a, b} : m <= y
  OBVIOUS
<1>2. Min({a, b}) \in {a, b} /\ \A y \in {a, b} : Min({a, b}) <= y
  <2> HIDE DEF m
  <2> QED
    BY <1>1, Zenon DEF Min
<1> QED
  BY <1>2

LEMMA BodyMirrored ==
  ASSUME NEW p \in StoredRows
  PROVE  /\ BodyMax(p) \in Int /\ BodyMin(p) \in Int /\ BodyMin(p) <= BodyMax(p)
         /\ BodyMax(MirrorBar(p)) = -BodyMin(p) /\ BodyMin(MirrorBar(p)) = -BodyMax(p)
         /\ MirrorBar(p).h = -p.l /\ MirrorBar(p).l = -p.h /\ MirrorBar(p).c = -p.c
         /\ p.h \in Int /\ p.l \in Int /\ p.c \in Int
<1>1. /\ p.o \in Int /\ p.h \in Int /\ p.l \in Int /\ p.c \in Int
      /\ -p.o \in Int /\ -p.c \in Int
  BY DEF StoredRows
<1>2. /\ MirrorBar(p).h = -p.l /\ MirrorBar(p).l = -p.h /\ MirrorBar(p).c = -p.c
      /\ MirrorBar(p).o = -p.o
  BY DEF MirrorBar, StoredRows
<1>3. /\ Min({p.o, p.c}) = (IF p.o <= p.c THEN p.o ELSE p.c)
      /\ Min({-p.o, -p.c}) = (IF -p.o <= -p.c THEN -p.o ELSE -p.c)
  BY <1>1, LeastOfTwo
<1>4. /\ BodyMax(p) = (IF p.o >= p.c THEN p.o ELSE p.c)
      /\ BodyMin(p) = (IF p.o <= p.c THEN p.o ELSE p.c)
      /\ BodyMax(MirrorBar(p)) = (IF -p.o >= -p.c THEN -p.o ELSE -p.c)
      /\ BodyMin(MirrorBar(p)) = (IF -p.o <= -p.c THEN -p.o ELSE -p.c)
  BY <1>2, <1>3 DEF BodyMax, BodyMin, Larger
<1> QED
  BY <1>1, <1>2, <1>4

Flip(first) ==
    IF first = "high-first" THEN "low-first" ELSE IF first = "low-first" THEN "high-first" ELSE first

LEMMA BreakMirrored ==
  ASSUME NEW p \in StoredRows, NEW minutes \in Seq(StoredBars)
  PROVE  LET mirrored == [i \in DOMAIN minutes |-> MirrorBar(minutes[i])]
         IN FirstBreak(mirrored, MirrorBar(p)) = Flip(FirstBreak(minutes, p))
<1> DEFINE mirrored == [i \in DOMAIN minutes |-> MirrorBar(minutes[i])]
           q == MirrorBar(p)
           breaks == {i \in DOMAIN minutes : minutes[i].h > p.h \/ minutes[i].l < p.l}
           back == {i \in DOMAIN mirrored : mirrored[i].h > q.h \/ mirrored[i].l < q.l}
           first == minutes[Min(breaks)]
           other == mirrored[Min(breaks)]
<1>1. ASSUME NEW i \in DOMAIN minutes
      PROVE  /\ mirrored[i].h = -minutes[i].l /\ mirrored[i].l = -minutes[i].h
             /\ minutes[i].h \in Int /\ minutes[i].l \in Int
  <2>1. minutes[i] \in StoredBars
    OBVIOUS
  <2>2. \A b \in StoredBars : /\ MirrorBar(b).h = -b.l /\ MirrorBar(b).l = -b.h
                              /\ b.h \in Int /\ b.l \in Int
    BY DEF MirrorBar, StoredBars
  <2> QED
    BY <2>1, <2>2
<1>2. q.h = -p.l /\ q.l = -p.h /\ p.h \in Int /\ p.l \in Int
  BY BodyMirrored
<1>3. DOMAIN mirrored = DOMAIN minutes
  OBVIOUS
<1> HIDE DEF mirrored, q
<1>4. back = breaks
  <2>1. \A i \in DOMAIN minutes : /\ mirrored[i].h > q.h <=> minutes[i].l < p.l
                                  /\ mirrored[i].l < q.l <=> minutes[i].h > p.h
    BY <1>1, <1>2
  <2> QED
    BY <1>3, <2>1
<1>5. FirstBreak(minutes, p) =
        IF breaks = {} THEN "none"
        ELSE IF first.h > p.h /\ first.l < p.l THEN "tie"
        ELSE IF first.h > p.h THEN "high-first" ELSE "low-first"
  BY DEF FirstBreak
<1>6. FirstBreak(mirrored, q) =
        IF breaks = {} THEN "none"
        ELSE IF other.h > q.h /\ other.l < q.l THEN "tie"
        ELSE IF other.h > q.h THEN "high-first" ELSE "low-first"
  <2>1. FirstBreak(mirrored, q) =
          IF back = {} THEN "none"
          ELSE IF mirrored[Min(back)].h > q.h /\ mirrored[Min(back)].l < q.l THEN "tie"
          ELSE IF mirrored[Min(back)].h > q.h THEN "high-first" ELSE "low-first"
    BY DEF FirstBreak
  <2> HIDE DEF back, breaks
  <2> QED
    BY <1>4, <2>1
<1>7. breaks # {} => Min(breaks) \in breaks
  <2>1. breaks \subseteq Nat
    OBVIOUS
  <2> HIDE DEF breaks
  <2> SUFFICES ASSUME breaks # {} PROVE Min(breaks) \in breaks
    OBVIOUS
  <2>2. PICK x \in breaks : \A y \in breaks : x <= y
    BY <2>1, HasLeastNat
  <2> QED
    BY <2>2, Zenon DEF Min
<1>8. CASE breaks = {}
  BY <1>5, <1>6, <1>8 DEF Flip, mirrored, q
<1>9. CASE breaks # {}
  <2>1. Min(breaks) \in DOMAIN minutes /\ (first.h > p.h \/ first.l < p.l)
    BY <1>7, <1>9
  <2>2. /\ other.h = -first.l /\ other.l = -first.h /\ first.h \in Int /\ first.l \in Int
    BY <1>1, <2>1
  <2> HIDE DEF breaks, first, other
  <2>3. FirstBreak(mirrored, q) = Flip(FirstBreak(minutes, p))
    BY <1>2, <1>5, <1>6, <1>9, <2>1, <2>2 DEF Flip
  <2> QED
    BY <2>3 DEF mirrored, q
<1> QED
  BY <1>8, <1>9

\* Prices that are turned over compare the other way round.
LEMMA MirrorCompares ==
  ASSUME NEW a \in Int, NEW b \in Int, NEW x, x = -a, NEW y, y = -b
  PROVE  /\ x <= y <=> a >= b
         /\ x >= y <=> a <= b
         /\ x > y <=> a < b
         /\ x < y <=> a > b
         /\ ~(a < b /\ a >= b)
OBVIOUS

LEMMA PairsAreMirrored ==
  ASSUME NEW p \in StoredRows, NEW c \in StoredRows, NEW minutes \in Seq(StoredBars)
  PROVE  MirrorPair(p, c, minutes)
<1> DEFINE q == MirrorBar(p)
           e == MirrorBar(c)
           mirrored == [i \in DOMAIN minutes |-> MirrorBar(minutes[i])]
           there == EvaluatePair(p, c, minutes, "bullish")
           back == EvaluatePair(q, e, mirrored, "bearish")
<1>1. /\ BodyMax(p) \in Int /\ BodyMin(p) \in Int /\ BodyMin(p) <= BodyMax(p)
      /\ BodyMax(q) = -BodyMin(p) /\ BodyMin(q) = -BodyMax(p)
      /\ q.h = -p.l /\ q.l = -p.h /\ p.h \in Int /\ p.l \in Int
      /\ e.h = -c.l /\ e.l = -c.h /\ e.c = -c.c /\ c.h \in Int /\ c.l \in Int /\ c.c \in Int
  BY BodyMirrored
<1>2. FirstBreak(mirrored, q) = Flip(FirstBreak(minutes, p))
  BY BreakMirrored
<1>3. mirrored = <<>> <=> minutes = <<>>
  <2>1. mirrored = <<>> => DOMAIN mirrored = {}
    OBVIOUS
  <2>2. DOMAIN mirrored = DOMAIN minutes
    OBVIOUS
  <2>3. minutes = <<>> => mirrored = <<>>
    OBVIOUS
  <2>4. DOMAIN minutes = {} => minutes = <<>>
    OBVIOUS
  <2> QED
    BY <2>1, <2>2, <2>3, <2>4
<1>4. MirrorPair(p, c, minutes) <=>
        (there.rule # "rule-3-tie" =>
            back.bias = MirrorBias(there.bias) /\ back.rule = there.rule /\ back.carried = there.carried)
  BY DEF MirrorPair
<1> HIDE DEF q, e, mirrored
<1>5. /\ IsInside(q, e) <=> IsInside(p, c)
      /\ IsOutside(q, e) <=> IsOutside(p, c)
      /\ e.c > BodyMax(q) <=> c.c < BodyMin(p)
      /\ e.c < BodyMin(q) <=> c.c > BodyMax(p)
      /\ SweepsLow(q, e) <=> SweepsHigh(p, c)
      /\ SweepsHigh(q, e) <=> SweepsLow(p, c)
      /\ e.c >= BodyMin(q) <=> c.c <= BodyMax(p)
      /\ e.c <= BodyMax(q) <=> c.c >= BodyMin(p)
      /\ ~(c.c < BodyMin(p) /\ c.c > BodyMax(p))
      /\ ~(SweepsLow(p, c) /\ SweepsHigh(p, c))
  <2> DEFINE top == BodyMax(p)
             bottom == BodyMin(p)
  <2>1. /\ top \in Int /\ bottom \in Int /\ bottom <= top
        /\ BodyMax(q) = -bottom /\ BodyMin(q) = -top
    BY <1>1
  <2> HIDE DEF top, bottom
  <2>0. /\ e.h <= q.h <=> c.l >= p.l
        /\ e.l >= q.l <=> c.h <= p.h
        /\ e.h > q.h <=> c.l < p.l
        /\ e.l < q.l <=> c.h > p.h
        /\ ~(c.l < p.l /\ c.l >= p.l)
    <3>1. c.l \in Int /\ p.l \in Int /\ c.h \in Int /\ p.h \in Int
      BY <1>1
    <3>2. e.h = -c.l /\ q.h = -p.l /\ e.l = -c.h /\ q.l = -p.h
      BY <1>1
    <3>3. (e.h <= q.h <=> c.l >= p.l) /\ (e.h > q.h <=> c.l < p.l) /\ ~(c.l < p.l /\ c.l >= p.l)
      BY <3>1, <3>2, MirrorCompares
    <3>4. (e.l >= q.l <=> c.h <= p.h) /\ (e.l < q.l <=> c.h > p.h)
      BY <3>1, <3>2, MirrorCompares
    <3> QED
      BY <3>3, <3>4
  <2>2. (IsInside(q, e) <=> IsInside(p, c)) /\ (IsOutside(q, e) <=> IsOutside(p, c))
    BY <2>0 DEF IsInside, IsOutside
  <2>3. /\ e.c > BodyMax(q) <=> c.c < bottom
        /\ e.c < BodyMin(q) <=> c.c > top
        /\ e.c >= BodyMin(q) <=> c.c <= top
        /\ e.c <= BodyMax(q) <=> c.c >= bottom
        /\ ~(c.c < bottom /\ c.c > top)
    <3>1. e.c = -c.c /\ c.c \in Int
      BY <1>1
    <3> HIDE DEF top, bottom
    <3>2. (e.c > BodyMax(q) <=> c.c < bottom) /\ (e.c <= BodyMax(q) <=> c.c >= bottom)
      BY <2>1, <3>1, MirrorCompares
    <3>3. (e.c < BodyMin(q) <=> c.c > top) /\ (e.c >= BodyMin(q) <=> c.c <= top)
      BY <2>1, <3>1, MirrorCompares
    <3>4. ~(c.c < bottom /\ c.c > top)
      BY <2>1, <3>1
    <3> QED
      BY <3>2, <3>3, <3>4
  <2>4. /\ SweepsLow(q, e) <=> SweepsHigh(p, c)
        /\ SweepsHigh(q, e) <=> SweepsLow(p, c)
        /\ ~(SweepsLow(p, c) /\ SweepsHigh(p, c))
    BY <2>0, <2>3 DEF SweepsLow, SweepsHigh, top, bottom
  <2> QED
    BY <2>2, <2>3, <2>4 DEF top, bottom
<1>6. LET a == RuleThree(p, c, minutes, "bullish")
          b == RuleThree(q, e, mirrored, "bearish")
      IN a.rule # "rule-3-tie" =>
            b.bias = MirrorBias(a.bias) /\ b.rule = a.rule /\ b.carried = a.carried
  <2>1. FirstBreak(minutes, p) \in {"none", "tie", "high-first", "low-first"}
    BY DEF FirstBreak
  <2> QED
    BY <1>2, <1>3, <1>5, <2>1 DEF RuleThree, Flip, Decided, Carried, MirrorBias
<1>7. there.rule # "rule-3-tie" =>
        back.bias = MirrorBias(there.bias) /\ back.rule = there.rule /\ back.carried = there.carried
  BY <1>5, <1>6 DEF EvaluatePair, Decided, Carried, MirrorBias
<1> QED
  BY <1>4, <1>7

LEMMA SessionsAreBars ==
  ASSUME NEW w \in Worlds, NEW x \in DOMAIN w.symbols, NEW d
  PROVE  InSessionBars(Minutes(w.symbols[x], d)) \in Seq(StoredBars)
<1>1. Minutes(w.symbols[x], d) \in Seq(StoredBars)
  <2>1. CASE d \in DOMAIN w.symbols[x].minutes
    BY <2>1, BacktestAssumption DEF Minutes
  <2>2. CASE d \notin DOMAIN w.symbols[x].minutes
    BY <2>2 DEF Minutes
  <2> QED
    BY <2>1, <2>2
<1> QED
  BY <1>1, StampedArePicked DEF InSessionBars

-----------------------------------------------------------------------------
(* Whatever is stored, whatever days are walked and wherever the process   *)
(* died before: every bias in a shard is the decision of the last pair     *)
(* that decided, minutes had a say only where the gates had passed them,   *)
(* and the rules favour no direction.                                      *)
THEOREM BiasesAreWarranted == Spec => []BiasIsWarranted
<1>1. RunInv => BiasIsMirrored
  <2> SUFFICES ASSUME RunInv, NEW x \in DOMAIN world.symbols,
                      NEW d \in DOMAIN world.symbols[x].rows, NEW e \in DOMAIN world.symbols[x].rows
               PROVE  MirrorPair(world.symbols[x].rows[e], world.symbols[x].rows[d],
                                 InSessionBars(Minutes(world.symbols[x], d)))
    BY DEF BiasIsMirrored
  <2>1. world \in Worlds
    BY DEF RunInv, InputsOK
  <2>2. world.symbols[x].rows[d] \in StoredRows /\ world.symbols[x].rows[e] \in StoredRows
    BY <2>1, BacktestAssumption
  <2>3. InSessionBars(Minutes(world.symbols[x], d)) \in Seq(StoredBars)
    BY <2>1, SessionsAreBars
  <2> QED
    BY <2>2, <2>3, PairsAreMirrored
<1>2. ASSUME RunInv, At("record"), NEW r \in ToSet(JustWalked)
      PROVE  MinutesWereGated(r) /\ IsLastDecision(r)
  <2> DEFINE series == BiasMap(Stock, Calendar)
             sessions == proc.sessions
  <2>1. proc.sessions = NonStandardSessions(world)
    BY <1>2 DEF RunInv, ScanOK, Walking, At
  <2>2. r \in ToSet(WalkSymbol(world, Symbol, sessions))
    BY <1>2, <2>1 DEF RunInv, WalkOK, Walking, At, IsWalkedBy, WholeWalk, JustWalked
  <2>3. /\ r.day \notin sessions /\ r.day \in DOMAIN series =>
             r.bias = series[r.day].bias /\ r.rule = series[r.day].rule
        /\ r.day \in sessions \/ r.day \notin DOMAIN series =>
             r.bias = "none" /\ r.rule = "none"
    <3>1. KeepsItsBias(world, Symbol, sessions, r)
      BY <2>2, RowKeepsItsBias
    <3> QED
      BY <3>1, Zenon DEF KeepsItsBias, Stock, Calendar, series
  <2>4. DOMAIN series = BiasDays(Calendar)
        /\ \A d \in BiasDays(Calendar) :
             series[d] = SeriesStep(Stock, TableOf(Stock), Calendar, BiasDays(Calendar), series, d)
    BY BiasMapUnfolds
  <2>5. BiasDays(Calendar) \cap sessions = {}
    BY DEF BiasDays, Calendar
  <2> HIDE DEF series, sessions
  <2>6. MinutesWereGated(r)
    <3> SUFFICES ASSUME r.rule \in {"rule-3-outside-bar", "rule-3-tie"}
                 PROVE  /\ Refusal(GateDay(Stock, Before(Calendar, r.day))) = "none"
                        /\ \A b \in ToSet(InSessionBars(Minutes(Stock, Before(Calendar, r.day)))) : Sane(b)
      BY DEF MinutesWereGated, PairOf
    <3>1. r.day \in BiasDays(Calendar) /\ series[r.day].rule \in {"rule-3-outside-bar", "rule-3-tie"}
      BY <2>3, <2>4
    <3>2. \E last : series[r.day] = BiasFor(Stock, TableOf(Stock), Before(Calendar, r.day),
                                            Before(Calendar, Before(Calendar, r.day)), last)
      BY <2>4, <3>1 DEF SeriesStep
    <3> QED
      BY <3>1, <3>2, DayCarriesOrDecides
  <2>7. \A d : Decision(d) = DecidedOn(Stock, Calendar, d)
    BY DEF Decision, DecidedOn, DecisionOf, PairOf
  <2>8. IsLastDecision(r)
    <3> SUFFICES ASSUME r.day \in BiasDays(Calendar)
                 PROVE  r.bias = IF DecidingDays(Stock, Calendar, r.day) = {} THEN "none"
                                 ELSE DecidedOn(Stock, Calendar, Max(DecidingDays(Stock, Calendar, r.day)))
      BY <2>7 DEF IsLastDecision, DecidingDays
    <3>1. r.bias = series[r.day].bias
      BY <2>3, <2>4, <2>5
    <3> QED
      BY <3>1, SeriesHoldsTheLastDecision DEF series
  <2> QED
    BY <2>6, <2>8
<1>3. RunInv => BiasIsWarranted
  BY <1>1, <1>2 DEF BiasIsWarranted
<1> QED
  BY RunAlways, <1>3, PTL

-----------------------------------------------------------------------------
(* Sums, number by number. *)

IsSum(f, n, sum) == sum = [i \in 0 .. n |-> IF i = 0 THEN 0 ELSE sum[i - 1] + f[i]]

LEMMA SumExists ==
  ASSUME NEW f, NEW n \in Nat
  PROVE  \E sum : IsSum(f, n, sum)
<1> DEFINE T == {i \in 1 .. n : ~\E sum : IsSum(f, i, sum)}
<1>1. IsSum(f, 0, [i \in 0 .. 0 |-> 0])
  BY DEF IsSum
<1>2. ASSUME T # {} PROVE FALSE
  <2>1. PICK m \in T : \A i \in T : m <= i
    <3> HIDE DEF T
    <3>1. T \subseteq 1 .. n
      BY DEF T
    <3> QED
      BY <1>2, <3>1, HasLeast
  <2>2. m \in 1 .. n /\ m - 1 \in 0 .. n
    BY <2>1
  <2>3. \E sum : IsSum(f, m - 1, sum)
    BY <1>1, <2>1, <2>2
  <2>4. PICK sum : IsSum(f, m - 1, sum)
    BY <2>3
  <2> DEFINE more == [i \in 0 .. m |-> IF i = m THEN sum[m - 1] + f[m] ELSE sum[i]]
  <2>5. ASSUME NEW i \in 0 .. m PROVE more[i] = IF i = 0 THEN 0 ELSE more[i - 1] + f[i]
    <3>1. i # 0 => more[i - 1] = sum[i - 1]
      BY <2>2
    <3>2. i # m => sum[i] = IF i = 0 THEN 0 ELSE sum[i - 1] + f[i]
      BY <2>2, <2>4 DEF IsSum
    <3>3. i = m => more[i] = sum[i - 1] + f[i] /\ i # 0
      BY <2>2
    <3>4. i # m => more[i] = sum[i]
      OBVIOUS
    <3> QED
      BY <3>1, <3>2, <3>3, <3>4
  <2>6. more = [i \in 0 .. m |-> IF i = 0 THEN 0 ELSE more[i - 1] + f[i]]
    BY <2>5
  <2>7. IsSum(f, m, more)
    <3> HIDE DEF more
    <3> QED
      BY <2>6 DEF IsSum
  <2> QED
    BY <2>1, <2>7
<1> QED
  BY <1>1, <1>2

LEMMA SumIsOne ==
  ASSUME NEW f, NEW n \in Nat
  PROVE  \E sum : IsSum(f, n, sum) /\ SumTo(f, n) = sum[n]
<1> DEFINE sum == CHOOSE g : g = [i \in 0 .. n |-> IF i = 0 THEN 0 ELSE g[i - 1] + f[i]]
<1>1. \E g : g = [i \in 0 .. n |-> IF i = 0 THEN 0 ELSE g[i - 1] + f[i]]
  <2>1. PICK g : IsSum(f, n, g)
    BY SumExists
  <2> QED
    BY <2>1, Zenon DEF IsSum
<1>2. sum = [i \in 0 .. n |-> IF i = 0 THEN 0 ELSE sum[i - 1] + f[i]]
  BY <1>1, Zenon
<1>3. SumTo(f, n) = sum[n]
  BY Zenon DEF SumTo
<1> HIDE DEF sum
<1> QED
  BY <1>2, <1>3, Zenon DEF IsSum

Agree(f, g, k) == \A i \in 1 .. k : f[i] = g[i]

(* The sums of two sequences that agree are the same, as far as they agree. *)
LEMMA SumsAgree ==
  ASSUME NEW f, NEW g, NEW n \in Nat, NEW m \in Nat, NEW k \in Nat, k <= n, k <= m,
         NEW a, NEW b, IsSum(f, n, a), IsSum(g, m, b), Agree(f, g, k)
  PROVE  a[k] = b[k]
<1> DEFINE T == {i \in 1 .. k : a[i] # b[i]}
<1>1. a[0] = 0 /\ b[0] = 0
  BY DEF IsSum
<1>2. ASSUME T # {} PROVE FALSE
  <2>1. PICK x \in T : \A i \in T : x <= i
    <3> HIDE DEF T
    <3>1. T \subseteq 1 .. k
      BY DEF T
    <3> QED
      BY <1>2, <3>1, HasLeast
  <2>2. x \in 1 .. k /\ x - 1 \in 0 .. k /\ a[x] # b[x]
    BY <2>1
  <2>3. a[x - 1] = b[x - 1]
    BY <1>1, <2>1, <2>2
  <2>4. a[x] = a[x - 1] + f[x] /\ b[x] = b[x - 1] + g[x]
    BY <2>2 DEF IsSum
  <2>5. f[x] = g[x]
    BY <2>2 DEF Agree
  <2> QED
    BY <2>2, <2>3, <2>4, <2>5
<1> QED
  BY <1>1, <1>2

LEMMA SumSteps ==
  ASSUME NEW f, NEW n \in Nat
  PROVE  /\ SumTo(f, 0) = 0
         /\ n # 0 => SumTo(f, n) = SumTo(f, n - 1) + f[n]
<1>1. PICK none : IsSum(f, 0, none) /\ SumTo(f, 0) = none[0]
  BY SumIsOne
<1>2. SumTo(f, 0) = 0
  BY <1>1 DEF IsSum
<1>3. ASSUME n # 0 PROVE SumTo(f, n) = SumTo(f, n - 1) + f[n]
  <2>1. n - 1 \in Nat /\ n - 1 <= n
    BY <1>3
  <2>2. PICK sum : IsSum(f, n, sum) /\ SumTo(f, n) = sum[n]
    BY SumIsOne
  <2>3. PICK less : IsSum(f, n - 1, less) /\ SumTo(f, n - 1) = less[n - 1]
    BY <2>1, SumIsOne
  <2>4. sum[n - 1] = less[n - 1]
    <3>1. Agree(f, f, n - 1) /\ n - 1 <= n - 1
      BY <2>1 DEF Agree
    <3> QED
      BY <2>1, <2>2, <2>3, <3>1, SumsAgree
  <2>5. sum[n] = sum[n - 1] + f[n]
    BY <1>3, <2>2 DEF IsSum
  <2> QED
    BY <2>2, <2>3, <2>4, <2>5
<1> QED
  BY <1>2, <1>3

LEMMA SumSame ==
  ASSUME NEW f, NEW g, NEW n \in Nat, Agree(f, g, n)
  PROVE  SumTo(f, n) = SumTo(g, n)
<1>1. PICK a : IsSum(f, n, a) /\ SumTo(f, n) = a[n]
  BY SumIsOne
<1>2. PICK b : IsSum(g, n, b) /\ SumTo(g, n) = b[n]
  BY SumIsOne
<1>3. n <= n
  OBVIOUS
<1> QED
  BY <1>1, <1>2, <1>3, SumsAgree

(* A sum that grows, number by number, as another sequence does. *)
LEMMA SumFollows ==
  ASSUME NEW f, NEW n \in Nat, NEW level, level[0] = 0,
         \A i \in 1 .. n : level[i] = level[i - 1] + f[i]
  PROVE  SumTo(f, n) = level[n]
<1> DEFINE T == {i \in 1 .. n : SumTo(f, i) # level[i]}
<1>1. SumTo(f, 0) = level[0]
  BY SumSteps
<1>2. ASSUME T # {} PROVE FALSE
  <2>1. PICK x \in T : \A i \in T : x <= i
    <3> HIDE DEF T
    <3>1. T \subseteq 1 .. n
      BY DEF T
    <3> QED
      BY <1>2, <3>1, HasLeast
  <2>2. x \in 1 .. n /\ x - 1 \in 0 .. n /\ SumTo(f, x) # level[x]
    BY <2>1
  <2>3. SumTo(f, x - 1) = level[x - 1]
    BY <1>1, <2>1, <2>2
  <2>4. SumTo(f, x) = SumTo(f, x - 1) + f[x]
    BY <2>2, SumSteps
  <2> QED
    BY <2>2, <2>3, <2>4
<1> QED
  BY <1>1, <1>2

LEMMA SumIsInt ==
  ASSUME NEW f, NEW n \in Nat, \A i \in 1 .. n : f[i] \in Int
  PROVE  \A i \in 0 .. n : SumTo(f, i) \in Int
<1> DEFINE T == {i \in 1 .. n : SumTo(f, i) \notin Int}
<1>1. SumTo(f, 0) = 0
  BY SumSteps
<1>2. ASSUME T # {} PROVE FALSE
  <2>1. PICK x \in T : \A i \in T : x <= i
    <3> HIDE DEF T
    <3>1. T \subseteq 1 .. n
      BY DEF T
    <3> QED
      BY <1>2, <3>1, HasLeast
  <2>2. x \in 1 .. n /\ x - 1 \in 0 .. n /\ SumTo(f, x) \notin Int
    BY <2>1
  <2>3. SumTo(f, x - 1) \in Int
    BY <1>1, <2>1, <2>2
  <2>4. SumTo(f, x) = SumTo(f, x - 1) + f[x]
    BY <2>2, SumSteps
  <2> QED
    BY <2>2, <2>3, <2>4
<1> QED
  BY <1>1, <1>2

(* The least number of rows that hold that many ticks. *)
LEMMA CeilDivIs ==
  ASSUME NEW n \in Nat \ {0}, NEW d \in Nat \ {0}
  PROVE  LET k == CeilDiv(n, d)
         IN /\ k \in Nat \ {0} /\ d * (k - 1) < n /\ n <= d * k
<1> DEFINE k == (n + d - 1) \div d
           m == n + d - 1
<1>1. m \in Nat /\ m >= d
  OBVIOUS
<1>2. k \in Nat /\ k >= 1 /\ d * k <= m /\ m < d * k + d
  <2>1. k = m \div d
    OBVIOUS
  <2> HIDE DEF m, k
  <2> QED
    BY <1>1, <2>1, DivisionIs, QuotientOfNat
<1> HIDE DEF k
<1>3. d * (k - 1) = d * k - d /\ d * k \in Int
  BY <1>2, Distributes
<1> QED
  BY <1>2, <1>3 DEF k, CeilDiv

AddUp(f, g, h, n) == \A i \in 1 .. n : f[i] \in Int /\ g[i] \in Int /\ h[i] = f[i] + g[i]

LEMMA SumAdds ==
  ASSUME NEW f, NEW g, NEW h, NEW n \in Nat, AddUp(f, g, h, n)
  PROVE  SumTo(h, n) = SumTo(f, n) + SumTo(g, n)
<1> DEFINE level == [i \in 0 .. n |-> SumTo(f, i) + SumTo(g, i)]
<1>1. \A i \in 0 .. n : SumTo(f, i) \in Int /\ SumTo(g, i) \in Int
  BY SumIsInt DEF AddUp
<1>2. level[0] = 0
  BY SumSteps
<1>3. ASSUME NEW i \in 1 .. n PROVE level[i] = level[i - 1] + h[i]
  <2>1. i - 1 \in 0 .. n /\ i \in Nat /\ i # 0
    OBVIOUS
  <2>2. SumTo(f, i) = SumTo(f, i - 1) + f[i] /\ SumTo(g, i) = SumTo(g, i - 1) + g[i]
    BY <2>1, SumSteps
  <2>3. f[i] \in Int /\ g[i] \in Int /\ h[i] = f[i] + g[i]
    BY DEF AddUp
  <2> QED
    BY <1>1, <2>1, <2>2, <2>3
<1>4. level[n] = SumTo(f, n) + SumTo(g, n)
  OBVIOUS
<1> HIDE DEF level
<1> QED
  BY <1>2, <1>3, <1>4, SumFollows

LEMMA SumOfOne ==
  ASSUME NEW n \in Nat, NEW f, NEW at \in 1 .. n, NEW c \in Int,
         \A i \in 1 .. n : f[i] = IF i = at THEN c ELSE 0
  PROVE  SumTo(f, n) = c
<1> DEFINE level == [i \in 0 .. n |-> IF at <= i THEN c ELSE 0]
<1>1. level[0] = 0 /\ level[n] = c
  OBVIOUS
<1>2. \A i \in 1 .. n : level[i] = level[i - 1] + f[i]
  OBVIOUS
<1> HIDE DEF level
<1> QED
  BY <1>1, <1>2, SumFollows

(* The levels between which a window trades. *)
LEMMA BarsAreBetween ==
  ASSUME NEW bars \in Seq(StoredBars), bars # <<>>
  PROVE  /\ High(bars) \in Int /\ Low(bars) \in Int
         /\ \A i \in DOMAIN bars : bars[i].h <= High(bars) /\ Low(bars) <= bars[i].l
<1> DEFINE n == Len(bars)
           up == [i \in 1 .. n |-> bars[i].h]
           down == [i \in 1 .. n |-> -bars[i].l]
           highs == {bars[i].h : i \in DOMAIN bars}
           lows == {bars[i].l : i \in DOMAIN bars}
<1>1. n \in Nat \ {0} /\ DOMAIN bars = 1 .. n
  OBVIOUS
<1>2. \A i \in 1 .. n : bars[i].h \in Int /\ bars[i].l \in Int
  <2>1. \A i \in 1 .. n : bars[i] \in StoredBars
    OBVIOUS
  <2> QED
    BY <2>1 DEF StoredBars
<1>3. PICK i \in 1 .. n : \A j \in 1 .. n : up[j] <= up[i]
  <2>1. \A k \in 1 .. n : up[k] \in Int
    BY <1>2
  <2> HIDE DEF up, n
  <2> QED
    BY <1>1, <2>1, OneIsGreatest
<1>4. PICK k \in 1 .. n : \A j \in 1 .. n : down[j] <= down[k]
  <2>1. \A j \in 1 .. n : down[j] \in Int
    BY <1>2
  <2> HIDE DEF down, n
  <2> QED
    BY <1>1, <2>1, OneIsGreatest
<1>5. bars[i].h \in highs /\ \A x \in highs : x <= bars[i].h
  BY <1>1, <1>3
<1>6. bars[k].l \in lows /\ \A x \in lows : bars[k].l <= x
  <2>1. \A j \in 1 .. n : -bars[j].l <= -bars[k].l
    BY <1>4
  <2>2. \A j \in 1 .. n : bars[k].l <= bars[j].l
    BY <1>2, <2>1
  <2> QED
    BY <1>1, <2>2
<1>7. highs \subseteq Int /\ lows \subseteq Int
  BY <1>1, <1>2
<1>8. High(bars) \in highs /\ \A x \in highs : x <= High(bars)
  <2>1. High(bars) = Max(highs)
    BY DEF High
  <2>2. \A x \in highs : bars[i].h >= x
    BY <1>5, <1>7
  <2> HIDE DEF highs
  <2>3. Max(highs) \in highs /\ \A x \in highs : Max(highs) >= x
    BY <1>5, <2>2, Zenon DEF Max
  <2> QED
    BY <1>7, <2>1, <2>3
<1>9. Low(bars) \in lows /\ \A x \in lows : Low(bars) <= x
  <2>1. Low(bars) = Min(lows)
    BY DEF Low
  <2> HIDE DEF lows
  <2>3. Min(lows) \in lows /\ \A x \in lows : Min(lows) <= x
    BY <1>6, Zenon DEF Min
  <2> QED
    BY <2>1, <2>3
<1> QED
  BY <1>7, <1>8, <1>9

-----------------------------------------------------------------------------
(* The rows of a profile stand on one another. *)

Stacked(rows, n, bottom, top) ==
    /\ n \in Nat \ {0} /\ DOMAIN rows = 1 .. n /\ Len(rows) = n
    /\ rows[1].lo = bottom /\ rows[1].hi \in Int /\ bottom < rows[1].hi
    /\ \A i \in 1 .. n : /\ rows[i].lo \in Int /\ rows[i].hi \in Int
                          /\ rows[i].alloc \in Int /\ rows[i].lo <= rows[i].alloc
    /\ \A i \in 1 .. n : i # n => rows[i + 1].lo = rows[i].alloc
    /\ top <= rows[n].alloc

LEMMA HalfEvenIsInt ==
  ASSUME NEW n \in Int, NEW d \in Nat \ {0}
  PROVE  HalfEven(n, d) \in Int
  BY DivisionIs DEF HalfEven

LEMMA RowsAreStacked ==
  ASSUME NEW top \in Int, NEW bottom \in Int, bottom <= top, NEW tick \in Nat \ {0}
  PROVE  LET rows == BuildRows(top, bottom, tick) IN Stacked(rows, Len(rows), bottom, top)
<1> DEFINE ticks == TotalTicks(top, bottom, tick)
           per == TicksPerRow(ticks)
           n == CeilDiv(ticks, per)
           low(i) == bottom + (i - 1) * per * tick
           hi(i) == bottom + Min({i * per, ticks}) * tick
           rows == [i \in 1 .. n |->
                      [lo |-> low(i), hi |-> hi(i),
                       alloc |-> IF i = n THEN Larger(hi(i), top) ELSE hi(i)]]
<1>1. ticks \in Nat \ {0}
  <2>1. top - bottom \in Int
    OBVIOUS
  <2> QED
    BY <2>1, HalfEvenIsInt DEF TotalTicks, Larger
<1>2. BuildRows(top, bottom, tick) = rows
  BY DEF BuildRows, RowsOf
<1> HIDE DEF ticks
<1>3. per \in Nat \ {0}
  <2>1. ticks \div RowSize \in Nat
    BY <1>1, CandlesAssumption, QuotientOfNat
  <2>2. Larger(1, ticks \div RowSize) \in Nat \ {0}
    BY <2>1 DEF Larger
  <2>3. CeilDiv(ticks, RowSize) \in Nat \ {0}
    BY <1>1, CandlesAssumption, CeilDivIs
  <2> QED
    BY <2>2, <2>3 DEF TicksPerRow
<1> HIDE DEF per
<1>4. n \in Nat \ {0} /\ per * (n - 1) < ticks /\ ticks <= per * n
  BY <1>1, <1>3, CeilDivIs
<1> HIDE DEF n
<1>5. ASSUME NEW i \in 1 .. n
      PROVE  /\ low(i) \in Int /\ hi(i) \in Int
             /\ i # n => hi(i) = low(i + 1)
             /\ low(i) < hi(i)
  <2>1. i * per \in Int /\ (i - 1) * per \in Int /\ (n - 1) * per = per * (n - 1) /\ (n - 1) * per \in Int
    BY <1>3, <1>4, Distributes
  <2>2. Min({i * per, ticks}) = IF i * per <= ticks THEN i * per ELSE ticks
    BY <1>1, <2>1, LeastOfTwo
  <2>3. i # n => i * per <= (n - 1) * per
    BY <1>3, <1>4, TimesGrows
  <2>4. (i - 1) * per <= (n - 1) * per /\ (i - 1) * per < i * per
    <3>1. (i - 1) * per <= (n - 1) * per
      BY <1>3, <1>4, TimesGrows
    <3>2. (i - 1) * per = i * per - per
      BY <1>3, Distributes, SMT
    <3> QED
      BY <1>3, <2>1, <3>1, <3>2
  <2> DEFINE a == (i - 1) * per
             b == Min({i * per, ticks})
  <2>5. a \in Int /\ b \in Int /\ a < b /\ (i # n => b = i * per)
    BY <1>1, <1>4, <2>1, <2>2, <2>3, <2>4
  <2>6. low(i) = bottom + a * tick /\ hi(i) = bottom + b * tick
    OBVIOUS
  <2>7. i # n => low(i + 1) = bottom + (i * per) * tick
    <3>1. (i + 1) - 1 = i
      OBVIOUS
    <3> QED
      BY <3>1
  <2> HIDE DEF a, b, low, hi
  <2>8. a * tick \in Int /\ b * tick \in Int /\ a * tick < b * tick
    <3>1. (b - a) * tick >= 1
      BY <2>5, SMT
    <3>2. (b - a) * tick = b * tick - a * tick /\ a * tick \in Int /\ b * tick \in Int
      BY <2>5, SMT
    <3> QED
      BY <3>1, <3>2
  <2> QED
    BY <2>5, <2>6, <2>7, <2>8
<1>6. rows[1].lo = bottom /\ rows[1].hi = hi(1) /\ low(1) = bottom
  <2>1. 1 \in 1 .. n
    BY <1>4
  <2>2. (1 - 1) * per * tick = 0
    BY <1>3, SMT
  <2> QED
    BY <2>1, <2>2
<1>7. Len(rows) = n /\ DOMAIN rows = 1 .. n
  BY <1>4
<1>8. ASSUME NEW i \in 1 .. n
      PROVE  /\ rows[i].lo = low(i) /\ rows[i].hi = hi(i)
             /\ rows[i].alloc = IF i = n THEN Larger(hi(i), top) ELSE hi(i)
             /\ i # n => rows[i + 1].lo = low(i + 1)
  <2>1. i # n => i + 1 \in 1 .. n
    BY <1>4
  <2> HIDE DEF low, hi
  <2> QED
    BY <2>1
<1> HIDE DEF rows, low, hi
<1>9. 1 \in 1 .. n /\ n \in 1 .. n
  BY <1>4
<1>10. ASSUME NEW i \in 1 .. n
       PROVE  /\ rows[i].lo \in Int /\ rows[i].hi \in Int
              /\ rows[i].alloc \in Int /\ rows[i].lo <= rows[i].alloc
              /\ i # n => rows[i + 1].lo = rows[i].alloc
              /\ i = n => top <= rows[i].alloc
  <2>1. /\ rows[i].lo = low(i) /\ low(i) \in Int /\ hi(i) \in Int /\ low(i) < hi(i)
        /\ rows[i].hi = hi(i)
        /\ i # n => rows[i].alloc = hi(i) /\ rows[i + 1].lo = hi(i)
    BY <1>5, <1>8
  <2>2. i = n => /\ rows[i].alloc \in Int /\ hi(i) <= rows[i].alloc
                 /\ top <= rows[i].alloc
    BY <1>8, <2>1 DEF Larger
  <2> QED
    BY <2>1, <2>2
<1>11. rows[1].hi \in Int /\ bottom < rows[1].hi
  BY <1>5, <1>6, <1>9
<1>12. Stacked(rows, n, bottom, top)
  BY <1>4, <1>6, <1>7, <1>9, <1>10, <1>11 DEF Stacked
<1> QED
  BY <1>2, <1>7, <1>12

(* What of a bar lies below the upper edge of row i. *)
Covered(b, rows, i) == IF i = 0 THEN 0 ELSE Larger(0, Min({b.h, rows[i].alloc}) - b.l)

LEMMA RowCoversItsPart ==
  ASSUME NEW rows, NEW n, NEW bottom \in Int, NEW top \in Int, Stacked(rows, n, bottom, top),
         NEW b \in StoredBars, bottom <= b.l, b.l <= b.h, b.h <= top, NEW i \in 1 .. n
  PROVE  /\ Overlap(b, rows[i]) \in Int /\ Covered(b, rows, i - 1) \in Int
         /\ Covered(b, rows, i) = Covered(b, rows, i - 1) + Overlap(b, rows[i])
         /\ i = n => Covered(b, rows, i) = b.h - b.l
<1>1. n \in Nat \ {0} /\ b.h \in Int /\ b.l \in Int
  BY DEF Stacked, StoredBars
<1> DEFINE lo == rows[i].lo
           up == rows[i].alloc
<1>2. lo \in Int /\ up \in Int /\ lo <= up
  BY DEF Stacked
<1>3. Overlap(b, rows[i]) = Larger(0, (IF b.h <= up THEN b.h ELSE up) - Larger(b.l, lo))
  BY <1>1, <1>2, LeastOfTwo DEF Overlap
<1>4. Covered(b, rows, i) = Larger(0, (IF b.h <= up THEN b.h ELSE up) - b.l)
  BY <1>1, <1>2, LeastOfTwo DEF Covered
<1>5. i = n => top <= up
  BY DEF Stacked
<1>6. CASE i = 1
  <2>1. lo = bottom /\ Covered(b, rows, i - 1) = 0
    BY <1>6 DEF Stacked, Covered
  <2> HIDE DEF lo, up
  <2> QED
    BY <1>1, <1>2, <1>3, <1>4, <1>5, <2>1 DEF Larger
<1>7. CASE i # 1
  <2>1. i - 1 \in 1 .. n /\ i - 1 # n /\ (i - 1) + 1 = i /\ i - 1 # 0
    BY <1>1, <1>7
  <2>2. rows[i - 1].alloc = lo
    <3>1. rows[(i - 1) + 1].lo = rows[i - 1].alloc
      BY <2>1 DEF Stacked
    <3> QED
      BY <2>1, <3>1
  <2>3. Covered(b, rows, i - 1) = Larger(0, (IF b.h <= lo THEN b.h ELSE lo) - b.l)
    BY <1>1, <1>2, <2>1, <2>2, LeastOfTwo DEF Covered
  <2> HIDE DEF lo, up
  <2> QED
    BY <1>1, <1>2, <1>3, <1>4, <1>5, <2>3 DEF Larger
<1> QED
  BY <1>6, <1>7

Divides(a, d) == \E q \in Int : d = a * q

LEMMA BarIsConserved ==
  ASSUME NEW rows, NEW n, NEW bottom \in Int, NEW top \in Int, Stacked(rows, n, bottom, top),
         NEW b \in StoredBars, bottom <= b.l, b.l <= b.h, b.h <= top,
         NEW d \in Int, b.l < b.h => Divides(b.h - b.l, d)
  PROVE  /\ \A i \in 1 .. n : Share(b, rows, i, d) \in Int
         /\ SumTo([i \in 1 .. n |-> Share(b, rows, i, d)], n) = b.v * d
<1> DEFINE shares == [i \in 1 .. n |-> Share(b, rows, i, d)]
<1>1. n \in Nat \ {0} /\ b.h \in Int /\ b.l \in Int /\ b.v \in Int
  BY DEF Stacked, StoredBars
<1>2. CASE b.h = b.l
  <2> DEFINE at == ContainingRow(rows, b.l)
  <2>1. at \in 1 .. n
    <3> DEFINE rise == b.l - rows[1].lo
               height == rows[1].hi - rows[1].lo
               k == rise \div height
    <3>1. rise \in Nat /\ height \in Nat \ {0} /\ Len(rows) = n
      BY <1>1 DEF Stacked
    <3>2. k \in Nat
      <4> HIDE DEF rise, height
      <4> QED
        BY <3>1, QuotientOfNat
    <3>3. at = Min({k + 1, n})
      BY <3>1 DEF ContainingRow
    <3> HIDE DEF k, at
    <3> QED
      BY <1>1, <3>2, <3>3, LeastOfTwo
  <2>2. b.v * d \in Int
    BY <1>1, Distributes
  <2>3. \A i \in 1 .. n : Share(b, rows, i, d) = IF i = at THEN b.v * d ELSE 0
    BY <1>2 DEF Share
  <2> HIDE DEF at
  <2>4. \A i \in 1 .. n : shares[i] = IF i = at THEN b.v * d ELSE 0
    BY <2>3
  <2>5. SumTo(shares, n) = b.v * d
    <3> HIDE DEF shares
    <3> QED
      BY <1>1, <2>1, <2>2, <2>4, SumOfOne
  <2> QED
    BY <2>2, <2>3, <2>5
<1>3. CASE b.h # b.l
  <2> DEFINE w == b.h - b.l
             q == d \div w
             v == b.v
             level == [i \in 0 .. n |-> (v * Covered(b, rows, i)) * q]
  <2>1. w \in Nat \ {0} /\ b.l < b.h
    BY <1>1, <1>3
  <2>2. q \in Int /\ d = w * q
    <3>1. PICK x \in Int : d = w * x
      BY <2>1 DEF Divides
    <3> HIDE DEF w
    <3>2. (w * x) \div w = x
      BY <2>1, QuotientIs
    <3> QED
      BY <3>1, <3>2
  <2>3. ASSUME NEW i \in 1 .. n
        PROVE  /\ Share(b, rows, i, d) = (v * Overlap(b, rows[i])) * q
               /\ Share(b, rows, i, d) \in Int
               /\ level[i] = level[i - 1] + Share(b, rows, i, d)
    <3>1. Share(b, rows, i, d) = (v * Overlap(b, rows[i])) * q
      BY <1>3 DEF Share
    <3>2. /\ Overlap(b, rows[i]) \in Int /\ Covered(b, rows, i - 1) \in Int
          /\ Covered(b, rows, i) = Covered(b, rows, i - 1) + Overlap(b, rows[i])
      BY RowCoversItsPart
    <3>3. i - 1 \in 0 .. n /\ i \in 0 .. n
      BY <1>1
    <3>4. level[i] = (v * Covered(b, rows, i)) * q /\ level[i - 1] = (v * Covered(b, rows, i - 1)) * q
      BY <3>3
    <3> DEFINE x == Covered(b, rows, i - 1)
               y == Overlap(b, rows[i])
    <3>5. v \in Int /\ x \in Int /\ y \in Int /\ Covered(b, rows, i) = x + y
      BY <1>1, <3>2
    <3> HIDE DEF v, x, y, q, level
    <3>6. v * (x + y) = v * x + v * y /\ v * x \in Int /\ v * y \in Int
      BY <3>5, Distributes
    <3>7. (v * x + v * y) * q = (v * x) * q + (v * y) * q /\ (v * y) * q \in Int
      BY <2>2, <3>6, Distributes
    <3>8. Share(b, rows, i, d) = (v * y) * q /\ level[i - 1] = (v * x) * q /\ level[i] = (v * (x + y)) * q
      BY <3>1, <3>4, <3>5 DEF x, y
    <3> QED
      BY <3>1, <3>6, <3>7, <3>8
  <2>4. level[0] = 0
    <3>1. level[0] = (v * 0) * q
      BY <1>1 DEF Covered
    <3>2. v \in Int
      BY <1>1
    <3> HIDE DEF v, q, level
    <3>3. v * 0 = 0 /\ 0 * q = 0
      BY <2>2, <3>2, SMT
    <3> QED
      BY <3>1, <3>3
  <2>5. level[n] = b.v * d
    <3>1. n \in 1 .. n
      BY <1>1
    <3>2. Covered(b, rows, n) = w
      BY <3>1, RowCoversItsPart
    <3>3. level[n] = (v * w) * q
      BY <1>1, <3>2
    <3>4. v \in Int
      BY <1>1
    <3> HIDE DEF w, q, level
    <3>5. v * (w * q) = (v * w) * q
      BY <2>1, <2>2, <3>4, Distributes
    <3> QED
      BY <2>2, <3>3, <3>5
  <2>6. \A i \in 1 .. n : level[i] = level[i - 1] + shares[i]
    <3> HIDE DEF level
    <3> QED
      BY <2>3
  <2>7. SumTo(shares, n) = level[n]
    <3> HIDE DEF level, shares
    <3> QED
      BY <1>1, <2>4, <2>6, SumFollows
  <2> HIDE DEF level
  <2> QED
    BY <2>3, <2>5, <2>7
<1> QED
  BY <1>2, <1>3

(* The denominator, range by range. *)
DivisorStep(bars, f, i) == IF i = 0 THEN 1 ELSE Multiple(f[i - 1], bars[i].h - bars[i].l)

IsDivisor(bars, n, f) == f = [i \in 0 .. n |-> DivisorStep(bars, f, i)]

LEMMA DivisorExists ==
  ASSUME NEW bars, NEW n \in Nat
  PROVE  \E f : IsDivisor(bars, n, f)
<1> DEFINE T == {i \in 1 .. n : ~\E f : IsDivisor(bars, i, f)}
<1>1. \E f : IsDivisor(bars, 0, f)
  <2>1. IsDivisor(bars, 0, [i \in 0 .. 0 |-> 1])
    BY DEF IsDivisor, DivisorStep
  <2> QED
    BY <2>1
<1>2. ASSUME T # {} PROVE FALSE
  <2>1. PICK m \in T : \A i \in T : m <= i
    <3> HIDE DEF T
    <3>1. T \subseteq 1 .. n
      BY DEF T
    <3> QED
      BY <1>2, <3>1, HasLeast
  <2>2. m \in 1 .. n /\ m - 1 \in 0 .. n
    BY <2>1
  <2>3. \E f : IsDivisor(bars, m - 1, f)
    BY <1>1, <2>1, <2>2
  <2>4. PICK f : IsDivisor(bars, m - 1, f)
    BY <2>3
  <2> DEFINE more == [i \in 0 .. m |-> IF i = m THEN DivisorStep(bars, f, m) ELSE f[i]]
  <2>5. ASSUME NEW i \in 0 .. m PROVE more[i] = DivisorStep(bars, more, i)
    <3>1. i # 0 => more[i - 1] = f[i - 1]
      BY <2>2
    <3>2. DivisorStep(bars, more, i) = DivisorStep(bars, f, i)
      BY <3>1 DEF DivisorStep
    <3>3. i # m => f[i] = DivisorStep(bars, f, i)
      BY <2>2, <2>4 DEF IsDivisor
    <3> QED
      BY <3>2, <3>3
  <2>6. more = [i \in 0 .. m |-> DivisorStep(bars, more, i)]
    BY <2>5
  <2>7. IsDivisor(bars, m, more)
    <3> HIDE DEF more
    <3> QED
      BY <2>6 DEF IsDivisor
  <2> QED
    BY <2>1, <2>7
<1> QED
  BY <1>1, <1>2

LEMMA DenominatorIs ==
  ASSUME NEW bars \in Seq(StoredBars)
  PROVE  \E f : IsDivisor(bars, Len(bars), f) /\ Denominator(bars) = f[Len(bars)]
<1> DEFINE f == CHOOSE g : g = [i \in 0 .. Len(bars) |->
                                  IF i = 0 THEN 1 ELSE Multiple(g[i - 1], bars[i].h - bars[i].l)]
<1>1. \E g : g = [i \in 0 .. Len(bars) |->
                    IF i = 0 THEN 1 ELSE Multiple(g[i - 1], bars[i].h - bars[i].l)]
  <2>1. PICK g : IsDivisor(bars, Len(bars), g)
    BY DivisorExists
  <2> QED
    BY <2>1, Zenon DEF IsDivisor, DivisorStep
<1>2. f = [i \in 0 .. Len(bars) |-> IF i = 0 THEN 1 ELSE Multiple(f[i - 1], bars[i].h - bars[i].l)]
  BY <1>1, Zenon
<1>3. Denominator(bars) = f[Len(bars)]
  BY Zenon DEF Denominator
<1> HIDE DEF f
<1> QED
  BY <1>2, <1>3, Zenon DEF IsDivisor, DivisorStep

LEMMA MultipleIsDivided ==
  ASSUME NEW d \in Int, NEW r \in Int
  PROVE  /\ Multiple(d, r) \in Int
         /\ r > 0 => Divides(r, Multiple(d, r))
         /\ \A a \in Int : Divides(a, d) => Divides(a, Multiple(d, r))
<1>1. CASE r <= 0
  BY <1>1 DEF Multiple
<1>2. CASE r > 0 /\ d % r = 0
  <2>1. d = r * (d \div r) /\ d \div r \in Int
    BY <1>2, DivisionIs
  <2>2. Multiple(d, r) = d
    BY <1>2 DEF Multiple
  <2> QED
    BY <2>1, <2>2 DEF Divides
<1>3. CASE r > 0 /\ d % r # 0
  <2>1. Multiple(d, r) = d * r
    BY <1>3 DEF Multiple
  <2>2. d * r \in Int /\ d * r = r * d
    BY Distributes
  <2>3. ASSUME NEW a \in Int, Divides(a, d) PROVE Divides(a, d * r)
    <3>1. PICK q \in Int : d = a * q
      BY <2>3 DEF Divides
    <3>2. (a * q) * r = a * (q * r) /\ q * r \in Int
      BY Distributes
    <3> QED
      BY <3>1, <3>2 DEF Divides
  <2>4. Divides(r, d * r)
    BY <2>2 DEF Divides
  <2> QED
    BY <2>1, <2>2, <2>3, <2>4
<1> QED
  BY <1>1, <1>2, <1>3

LEMMA RangesDivide ==
  ASSUME NEW bars \in Seq(StoredBars)
  PROVE  /\ Denominator(bars) \in Int
         /\ \A k \in DOMAIN bars : bars[k].l < bars[k].h =>
              Divides(bars[k].h - bars[k].l, Denominator(bars))
<1>1. PICK f : IsDivisor(bars, Len(bars), f) /\ Denominator(bars) = f[Len(bars)]
  BY DenominatorIs
<1> DEFINE n == Len(bars)
           Holds(i) == f[i] \in Int
                       /\ \A k \in 1 .. i : bars[k].l < bars[k].h => Divides(bars[k].h - bars[k].l, f[i])
           T == {i \in 1 .. n : ~Holds(i)}
<1>2. n \in Nat /\ DOMAIN bars = 1 .. n /\ IsDivisor(bars, n, f)
  BY <1>1
<1> HIDE DEF n
<1>3. Holds(0)
  <2>1. f[0] = 1
    BY <1>2 DEF IsDivisor, DivisorStep
  <2> QED
    BY <2>1
<1>4. ASSUME NEW i \in 1 .. n, Holds(i - 1) PROVE Holds(i)
  <2> DEFINE d == f[i - 1]
             r == bars[i].h - bars[i].l
  <2>1. d \in Int /\ r \in Int /\ bars[i].h \in Int /\ bars[i].l \in Int
    <3>1. bars[i] \in StoredBars
      BY <1>2
    <3>2. bars[i].h \in Int /\ bars[i].l \in Int
      BY <3>1 DEF StoredBars
    <3>3. d \in Int
      BY <1>4
    <3> QED
      BY <3>2, <3>3
  <2>2. f[i] = Multiple(d, r)
    <3>1. i \in 0 .. n /\ i # 0
      BY <1>2
    <3> QED
      BY <1>2, <3>1 DEF IsDivisor, DivisorStep
  <2>3. /\ f[i] \in Int /\ (r > 0 => Divides(r, f[i]))
        /\ \A a \in Int : Divides(a, d) => Divides(a, f[i])
    <3> HIDE DEF d, r
    <3>1. /\ Multiple(d, r) \in Int
          /\ r > 0 => Divides(r, Multiple(d, r))
          /\ \A a \in Int : Divides(a, d) => Divides(a, Multiple(d, r))
      BY <2>1, MultipleIsDivided
    <3> QED
      BY <2>2, <3>1
  <2>4. ASSUME NEW k \in 1 .. i, bars[k].l < bars[k].h
        PROVE  Divides(bars[k].h - bars[k].l, f[i])
    <3>1. CASE k = i
      BY <2>1, <2>3, <2>4, <3>1
    <3>2. CASE k # i
      <4>1. k \in 1 .. i - 1 /\ k \in 1 .. n
        BY <1>2, <3>2
      <4>2. Divides(bars[k].h - bars[k].l, d)
        BY <1>4, <2>4, <4>1
      <4>3. bars[k] \in StoredBars
        BY <1>2, <4>1
      <4>4. bars[k].h - bars[k].l \in Int
        BY <4>3 DEF StoredBars
      <4> QED
        BY <2>3, <4>2, <4>4
    <3> QED
      BY <3>1, <3>2
  <2> QED
    BY <2>3, <2>4
<1>5. ASSUME T # {} PROVE FALSE
  <2>1. PICK x \in T : \A i \in T : x <= i
    <3>1. T \subseteq 1 .. n
      OBVIOUS
    <3> HIDE DEF T
    <3> QED
      BY <1>2, <1>5, <3>1, HasLeast
  <2>2. x \in 1 .. n /\ ~Holds(x)
    BY <2>1
  <2> HIDE DEF Holds
  <2>3. Holds(x - 1)
    <3>1. x - 1 = 0 \/ (x - 1 \in 1 .. n /\ ~(x <= x - 1))
      BY <1>2, <2>2
    <3> QED
      BY <1>3, <2>1, <3>1
  <2> QED
    BY <1>4, <2>2, <2>3
<1>6. Holds(n)
  <2>1. n = 0 \/ n \in 1 .. n
    BY <1>2
  <2> HIDE DEF Holds
  <2> QED
    BY <1>3, <1>5, <2>1
<1> QED
  BY <1>1, <1>2, <1>6 DEF n

-----------------------------------------------------------------------------
(* The sum over the rows is built up bar by bar. *)
LEMMA ProfileHoldsTheVolume ==
  ASSUME NEW bars \in Seq(StoredBars), bars # <<>>, NEW tick \in Nat \ {0},
         \A i \in DOMAIN bars : bars[i].l <= bars[i].h
  PROVE  ProfileTotal(bars, tick)
<1> DEFINE top == High(bars)
           bottom == Low(bars)
           rows == BuildRows(top, bottom, tick)
           n == Len(rows)
           m == Len(bars)
           d == Denominator(bars)
           volumes == [k \in DOMAIN bars |-> bars[k].v]
           row(i) == [k \in DOMAIN bars |-> Share(bars[k], rows, i, d)]
           spread == SpreadVolume(bars, rows, d)
<1>1. m \in Nat \ {0} /\ DOMAIN bars = 1 .. m
  OBVIOUS
<1>2. /\ top \in Int /\ bottom \in Int /\ d \in Int
      /\ \A k \in 1 .. m : bottom <= bars[k].l /\ bars[k].h <= top /\ bars[k].l <= bars[k].h
      /\ \A k \in 1 .. m : bars[k].l < bars[k].h => Divides(bars[k].h - bars[k].l, d)
      /\ \A k \in 1 .. m : bars[k] \in StoredBars /\ bars[k].v \in Int
                           /\ bars[k].h \in Int /\ bars[k].l \in Int
  <2>1. \A k \in 1 .. m : bars[k] \in StoredBars
    BY <1>1
  <2> QED
    BY <1>1, <2>1, BarsAreBetween, RangesDivide DEF StoredBars
<1>3. bottom <= top
  <2>1. 1 \in 1 .. m
    BY <1>1
  <2>2. bottom <= bars[1].l /\ bars[1].h <= top /\ bars[1].l <= bars[1].h
        /\ bars[1].h \in Int /\ bars[1].l \in Int
    BY <1>2, <2>1
  <2> HIDE DEF top, bottom
  <2> QED
    BY <1>2, <2>2
<1>4. Stacked(rows, n, bottom, top)
  <2> HIDE DEF top, bottom
  <2> QED
    BY <1>2, <1>3, RowsAreStacked
<1>5. n \in Nat \ {0} /\ DOMAIN rows = 1 .. n
  BY <1>4 DEF Stacked
<1> HIDE DEF top, bottom, rows, n, d
<1>6. ASSUME NEW k \in 1 .. m
      PROVE  /\ \A i \in 1 .. n : Share(bars[k], rows, i, d) \in Int
             /\ SumTo([i \in 1 .. n |-> Share(bars[k], rows, i, d)], n) = bars[k].v * d
  BY <1>2, <1>4, BarIsConserved
<1> DEFINE column(j) == [i \in 1 .. n |-> SumTo(row(i), j)]
           level == [j \in 0 .. m |-> SumTo(column(j), n)]
           scaled == [k \in 1 .. m |-> bars[k].v * d]
<1>7. ASSUME NEW i \in 1 .. n
      PROVE  /\ \A j \in 0 .. m : SumTo(row(i), j) \in Int
             /\ \A j \in 1 .. m : SumTo(row(i), j) = SumTo(row(i), j - 1) + Share(bars[j], rows, i, d)
             /\ SumTo(row(i), 0) = 0
  <2> DEFINE f == row(i)
  <2>1. \A j \in 1 .. m : f[j] = Share(bars[j], rows, i, d) /\ f[j] \in Int
    BY <1>1, <1>6
  <2>2. \A j \in 1 .. m : j \in Nat /\ j # 0
    OBVIOUS
  <2> HIDE DEF f
  <2>3. \A j \in 0 .. m : SumTo(f, j) \in Int
    BY <1>1, <2>1, SumIsInt
  <2>4. \A j \in 1 .. m : SumTo(f, j) = SumTo(f, j - 1) + f[j]
    BY <2>2, SumSteps
  <2>5. SumTo(f, 0) = 0
    BY SumSteps
  <2> QED
    BY <2>1, <2>3, <2>4, <2>5 DEF f
<1>8. ASSUME NEW j \in 1 .. m PROVE level[j] = level[j - 1] + scaled[j]
  <2> DEFINE h == column(j)
             f == column(j - 1)
             g == [i \in 1 .. n |-> Share(bars[j], rows, i, d)]
  <2>1. j - 1 \in 0 .. m /\ j \in 0 .. m
    BY <1>1
  <2>2. \A i \in 1 .. n : f[i] \in Int /\ g[i] \in Int /\ h[i] = f[i] + g[i]
    <3> TAKE i \in 1 .. n
    <3>1. f[i] = SumTo(row(i), j - 1) /\ h[i] = SumTo(row(i), j) /\ g[i] = Share(bars[j], rows, i, d)
      OBVIOUS
    <3> HIDE DEF f, g, h, row
    <3> QED
      BY <1>6, <1>7, <2>1, <3>1
  <2>3. SumTo(g, n) = bars[j].v * d
    BY <1>6
  <2>4. level[j] = SumTo(h, n) /\ level[j - 1] = SumTo(f, n) /\ scaled[j] = bars[j].v * d
    BY <2>1
  <2> HIDE DEF f, g, h, level, scaled
  <2>5. SumTo(h, n) = SumTo(f, n) + SumTo(g, n)
    <3>1. AddUp(f, g, h, n)
      BY <2>2 DEF AddUp
    <3> QED
      BY <1>5, <3>1, SumAdds
  <2> QED
    BY <2>3, <2>4, <2>5
<1>9. level[0] = 0
  <2> DEFINE f == column(0)
  <2>1. level[0] = SumTo(f, n)
    BY <1>1
  <2>2. \A i \in 1 .. n : f[i] = SumTo(row(i), 0)
    OBVIOUS
  <2> HIDE DEF f, row, level
  <2>3. \A i \in 1 .. n : f[i] = 0
    BY <1>7, <2>2
  <2>4. SumTo(f, n) = 0
    <3> DEFINE none == [i \in 0 .. n |-> 0]
    <3>1. none[0] = 0 /\ none[n] = 0 /\ \A i \in 1 .. n : none[i] = none[i - 1] + f[i]
      BY <1>5, <2>3
    <3> HIDE DEF none
    <3> QED
      BY <1>5, <3>1, SumFollows
  <2> QED
    BY <2>1, <2>4
<1>10. SumTo(scaled, m) = level[m]
  <2> HIDE DEF level, scaled
  <2> QED
    BY <1>1, <1>8, <1>9, SumFollows
<1>11. level[m] = SumTo(spread, n)
  <2>1. spread = column(m)
    BY <1>5 DEF SpreadVolume
  <2>2. level[m] = SumTo(column(m), n)
    BY <1>1
  <2> HIDE DEF spread, column, level
  <2> QED
    BY <2>1, <2>2
<1>12. SumTo(scaled, m) = d * Volume(bars)
  <2> DEFINE times == [j \in 0 .. m |-> d * SumTo(volumes, j)]
  <2>1. \A k \in 1 .. m : volumes[k] \in Int /\ volumes[k] = bars[k].v /\ scaled[k] = bars[k].v * d
    BY <1>1, <1>2
  <2> HIDE DEF volumes, scaled
  <2>2. \A j \in 0 .. m : SumTo(volumes, j) \in Int
    BY <1>1, <2>1, SumIsInt
  <2>3. ASSUME NEW j \in 1 .. m PROVE times[j] = times[j - 1] + scaled[j]
    <3>1. j - 1 \in 0 .. m /\ j \in 0 .. m /\ j \in Nat /\ j # 0
      BY <1>1
    <3>2. SumTo(volumes, j) = SumTo(volumes, j - 1) + volumes[j]
      BY <3>1, SumSteps
    <3>3. d * (SumTo(volumes, j - 1) + volumes[j]) = d * SumTo(volumes, j - 1) + d * volumes[j]
          /\ d * volumes[j] = volumes[j] * d
      BY <1>2, <2>1, <2>2, <3>1, Distributes
    <3>4. times[j] = d * SumTo(volumes, j) /\ times[j - 1] = d * SumTo(volumes, j - 1)
      BY <3>1
    <3> HIDE DEF times
    <3> QED
      BY <2>1, <3>2, <3>3, <3>4
  <2>4. times[0] = 0
    <3>1. SumTo(volumes, 0) = 0
      BY SumSteps
    <3>2. d * 0 = 0
      BY <1>2, SMT
    <3> QED
      BY <1>1, <3>1, <3>2
  <2>5. times[m] = d * SumTo(volumes, m)
    BY <1>1
  <2>6. SumTo(scaled, m) = times[m]
    <3> HIDE DEF times
    <3> QED
      BY <1>1, <2>3, <2>4, SumFollows
  <2> QED
    BY <2>5, <2>6 DEF Volume, volumes
<1>13. SumTo(spread, n) = d * Volume(bars)
  <2> HIDE DEF spread, level, scaled
  <2> QED
    BY <1>10, <1>11, <1>12
<1> QED
  BY <1>13, Zenon DEF ProfileTotal, spread, rows, n, d, top, bottom

-----------------------------------------------------------------------------
(* Whatever minutes are stored: the row volumes of the profile of a window *)
(* that can be profiled add up to what was traded in the window.  The rows *)
(* stand on one another from the window's low to its high, so a bar that   *)
(* has a range is covered without gap or overlap, and one without a range  *)
(* lies in exactly one row.                                                *)
THEOREM VolumesAreConserved == Spec => []VolumeConserved
<1>1. RunInv => VolumeConserved
  <2> SUFFICES ASSUME RunInv, NEW x \in DOMAIN world.symbols, NEW d \in DOMAIN world.symbols[x].minutes,
                      WindowBars(InSessionBars(Minutes(world.symbols[x], d))) # <<>>,
                      ~ProfileRaises(WindowBars(InSessionBars(Minutes(world.symbols[x], d))))
               PROVE  ProfileTotal(WindowBars(InSessionBars(Minutes(world.symbols[x], d))),
                                   world.symbols[x].tick)
    BY DEF VolumeConserved
  <2> DEFINE window == WindowBars(InSessionBars(Minutes(world.symbols[x], d)))
             tick == world.symbols[x].tick
  <2>1. world \in Worlds
    BY DEF RunInv, InputsOK
  <2>2. tick \in Nat \ {0}
    BY <2>1, BacktestAssumption
  <2>3. window \in Seq(StoredBars)
    <3>1. InSessionBars(Minutes(world.symbols[x], d)) \in Seq(StoredBars)
      BY <2>1, SessionsAreBars
    <3> QED
      BY <3>1, StampedArePicked DEF WindowBars
  <2>4. window # <<>> /\ ~ProfileRaises(window)
    OBVIOUS
  <2> HIDE DEF window, tick
  <2>5. \A i \in DOMAIN window : window[i].l <= window[i].h
    <3> TAKE i \in DOMAIN window
    <3>1. window[i] \in StoredBars
      BY <2>3
    <3>2. window[i].h \in Int /\ window[i].l \in Int
      BY <3>1 DEF StoredBars
    <3>3. ~(window[i].h < window[i].l)
      BY <2>4 DEF ProfileRaises
    <3> QED
      BY <3>2, <3>3
  <2>6. ProfileTotal(window, tick)
    BY <2>2, <2>3, <2>4, <2>5, ProfileHoldsTheVolume
  <2> QED
    BY <2>6 DEF window, tick
<1> QED
  BY RunAlways, <1>1, PTL

-----------------------------------------------------------------------------
(* A bar that bears one of the stamps is kept. *)
LEMMA StampedHas ==
  ASSUME NEW R, NEW bars \in Seq(R), NEW stamps, NEW i \in DOMAIN bars, bars[i].t \in stamps
  PROVE  Stamped(bars, stamps) # <<>>
<1>1. PICK kept : IsKept(bars, stamps, Len(bars), kept) /\ Stamped(bars, stamps) = kept[Len(bars)]
  BY StampedIsKept
<1> DEFINE n == Len(bars)
           Holds(j) == kept[j] \in Seq(R) /\ (i <= j => kept[j] # <<>>)
           T == {j \in 1 .. n : ~Holds(j)}
<1>2. n \in Nat /\ DOMAIN bars = 1 .. n /\ IsKept(bars, stamps, n, kept) /\ i \in 1 .. n
  BY <1>1
<1> HIDE DEF n
<1>3. Holds(0)
  <2>1. kept[0] = <<>>
    BY <1>2 DEF IsKept, KeptStep
  <2> QED
    BY <1>2, <2>1
<1>4. ASSUME NEW j \in 1 .. n, Holds(j - 1) PROVE Holds(j)
  <2>1. j \in 0 .. n /\ j # 0 /\ bars[j] \in R
    BY <1>2
  <2>2. kept[j] = IF bars[j].t \in stamps THEN Append(kept[j - 1], bars[j]) ELSE kept[j - 1]
    BY <1>2, <2>1 DEF IsKept, KeptStep
  <2>3. kept[j - 1] \in Seq(R)
    BY <1>4
  <2>4. Append(kept[j - 1], bars[j]) \in Seq(R) /\ Append(kept[j - 1], bars[j]) # <<>>
    BY <2>1, <2>3
  <2>5. i <= j => i = j \/ i <= j - 1
    BY <1>2
  <2> QED
    BY <1>4, <2>2, <2>3, <2>4, <2>5
<1>5. ASSUME T # {} PROVE FALSE
  <2>1. PICK x \in T : \A j \in T : x <= j
    <3>1. T \subseteq 1 .. n
      OBVIOUS
    <3> HIDE DEF T
    <3> QED
      BY <1>2, <1>5, <3>1, HasLeast
  <2>2. x \in 1 .. n /\ ~Holds(x)
    BY <2>1
  <2> HIDE DEF Holds
  <2>3. Holds(x - 1)
    <3>1. x - 1 = 0 \/ (x - 1 \in 1 .. n /\ ~(x <= x - 1))
      BY <1>2, <2>2
    <3> QED
      BY <1>3, <2>1, <3>1
  <2> QED
    BY <1>4, <2>2, <2>3
<1>6. Holds(n)
  <2>1. n \in 1 .. n
    BY <1>2
  <2> HIDE DEF Holds
  <2> QED
    BY <1>5, <2>1
<1>7. i <= n
  BY <1>2
<1> QED
  BY <1>1, <1>6, <1>7 DEF n

(* The stamps of a candle. *)
LEMMA OrdinalIs ==
  ASSUME NEW b \in StoredBars, b.t \in 0 .. SessionMinutes - 1
  PROVE  /\ Ordinal(b) \in Ordinals
         /\ b.t \in CandleMinutes * (Ordinal(b) - 1) .. CandleMinutes * Ordinal(b) - 1
<1> DEFINE k == b.t \div CandleMinutes
           t == b.t
<1>1. CandleMinutes \in Nat \ {0} /\ SessionBars \in Nat /\ SessionMinutes \in Nat
  BY CandlesAssumption, GridAssumption, GatesAssumption
<1>2. t \in Nat /\ t < SessionMinutes
  BY <1>1
<1>3. k \in Nat /\ CandleMinutes * k <= t /\ t < CandleMinutes * k + CandleMinutes
  <2>1. t \in Int
    BY <1>2
  <2> QED
    BY <1>1, <1>2, <2>1, DivisionIs, QuotientOfNat
<1>4. Ordinal(b) = k + 1
  BY DEF Ordinal
<1> HIDE DEF k, t
<1>5. CandleMinutes * (k + 1) = CandleMinutes * k + CandleMinutes /\ CandleMinutes * k \in Int
  <2>1. CandleMinutes * 1 = CandleMinutes
    BY <1>1
  <2> QED
    BY <1>1, <1>3, <2>1, Distributes
<1>6. k < SessionBars
  <2>1. ASSUME k >= SessionBars PROVE FALSE
    <3>1. SessionBars * CandleMinutes <= k * CandleMinutes
      BY <1>1, <1>3, <2>1, TimesGrows
    <3>2. SessionBars * CandleMinutes = CandleMinutes * SessionBars
          /\ k * CandleMinutes = CandleMinutes * k /\ CandleMinutes * SessionBars \in Int
      BY <1>1, <1>3, Distributes
    <3>3. SessionMinutes <= CandleMinutes * SessionBars
      BY BacktestAssumption
    <3> QED
      BY <1>1, <1>2, <1>3, <1>5, <3>1, <3>2, <3>3
  <2> QED
    BY <1>1, <1>3, <2>1
<1>7. Ordinal(b) - 1 = k /\ Ordinal(b) \in Int
  BY <1>3, <1>4
<1> QED
  BY <1>1, <1>2, <1>3, <1>4, <1>5, <1>6, <1>7 DEF t, Ordinals

(* The candles of a session of possible bars are what the rules are        *)
(* applied to.                                                             *)
LEMMA CandlesAreADay ==
  ASSUME NEW bars \in Seq(StoredBars),
         \A i \in DOMAIN bars : Sane(bars[i]) /\ bars[i].t \in 0 .. SessionMinutes - 1
  PROVE  IsDay(Aggregate(bars))
<1> DEFINE day == Aggregate(bars)
           members(n) == Stamped(bars, CandleMinutes * (n - 1) .. CandleMinutes * n - 1)
           candle(m) == [open |-> m[1].o, high |-> High(m), low |-> Low(m),
                         close |-> m[Len(m)].c, volume |-> Volume(m)]
           ordinals == {Ordinal(bars[i]) : i \in DOMAIN bars}
<1>1. day = [n \in ordinals |-> candle(members(n))]
  BY DEF Aggregate
<1>2. ordinals \subseteq Ordinals
  <2>1. \A i \in DOMAIN bars : bars[i] \in StoredBars
    OBVIOUS
  <2> QED
    BY <2>1, OrdinalIs
<1>3. ASSUME NEW n \in ordinals PROVE IsCandle(candle(members(n)))
  <2> DEFINE m == members(n)
             last == m[Len(m)]
             stamps == CandleMinutes * (n - 1) .. CandleMinutes * n - 1
  <2>1. PICK i \in DOMAIN bars : n = Ordinal(bars[i])
    OBVIOUS
  <2>2. bars[i].t \in stamps
    <3>1. bars[i] \in StoredBars
      OBVIOUS
    <3> QED
      BY <2>1, <3>1, OrdinalIs
  <2>3. m = Stamped(bars, stamps)
    OBVIOUS
  <2> HIDE DEF m, stamps
  <2>4. m \in Seq(StoredBars) /\ m # <<>> /\ \E at : Picks(bars, stamps, Len(bars), m, at)
    BY <2>2, <2>3, StampedHas, StampedArePicked
  <2>5. PICK at : Picks(bars, stamps, Len(bars), m, at)
    BY <2>4
  <2>6. Len(m) \in DOMAIN m /\ last \in StoredBars
    BY <2>4
  <2>7. at[Len(m)] \in DOMAIN bars /\ last = bars[at[Len(m)]]
    <3>1. Len(m) \in 1 .. Len(m)
      BY <2>4, <2>6
    <3> QED
      BY <2>5, <3>1 DEF Picks
  <2>8. Sane(last)
    BY <2>7
  <2>9. last.c \in Int /\ last.l \in Int /\ last.h \in Int /\ last.l <= last.c /\ last.c <= last.h
    BY <2>6, <2>8 DEF Sane, StoredBars
  <2>10. High(m) \in Int /\ Low(m) \in Int /\ last.h <= High(m) /\ Low(m) <= last.l
    BY <2>4, <2>6, BarsAreBetween
  <2>11. candle(m).low = Low(m) /\ candle(m).high = High(m) /\ candle(m).close = last.c
    OBVIOUS
  <2> HIDE DEF last, candle
  <2>12. IsCandle(candle(m))
    BY <2>9, <2>10, <2>11 DEF IsCandle
  <2> QED
    BY <2>12 DEF m
<1> HIDE DEF day, members, candle, ordinals
<1>4. DOMAIN day = ordinals /\ day = [n \in DOMAIN day |-> day[n]]
  BY <1>1
<1>5. \A n \in DOMAIN day : IsCandle(day[n])
  BY <1>1, <1>3, <1>4
<1>6. IsDay(day)
  BY <1>2, <1>4, <1>5 DEF IsDay
<1> QED
  BY <1>6 DEF day

-----------------------------------------------------------------------------
(* The last bar that bears one of the stamps is the last of those kept. *)
LEMMA StampedEnds ==
  ASSUME NEW R, NEW bars \in Seq(R), NEW stamps, NEW i \in DOMAIN bars, bars[i].t \in stamps,
         \A m \in DOMAIN bars : i < m => bars[m].t \notin stamps
  PROVE  LET kept == Stamped(bars, stamps)
         IN kept \in Seq(R) /\ kept # <<>> /\ kept[Len(kept)] = bars[i]
<1>1. PICK kept : IsKept(bars, stamps, Len(bars), kept) /\ Stamped(bars, stamps) = kept[Len(bars)]
  BY StampedIsKept
<1> DEFINE n == Len(bars)
           Ends(q) == q # <<>> /\ q[Len(q)] = bars[i]
           Holds(j) == kept[j] \in Seq(R) /\ (i <= j => Ends(kept[j]))
           T == {j \in 1 .. n : ~Holds(j)}
<1>2. n \in Nat /\ DOMAIN bars = 1 .. n /\ IsKept(bars, stamps, n, kept) /\ i \in 1 .. n
  BY <1>1
<1> HIDE DEF n
<1>3. Holds(0)
  <2>1. kept[0] = <<>>
    BY <1>2 DEF IsKept, KeptStep
  <2> QED
    BY <1>2, <2>1
<1>4. ASSUME NEW j \in 1 .. n, Holds(j - 1) PROVE Holds(j)
  <2>1. j \in 0 .. n /\ j # 0 /\ bars[j] \in R
    BY <1>2
  <2>2. kept[j] = IF bars[j].t \in stamps THEN Append(kept[j - 1], bars[j]) ELSE kept[j - 1]
    BY <1>2, <2>1 DEF IsKept, KeptStep
  <2>3. kept[j - 1] \in Seq(R) /\ (i <= j - 1 => Ends(kept[j - 1]))
    BY <1>4
  <2>4. /\ Append(kept[j - 1], bars[j]) \in Seq(R)
        /\ i = j => Ends(Append(kept[j - 1], bars[j]))
    BY <2>1, <2>3
  <2>5. i <= j => i = j \/ (i <= j - 1 /\ bars[j].t \notin stamps)
    BY <1>2
  <2> HIDE DEF Ends
  <2> QED
    BY <2>2, <2>3, <2>4, <2>5
<1>5. ASSUME T # {} PROVE FALSE
  <2>1. PICK x \in T : \A j \in T : x <= j
    <3>1. T \subseteq 1 .. n
      OBVIOUS
    <3> HIDE DEF T
    <3> QED
      BY <1>2, <1>5, <3>1, HasLeast
  <2>2. x \in 1 .. n /\ ~Holds(x)
    BY <2>1
  <2> HIDE DEF Holds
  <2>3. Holds(x - 1)
    <3>1. x - 1 = 0 \/ (x - 1 \in 1 .. n /\ ~(x <= x - 1))
      BY <1>2, <2>2
    <3> QED
      BY <1>3, <2>1, <3>1
  <2> QED
    BY <1>4, <2>2, <2>3
<1>6. Holds(n)
  <2>1. n \in 1 .. n
    BY <1>2
  <2> HIDE DEF Holds
  <2> QED
    BY <1>5, <2>1
<1>7. kept[n] \in Seq(R) /\ Ends(kept[n])
  BY <1>2, <1>6
<1> QED
  BY <1>1, <1>7 DEF n

(* The bars of a session in the order of their stamps. *)
InTime(bars) ==
  /\ \A i \in DOMAIN bars : bars[i].t \in 0 .. SessionMinutes - 1
  /\ \A i, j \in DOMAIN bars : i < j => bars[i].t <= bars[j].t

LEMMA Grows ==
  ASSUME NEW c \in Nat, NEW a \in Int, NEW b \in Int, a <= b
  PROVE  c * a <= c * b
<1>1. a * c <= b * c
  BY TimesGrows
<1> QED
  BY <1>1, Distributes

(* Which candle a bar is in, against the stamps of the early bars and       *)
(* against a bar that is not later.                                         *)
LEMMA EarlyIsByOrdinal ==
  ASSUME NEW b \in StoredBars, b.t \in 0 .. SessionMinutes - 1
  PROVE  b.t \in 0 .. CandleMinutes * ReferenceBar - 1 <=> Ordinal(b) <= ReferenceBar
<1> DEFINE o == Ordinal(b)
<1>1. /\ CandleMinutes \in Nat /\ ReferenceBar \in Nat /\ SessionMinutes \in Nat
      /\ o \in Nat /\ o - 1 \in Nat
      /\ b.t \in CandleMinutes * (o - 1) .. CandleMinutes * o - 1
  BY OrdinalIs, CandlesAssumption, GridAssumption, GatesAssumption DEF Ordinals
<1> HIDE DEF o
<1>2. o <= ReferenceBar => CandleMinutes * o <= CandleMinutes * ReferenceBar
  BY <1>1, Grows
<1>3. ReferenceBar <= o - 1 => CandleMinutes * ReferenceBar <= CandleMinutes * (o - 1)
  BY <1>1, Grows
<1>4. CandleMinutes * o \in Int /\ CandleMinutes * (o - 1) \in Int
      /\ CandleMinutes * ReferenceBar \in Int /\ b.t \in Int
  BY <1>1
<1>5. CASE o <= ReferenceBar
  BY <1>1, <1>2, <1>4, <1>5 DEF o
<1>6. CASE ReferenceBar <= o - 1
  BY <1>1, <1>3, <1>4, <1>6 DEF o
<1> QED
  BY <1>1, <1>5, <1>6

LEMMA OrdinalsRise ==
  ASSUME NEW b \in StoredBars, b.t \in 0 .. SessionMinutes - 1,
         NEW c \in StoredBars, c.t \in 0 .. SessionMinutes - 1, b.t <= c.t
  PROVE  Ordinal(b) <= Ordinal(c)
<1> DEFINE o == Ordinal(b)
           q == Ordinal(c)
<1>1. /\ CandleMinutes \in Nat /\ o - 1 \in Nat /\ q \in Nat /\ o \in Nat
      /\ b.t \in CandleMinutes * (o - 1) .. CandleMinutes * o - 1
      /\ c.t \in CandleMinutes * (q - 1) .. CandleMinutes * q - 1
  BY OrdinalIs, CandlesAssumption, GridAssumption DEF Ordinals
<1> HIDE DEF o, q
<1>2. q <= o - 1 => CandleMinutes * q <= CandleMinutes * (o - 1)
  BY <1>1, Grows
<1>3. CandleMinutes * q \in Int /\ CandleMinutes * (o - 1) \in Int
  BY <1>1
<1>4. ~(q <= o - 1)
  BY <1>1, <1>2, <1>3
<1> QED
  BY <1>1, <1>4 DEF o, q

(* The minutes evaluate_day is given beside the candles are the minutes the *)
(* candles were aggregated from (signal_engine.py:371), so the reference it *)
(* takes when the 11:00 candle did not trade is the close of the latest     *)
(* earlier candle, and there is one exactly when such a candle traded: what *)
(* the rules of a day assume.                                               *)
THEOREM AggregationAgrees ==
  ASSUME NEW bars \in Seq(StoredBars), InTime(bars)
  PROVE  MinutesAgree(Aggregate(bars), EarlyCloses(bars))
<1> DEFINE day == Aggregate(bars)
           E == 0 .. CandleMinutes * ReferenceBar - 1
           S(n) == CandleMinutes * (n - 1) .. CandleMinutes * n - 1
           early == Stamped(bars, E)
           closes == EarlyCloses(bars)
           ordinals == {Ordinal(bars[i]) : i \in DOMAIN bars}
           T == {i \in DOMAIN bars : bars[i].t \in E}
<1>1. /\ \A i \in DOMAIN bars : bars[i] \in StoredBars /\ bars[i].t \in 0 .. SessionMinutes - 1
      /\ DOMAIN bars = 1 .. Len(bars) /\ Len(bars) \in Nat
  BY DEF InTime
<1>2. \A i \in DOMAIN bars : Ordinal(bars[i]) \in Ordinals /\ bars[i].t \in S(Ordinal(bars[i]))
  BY <1>1, OrdinalIs
<1>3. \A i \in DOMAIN bars : i \in T <=> Ordinal(bars[i]) <= ReferenceBar
  BY <1>1, EarlyIsByOrdinal
<1>4. /\ DOMAIN day = ordinals
      /\ \A n \in ordinals : day[n].close
           = Stamped(bars, S(n))[Len(Stamped(bars, S(n)))].c
  BY DEF Aggregate
<1>5. /\ early \in Seq(StoredBars)
      /\ closes = [i \in DOMAIN early |-> early[i].c]
      /\ \E at : Picks(bars, E, Len(bars), early, at)
  BY StampedArePicked DEF EarlyCloses
<1> HIDE DEF day, E, S, early, closes
<1>6. EarlyBars(day) = {Ordinal(bars[i]) : i \in T}
  BY <1>1, <1>3, <1>4 DEF EarlyBars
<1>7. CASE T = {}
  <2>1. early = <<>>
    <3>1. PICK at : Picks(bars, E, Len(bars), early, at)
      BY <1>5
    <3>2. ASSUME Len(early) # 0 PROVE FALSE
      <4>1. 1 \in 1 .. Len(early)
        BY <1>5, <3>2
      <4>2. at[1] \in DOMAIN bars /\ bars[at[1]].t \in E
        BY <1>1, <3>1, <4>1 DEF Picks
      <4> QED
        BY <1>7, <4>2
    <3> QED
      BY <1>5, <3>2
  <2>2. closes = <<>>
    BY <1>5, <2>1
  <2>3. EarlyBars(day) = {}
    BY <1>6, <1>7
  <2>4. ReferenceBar \notin DOMAIN day
    BY <2>3, GridAssumption DEF EarlyBars
  <2> QED
    BY <2>2, <2>3, <2>4 DEF MinutesAgree, TakesReference, HasReference, day, closes
<1>8. CASE T # {}
  <2>1. PICK i \in T : \A j \in T : j <= i
    <3>1. T \subseteq 1 .. Len(bars)
      BY <1>1
    <3> QED
      BY <1>1, <1>8, <3>1, HasGreatest
  <2> DEFINE o == Ordinal(bars[i])
             m == Stamped(bars, S(o))
  <2>2. /\ i \in DOMAIN bars /\ bars[i].t \in E /\ o \in Ordinals /\ o <= ReferenceBar
        /\ bars[i].t \in S(o) /\ o \in ordinals /\ o \in EarlyBars(day)
    BY <1>2, <1>3, <1>6, <2>1
  <2>3. \A k \in DOMAIN bars : i < k => bars[k].t \notin E /\ bars[k].t \notin S(o)
    <3>1. SUFFICES ASSUME NEW k \in DOMAIN bars, i < k, bars[k].t \in E \/ bars[k].t \in S(o)
                   PROVE  FALSE
      OBVIOUS
    <3>2. S(o) \subseteq E
      <4>1. CandleMinutes * o <= CandleMinutes * ReferenceBar /\ 0 <= CandleMinutes * (o - 1)
            /\ CandleMinutes * o \in Int /\ CandleMinutes * (o - 1) \in Int
            /\ CandleMinutes * ReferenceBar \in Int
        <5>1. CandleMinutes \in Nat /\ ReferenceBar \in Int /\ o \in Nat /\ o - 1 \in Nat
          BY <2>2, CandlesAssumption, GridAssumption DEF Ordinals
        <5> HIDE DEF o
        <5> QED
          BY <5>1, <2>2, Grows
      <4> QED
        BY <4>1 DEF S, E
    <3>3. k \in T
      BY <3>1, <3>2
    <3>4. k <= i
      BY <2>1, <3>3
    <3> QED
      BY <1>1, <2>2, <3>1, <3>4
  <2> HIDE DEF o
  <2>4. m # <<>> /\ m[Len(m)] = bars[i]
    BY <2>2, <2>3, StampedEnds
  <2>5. early # <<>> /\ early[Len(early)] = bars[i]
    BY <2>2, <2>3, StampedEnds DEF early
  <2>6. closes # <<>> /\ closes[Len(closes)] = bars[i].c
    BY <1>5, <2>5
  <2>7. Latest(EarlyBars(day)) = o
    <3>1. EarlyBars(day) \subseteq Ordinals
      BY <1>2, <1>6
    <3>2. \A n \in EarlyBars(day) : n <= o
      <4>1. SUFFICES ASSUME NEW j \in T PROVE Ordinal(bars[j]) <= o
        BY <1>6
      <4>2. j <= i /\ j \in DOMAIN bars
        BY <2>1
      <4>3. bars[j].t <= bars[i].t
        <5>1. j = i \/ j < i
          BY <1>1, <2>2, <4>2
        <5>2. bars[i].t \in Int
          BY <1>1, <2>2
        <5> QED
          BY <2>2, <4>2, <5>1, <5>2 DEF InTime
      <4> QED
        BY <1>1, <2>2, <4>2, <4>3, OrdinalsRise DEF o
    <3> QED
      BY <2>2, <3>1, <3>2, LatestIs
  <2>8. Reference(day) = bars[i].c
    BY <1>4, <2>2, <2>4, <2>7 DEF Reference
  <2>9. TakenReference(day, closes) = bars[i].c
    <3>1. CASE ReferenceBar \in DOMAIN day
      <4>1. ReferenceBar \in EarlyBars(day) /\ EarlyBars(day) \subseteq Ordinals
        BY <1>2, <1>6, <3>1, GridAssumption DEF EarlyBars
      <4>2. \A n \in EarlyBars(day) : n <= ReferenceBar
        BY DEF EarlyBars
      <4>3. Latest(EarlyBars(day)) = ReferenceBar
        BY <4>1, <4>2, LatestIs
      <4> QED
        BY <2>8, <3>1, <4>3 DEF TakenReference, Reference
    <3>2. CASE ReferenceBar \notin DOMAIN day
      BY <2>6, <3>2 DEF TakenReference
    <3> QED
      BY <3>1, <3>2
  <2>10. HasReference(day) /\ TakesReference(day, closes)
    BY <2>2, <2>6 DEF HasReference, TakesReference
  <2> QED
    BY <2>8, <2>9, <2>10 DEF MinutesAgree, day, closes
<1> QED
  BY <1>7, <1>8

-----------------------------------------------------------------------------
(* What a trade is closed at is a price. *)
LEMMA ExitsHaveAPrice ==
  ASSUME NEW b, IsDay(b), NEW s \in Sides, NEW p \in Int, HasReference(b),
         NEW n, FirstCross(b, s, p, n)
  PROVE  ExitPrice(Entry(b, n, s, p), Exit(b, Entry(b, n, s, p), s), b) \in Int
<1> DEFINE e == Entry(b, n, s, p)
           x == Exit(b, e, s)
<1>1. /\ e \in [at : Nat, price : Int, stop : Int, target : Int]
      /\ e.at = n /\ n \in DOMAIN b
  BY TradeOf
<1> HIDE DEF e
<1>2. x.kind \notin {"target", "stop"} => x.at \in DOMAIN b
  <2>1. Watched(b, e) \subseteq Ordinals /\ Watched(b, e) \subseteq DOMAIN b
    BY DEF Watched, IsDay
  <2>2. Watched(b, e) # {} => Latest(Watched(b, e)) \in DOMAIN b
    BY <2>1, LatestOf
  <2>3. SquareOff(b, e).at \in DOMAIN b
    BY <1>1, <2>2 DEF SquareOff
  <2> QED
    BY <2>3 DEF Exit, TouchExit
<1> HIDE DEF x
<1>3. x.at \in DOMAIN b => b[x.at].close \in Int
  BY DEF IsDay, IsCandle
<1>4. ExitPrice(e, x, b) \in Int
  BY <1>1, <1>2, <1>3 DEF ExitPrice
<1> QED
  BY <1>4 DEF e, x

-----------------------------------------------------------------------------
(* The days of a set in their order: it rises from the least to the        *)
(* greatest.                                                               *)
LEMMA InOrderRises ==
  ASSUME NEW days, days \subseteq Nat, IsFiniteSet(days), NEW lo \in days, NEW hi \in days,
         \A d \in days : lo <= d /\ d <= hi
  PROVE  LET o == InOrder(days)
             k == Cardinality(days)
         IN /\ k \in Nat \ {0} /\ DOMAIN o = 1 .. k
            /\ \A i \in 1 .. k : o[i] \in days
            /\ \A i, j \in 1 .. k : i < j => o[i] < o[j]
            /\ o[1] = lo /\ o[k] = hi
<1> DEFINE Till(d) == {e \in days : e <= d}
           C(d) == Cardinality(Till(d))
           o == InOrder(days)
           k == Cardinality(days)
<1>0. \A d \in days : d \in Nat
  OBVIOUS
<1>1. k \in Nat \ {0} /\ DOMAIN o = 1 .. k
  <2>1. k \in Nat /\ k # 0
    BY FS_CardinalityType, FS_EmptySet
  <2> QED
    BY <2>1 DEF InOrder
<1>2. ASSUME NEW i \in 1 .. k PROVE o[i] \in days /\ C(o[i]) = i
  <2>1. \E d \in days : C(d) = i
    BY RankIsTaken
  <2>2. o[i] = CHOOSE d \in days : C(d) = i
    BY <1>2 DEF InOrder
  <2> QED
    BY <2>1, <2>2, Zenon
<1> HIDE DEF o, k
<1>3. ASSUME NEW d PROVE IsFiniteSet(Till(d)) /\ C(d) \in Nat
  <2>1. Till(d) \in SUBSET days
    OBVIOUS
  <2> HIDE DEF Till
  <2> QED
    BY <2>1, FS_Subset, FS_CardinalityType
<1>4. ASSUME NEW c \in days, NEW d \in days, c <= d PROVE C(c) <= C(d)
  <2>1. Till(c) \in SUBSET Till(d)
    <3>1. ASSUME NEW e \in Till(c) PROVE e \in Till(d)
      <4>1. e \in days /\ e <= c
        BY <3>1
      <4>2. c \in Nat /\ d \in Nat /\ e \in Nat
        BY <1>0, <4>1
      <4>3. e <= d
        BY <1>4, <4>1, <4>2
      <4> QED
        BY <4>1, <4>3
    <3> QED
      BY <3>1
  <2>2. IsFiniteSet(Till(d))
    BY <1>3
  <2> HIDE DEF Till
  <2> QED
    BY <2>1, <2>2, FS_Subset
<1>5. ASSUME NEW c \in days, NEW d \in days, c < d PROVE C(c) < C(d)
  <2>1. d \in Till(d) /\ Till(c) \in SUBSET (Till(d) \ {d})
    <3>1. c \in Nat /\ d \in Nat
      BY <1>0
    <3>2. ASSUME NEW e \in Till(c) PROVE e \in Till(d) \ {d}
      <4>1. e \in days /\ e <= c
        BY <3>2
      <4>2. e \in Nat
        BY <1>0, <4>1
      <4>3. e <= d /\ e # d
        BY <1>5, <3>1, <4>1, <4>2
      <4> QED
        BY <4>1, <4>3
    <3>3. d <= d
      BY <3>1
    <3> QED
      BY <3>2, <3>3
  <2>2. IsFiniteSet(Till(d)) /\ C(d) \in Nat /\ C(c) \in Nat
    BY <1>3
  <2> HIDE DEF Till
  <2>3. IsFiniteSet(Till(d) \ {d}) /\ Cardinality(Till(d) \ {d}) = C(d) - 1
    BY <2>1, <2>2, FS_RemoveElement
  <2>4. C(c) <= Cardinality(Till(d) \ {d})
    BY <2>1, <2>3, FS_Subset
  <2> QED
    BY <2>2, <2>3, <2>4
<1>6. ASSUME NEW i \in 1 .. k, NEW j \in 1 .. k, i < j PROVE o[i] < o[j]
  <2> DEFINE p == o[i]
             q == o[j]
  <2>1. p \in days /\ q \in days /\ C(p) = i /\ C(q) = j
    BY <1>2
  <2> HIDE DEF C, p, q
  <2>2. p \in Nat /\ q \in Nat /\ i \in Nat /\ j \in Nat
    BY <1>0, <1>1, <2>1
  <2>3. ASSUME q <= p PROVE FALSE
    <3>1. C(q) <= C(p)
      BY <1>4, <2>1, <2>3
    <3> QED
      BY <1>6, <2>1, <2>2, <3>1
  <2>4. p < q
    BY <2>2, <2>3
  <2> QED
    BY <2>4 DEF p, q
<1>7. o[1] = lo
  <2> DEFINE p == o[1]
  <2>1. p \in days /\ C(p) = 1
    <3>1. 1 \in 1 .. k
      BY <1>1
    <3> QED
      BY <1>2, <3>1
  <2>2. C(lo) >= 1
    <3>1. lo \in Till(lo)
      <4>1. lo \in Nat
        BY <1>0
      <4> QED
        BY <4>1
    <3>2. IsFiniteSet(Till(lo)) /\ C(lo) \in Nat
      BY <1>3
    <3> HIDE DEF Till
    <3>3. C(lo) # 0
      BY <3>1, <3>2, FS_EmptySet
    <3> QED
      BY <3>2, <3>3
  <2> HIDE DEF p
  <2>3. p \in Nat /\ lo \in Nat /\ C(lo) \in Nat
    BY <1>0, <1>3, <2>1
  <2>4. lo <= p
    BY <2>1
  <2> HIDE DEF C
  <2>5. ASSUME lo < p PROVE FALSE
    <3>1. C(lo) < C(p)
      BY <1>5, <2>1, <2>5
    <3> QED
      BY <2>1, <2>2, <2>3, <3>1
  <2>6. p = lo
    BY <2>3, <2>4, <2>5
  <2> QED
    BY <2>6 DEF p
<1>8. o[k] = hi
  <2> DEFINE p == o[k]
  <2>1. p \in days /\ C(p) = k
    <3>1. k \in 1 .. k
      BY <1>1
    <3> QED
      BY <1>2, <3>1
  <2>2. C(hi) = k
    <3>1. Till(hi) = days
      OBVIOUS
    <3> QED
      BY <3>1 DEF k
  <2> HIDE DEF p, C
  <2>3. p \in Nat /\ hi \in Nat /\ k \in Nat
    BY <1>0, <1>1, <2>1
  <2>4. p <= hi
    BY <2>1
  <2>5. ASSUME p < hi PROVE FALSE
    <3>1. C(p) < C(hi)
      BY <1>5, <2>1, <2>5
    <3> QED
      BY <2>1, <2>2, <2>3, <3>1
  <2>6. p = hi
    BY <2>3, <2>4, <2>5
  <2> QED
    BY <2>6 DEF p
<1> QED
  BY <1>1, <1>2, <1>6, <1>7, <1>8 DEF o, k

(* Of the candles some are the highest. *)
LEMMA OneIsHighest ==
  ASSUME NEW T, T \subseteq Ordinals, T # {}, NEW f, \A n \in T : f[n] \in Int
  PROVE  \E m \in T : \A n \in T : f[n] <= f[m]
<1>1. PICK t \in T : TRUE
  OBVIOUS
<1> DEFINE g == [n \in Ordinals |-> IF n \in T THEN f[n] ELSE f[t]]
<1>2. SessionBars \in Nat /\ t \in 1 .. SessionBars
  BY GridAssumption DEF Ordinals
<1>3. Ordinals = 1 .. SessionBars
  BY DEF Ordinals
<1>4. \A n \in 1 .. SessionBars : g[n] \in Int
  BY <1>3
<1>5. (\A n \in T : g[n] = f[n]) /\ \A n \in Ordinals : n \notin T => g[n] = f[t]
  OBVIOUS
<1> HIDE DEF g
<1>6. PICK i \in 1 .. SessionBars : \A j \in 1 .. SessionBars : g[j] <= g[i]
  <2>1. SessionBars \in Nat \ {0}
    BY <1>2
  <2> HIDE <1>1, <1>2, <1>3
  <2> QED
    BY <1>4, <2>1, OneIsGreatest
<1>7. CASE i \in T
  BY <1>3, <1>5, <1>6, <1>7
<1>8. CASE i \notin T
  BY <1>3, <1>5, <1>6, <1>8
<1> QED
  BY <1>7, <1>8

LEMMA SeenAre ==
  ASSUME NEW T, T \subseteq Ordinals, NEW b, \A n \in T : b[n].high \in Int /\ b[n].low \in Int,
         NEW m \in T
  PROVE  LET top == Max({b[n].high : n \in T})
             bottom == Min({b[n].low : n \in T})
         IN top \in Int /\ bottom \in Int /\ b[m].high <= top /\ bottom <= b[m].low
<1> DEFINE highs == {b[n].high : n \in T}
           lows == {b[n].low : n \in T}
           f == [n \in T |-> b[n].high]
           g == [n \in T |-> -b[n].low]
<1>1. PICK i \in T : \A n \in T : f[n] <= f[i]
  <2>1. \A n \in T : f[n] \in Int
    OBVIOUS
  <2> HIDE DEF f
  <2> QED
    BY <2>1, OneIsHighest
<1>2. PICK j \in T : \A n \in T : g[n] <= g[j]
  <2>1. \A n \in T : g[n] \in Int
    OBVIOUS
  <2> HIDE DEF g
  <2> QED
    BY <2>1, OneIsHighest
<1>3. b[i].high \in highs /\ \A y \in highs : b[i].high >= y
  BY <1>1
<1>4. b[j].low \in lows /\ \A y \in lows : b[j].low <= y
  BY <1>2
<1>5. b[m].high \in highs /\ b[m].low \in lows /\ highs \subseteq Int /\ lows \subseteq Int
  OBVIOUS
<1> HIDE DEF highs, lows
<1>6. Max(highs) \in highs /\ \A y \in highs : Max(highs) >= y
  BY <1>3, Zenon DEF Max
<1>7. Min(lows) \in lows /\ \A y \in lows : Min(lows) <= y
  BY <1>4, Zenon DEF Min
<1>8. Max(highs) \in Int /\ Min(lows) \in Int /\ Max(highs) >= b[m].high /\ Min(lows) <= b[m].low
      /\ b[m].high \in Int
  BY <1>5, <1>6, <1>7
<1>9. Max(highs) \in Int /\ Min(lows) \in Int /\ b[m].high <= Max(highs) /\ Min(lows) <= b[m].low
  BY <1>8
<1> QED
  BY <1>9 DEF highs, lows

-----------------------------------------------------------------------------
(* What the entry and the exit of a trade are. *)
IsTrade(b, s, e, x) ==
    /\ e.at \in DOMAIN b /\ e.at < SquareOffBar
    /\ e.price \in Int /\ e.stop \in Int /\ e.price = b[e.at].close
    /\ Risk(e.price, e.stop, s) \in Nat \ {0}
    /\ e.target = IF s = "long" THEN e.price + TargetRiskMultiple * Risk(e.price, e.stop, s)
                  ELSE e.price - TargetRiskMultiple * Risk(e.price, e.stop, s)
    /\ x = Exit(b, e, s)

LEMMA CrossIsATrade ==
  ASSUME NEW b, IsDay(b), NEW s \in Sides, NEW p \in Int, HasReference(b),
         NEW n, FirstCross(b, s, p, n)
  PROVE  IsTrade(b, s, Entry(b, n, s, p), Exit(b, Entry(b, n, s, p), s))
<1> DEFINE price == b[n].close
           stop == Stop(b, n, s, p)
           reach == TargetRiskMultiple * Risk(price, stop, s)
           e == Entry(b, n, s, p)
<1>1. /\ stop \in Int /\ price \in Int /\ Risk(price, stop, s) > 0
  BY CrossSplits DEF Sizable
<1>2. n \in DOMAIN b /\ n < SquareOffBar
  <2>1. n \in DOMAIN b /\ n \in Ordinals /\ n <= LastTriggerBar
    BY DEF FirstCross, Crosses, Window, IsDay
  <2> QED
    BY <2>1, GridAssumption DEF Ordinals
<1>3. Risk(price, stop, s) \in Int
  BY <1>1 DEF Risk
<1>4. e = [at |-> n, price |-> price, stop |-> stop,
           target |-> IF s = "long" THEN price + reach ELSE price - reach]
  BY DEF Entry
<1> HIDE DEF price, stop, reach
<1>5. e.at = n /\ e.price = price /\ e.stop = stop
      /\ e.target = IF s = "long" THEN price + reach ELSE price - reach
  BY <1>4
<1> HIDE DEF e
<1>6. e.price = b[e.at].close
  BY <1>5 DEF price
<1>7. Risk(e.price, e.stop, s) \in Nat \ {0}
  BY <1>1, <1>3, <1>5
<1>8. e.target = IF s = "long" THEN e.price + TargetRiskMultiple * Risk(e.price, e.stop, s)
                 ELSE e.price - TargetRiskMultiple * Risk(e.price, e.stop, s)
  BY <1>5 DEF reach
<1>9. IsTrade(b, s, e, Exit(b, e, s))
  BY <1>1, <1>2, <1>5, <1>6, <1>7, <1>8 DEF IsTrade
<1> QED
  BY <1>9 DEF e

(* Where a trade is closed, and why. *)
LEMMA ExitsWhereItMay ==
  ASSUME NEW b, IsDay(b), NEW s \in Sides, NEW e, NEW x, IsTrade(b, s, e, x)
  PROVE  /\ x.at \in DOMAIN b /\ e.at <= x.at
         /\ x.kind \in {"stop", "target", "square-off"}
         /\ x.kind = "stop" => e.at < x.at /\ HitStop(b[x.at], e, s)
         /\ x.kind = "target" => e.at < x.at /\ HitTarget(b[x.at], e, s)
         /\ x.kind = "square-off" => (x.at = SquareOffBar <=> SquareOffBar \in DOMAIN b)
<1> DEFINE touched == TouchBars(b, e, s)
           watched == Watched(b, e)
<1>1. /\ DOMAIN b \subseteq Ordinals /\ Ordinals \subseteq Nat /\ SquareOffBar \in Nat
      /\ e.at \in DOMAIN b /\ e.at < SquareOffBar /\ x = Exit(b, e, s)
  BY GridAssumption DEF IsDay, IsTrade, Ordinals
<1>2. touched \subseteq watched /\ watched \subseteq Ordinals
  BY <1>1 DEF TouchBars, Watched
<1>3. CASE touched # {}
  <2> DEFINE m == Earliest(touched)
  <2>1. m \in touched
    BY <1>2, <1>3, EarliestOf
  <2>2. x = TouchExit(b, m, e, s)
    BY <1>1, <1>3 DEF Exit
  <2> HIDE DEF m
  <2>3. /\ m \in DOMAIN b /\ e.at < m /\ x.at = m
        /\ HitStop(b[m], e, s) \/ HitTarget(b[m], e, s)
        /\ x.kind = IF HitStop(b[m], e, s) THEN "stop" ELSE "target"
    BY <2>1, <2>2 DEF TouchBars, Watched, TouchExit
  <2>4. m \in Nat /\ e.at \in Nat /\ e.at <= m
    <3>1. m \in Ordinals /\ e.at \in Ordinals
      BY <1>1, <2>3
    <3>2. m \in Nat /\ e.at \in Nat
      BY <3>1 DEF Ordinals
    <3> QED
      BY <2>3, <3>2
  <2> QED
    BY <2>3, <2>4
<1>4. CASE touched = {} /\ watched = {}
  <2>1. x.kind = "square-off" /\ x.at = e.at
    BY <1>1, <1>4 DEF Exit, SquareOff
  <2>2. SquareOffBar \notin DOMAIN b
    BY <1>1, <1>4 DEF Watched
  <2>3. e.at \in Nat
    BY <1>1 DEF Ordinals
  <2>4. e.at <= e.at /\ e.at # SquareOffBar
    BY <1>1, <2>3
  <2> QED
    BY <1>1, <2>1, <2>2, <2>4
<1>5. CASE touched = {} /\ watched # {}
  <2> DEFINE m == Latest(watched)
  <2>1. m \in watched /\ \A y \in watched : y <= m
    BY <1>2, <1>5, LatestOf
  <2>2. x.kind = "square-off" /\ x.at = m
    BY <1>1, <1>5 DEF Exit, SquareOff
  <2> HIDE DEF m
  <2>3. m \in DOMAIN b /\ e.at < m /\ m <= SquareOffBar /\ m \in Nat /\ e.at \in Nat
    BY <1>1, <2>1 DEF Watched
  <2>4. SquareOffBar \in DOMAIN b => SquareOffBar <= m
    BY <1>1, <2>1 DEF Watched
  <2> QED
    BY <1>1, <2>2, <2>3, <2>4
<1> QED
  BY <1>3, <1>4, <1>5

(* A trade is as large as the budget allows, and no larger. *)
LEMMA SizesAreTight ==
  ASSUME NEW risk \in Nat \ {0}
  PROVE  /\ PositionSize(risk) \in Nat
         /\ PositionSize(risk) * risk <= RiskPerTrade
         /\ (PositionSize(risk) + 1) * risk > RiskPerTrade
<1> DEFINE q == RiskPerTrade \div risk
<1>1. RiskPerTrade \in Nat
  BY RiskAssumption
<1>2. q \in Nat
  BY <1>1, QuotientOfNat
<1>3. risk * q <= RiskPerTrade /\ RiskPerTrade < risk * q + risk
  BY <1>1, DivisionIs
<1> HIDE DEF q
<1>4. q * risk = risk * q /\ (q + 1) * risk = q * risk + 1 * risk /\ 1 * risk = risk /\ q * risk \in Int
  BY <1>2, Distributes
<1>5. q * risk <= RiskPerTrade /\ (q + 1) * risk > RiskPerTrade
  BY <1>1, <1>2, <1>3, <1>4
<1> QED
  BY <1>2, <1>5 DEF q, PositionSize

(* What a fill moves the money by. *)
Move(s, price, fill) == IF s = "long" THEN fill - price ELSE price - fill

LEMMA FillsMoveTheMoney ==
  ASSUME NEW b, IsDay(b), NEW s \in Sides, NEW e, NEW x, IsTrade(b, s, e, x)
  PROVE  LET fill == ExitPrice(e, x, b)
             risk == Risk(e.price, e.stop, s)
         IN /\ fill \in Int
            /\ x.kind = "stop" => Move(s, e.price, fill) = -risk
            /\ x.kind = "target" => Move(s, e.price, fill) = TargetRiskMultiple * risk
            /\ x.kind = "square-off" => fill = b[x.at].close
            /\ x.at = e.at => fill = e.price
<1> DEFINE risk == Risk(e.price, e.stop, s)
           fill == ExitPrice(e, x, b)
           reach == TargetRiskMultiple * risk
<1>1. /\ e.price \in Int /\ e.stop \in Int /\ e.price = b[e.at].close /\ risk \in Int
      /\ e.target = IF s = "long" THEN e.price + reach ELSE e.price - reach
      /\ e.at \in DOMAIN b /\ e.at \in Int
  BY GridAssumption DEF IsTrade, IsDay, Ordinals
<1>2. reach \in Int
  BY <1>1, MultipleAssumption, Distributes
<1>3. /\ x.at \in DOMAIN b /\ b[x.at].close \in Int
      /\ x.kind \in {"stop", "target", "square-off"}
      /\ x.kind = "stop" \/ x.kind = "target" => e.at < x.at
  BY ExitsWhereItMay DEF IsDay, IsCandle
<1>4. risk = IF s = "long" THEN e.price - e.stop ELSE e.stop - e.price
  BY DEF Risk
<1> HIDE DEF risk, reach
<1>5. CASE x.kind = "stop"
  <2>1. fill = e.stop
    BY <1>5 DEF ExitPrice
  <2> HIDE DEF fill
  <2> QED
    BY <1>1, <1>3, <1>4, <1>5, <2>1 DEF Move, risk, fill
<1>6. CASE x.kind = "target"
  <2>1. fill = e.target
    BY <1>6 DEF ExitPrice
  <2> HIDE DEF fill
  <2>2. Move(s, e.price, fill) = reach
    BY <1>1, <1>2, <2>1 DEF Move
  <2>3. fill \in Int /\ x.at # e.at
    BY <1>1, <1>2, <1>3, <1>6, <2>1
  <2> QED
    BY <1>6, <2>2, <2>3 DEF risk, reach, fill
<1>7. CASE x.kind = "square-off"
  <2>1. fill = b[x.at].close
    BY <1>7 DEF ExitPrice
  <2> HIDE DEF fill
  <2> QED
    BY <1>1, <1>3, <1>7, <2>1 DEF fill
<1> QED
  BY <1>3, <1>5, <1>6, <1>7

(* What a trade made lies between what it was worth at worst and at best.  *)
LEMMA MadeWhatWasSeen ==
  ASSUME NEW b, IsDay(b), NEW s \in Sides, NEW e, NEW x, IsTrade(b, s, e, x), NEW qty \in Nat
  PROVE  LET seen == Excursions(s, qty, b, e, x)
             gross == GrossPnl(s, qty, e.price, ExitPrice(e, x, b))
         IN seen.mae <= 0 /\ 0 <= seen.mfe /\ seen.mae <= gross /\ gross <= seen.mfe
<1> DEFINE days == Monitored(b, e, x)
           top == Max({b[n].high : n \in days})
           bottom == Min({b[n].low : n \in days})
           good == IF s = "long" THEN top - e.price ELSE e.price - bottom
           bad == IF s = "long" THEN bottom - e.price ELSE e.price - top
           best == Larger(0, good)
           worst == Min({0, bad})
           fill == ExitPrice(e, x, b)
           move == Move(s, e.price, fill)
           seen == Excursions(s, qty, b, e, x)
           gross == GrossPnl(s, qty, e.price, fill)
<1>1. fill \in Int /\ e.price \in Int /\ (x.at = e.at => fill = e.price)
  BY FillsMoveTheMoney DEF IsTrade
<1>2. move \in Int /\ gross = qty * move
  BY <1>1 DEF Move, GrossPnl
<1>3. seen = IF days = {} THEN [mfe |-> 0, mae |-> 0] ELSE [mfe |-> qty * best, mae |-> qty * worst]
  BY DEF Excursions
<1>4. x.at \in DOMAIN b /\ e.at <= x.at /\ e.at \in DOMAIN b /\ DOMAIN b \subseteq Nat
  <2>1. DOMAIN b \subseteq Nat
    BY GridAssumption DEF IsDay, Ordinals
  <2> QED
    BY <2>1, ExitsWhereItMay DEF IsTrade
<1>5. CASE days = {}
  <2>1. x.at = e.at
    BY <1>4, <1>5 DEF Monitored
  <2>2. move = 0
    BY <1>1, <2>1 DEF Move
  <2>3. seen.mfe = 0 /\ seen.mae = 0
    BY <1>3, <1>5
  <2> HIDE DEF seen, gross, move
  <2>4. gross = 0
    BY <1>2, <2>2
  <2> QED
    BY <2>3, <2>4 DEF seen, gross, fill
<1>6. CASE days # {}
  <2>1. x.at \in days /\ e.at < x.at /\ days \subseteq Ordinals /\ days \subseteq DOMAIN b
    BY <1>4, <1>6 DEF Monitored, IsDay
  <2>2. \A n \in days : b[n].high \in Int /\ b[n].low \in Int
    BY <2>1 DEF IsDay, IsCandle
  <2> HIDE DEF days
  <2>3. top \in Int /\ bottom \in Int /\ b[x.at].high <= top /\ bottom <= b[x.at].low
    BY <2>1, <2>2, SeenAre
  <2> HIDE DEF top, bottom
  <2>4. /\ b[x.at].high \in Int /\ b[x.at].low \in Int /\ b[x.at].close \in Int
        /\ b[x.at].low <= b[x.at].close /\ b[x.at].close <= b[x.at].high
    BY <1>4 DEF IsDay, IsCandle
  <2>5. good \in Int /\ bad \in Int
    BY <1>1, <2>3
  <2>6. best \in Int /\ 0 <= best /\ good <= best
    BY <2>5 DEF Larger
  <2>7. worst \in Int /\ worst <= 0 /\ worst <= bad
    BY <2>5, LeastOfTwo
  <2>8. worst <= move /\ move <= best
    <3>1. CASE x.kind = "square-off"
      <4>1. fill = b[x.at].close
        BY <3>1, FillsMoveTheMoney
      <4> HIDE DEF fill, best, worst
      <4>2. bad <= move /\ move <= good
        BY <1>1, <2>3, <2>4, <4>1 DEF Move
      <4> HIDE DEF move, good, bad
      <4> QED
        BY <1>2, <2>5, <2>6, <2>7, <4>2
    <3>2. CASE x.kind = "stop"
      <4>1. fill = e.stop /\ HitStop(b[x.at], e, s) /\ e.stop \in Int
        BY <3>2, ExitsWhereItMay DEF ExitPrice, IsTrade
      <4>2. move = -Risk(e.price, e.stop, s) /\ Risk(e.price, e.stop, s) \in Nat
        BY <3>2, FillsMoveTheMoney DEF IsTrade
      <4> HIDE DEF fill, best, worst
      <4>3. bad <= move
        BY <1>1, <2>3, <2>4, <4>1 DEF Move, HitStop
      <4> HIDE DEF move, bad
      <4> QED
        BY <1>2, <2>5, <2>6, <2>7, <4>2, <4>3
    <3>3. CASE x.kind = "target"
      <4>1. fill = e.target /\ HitTarget(b[x.at], e, s)
        BY <3>3, ExitsWhereItMay DEF ExitPrice
      <4>2. move = TargetRiskMultiple * Risk(e.price, e.stop, s) /\ Risk(e.price, e.stop, s) \in Nat
        BY <3>3, FillsMoveTheMoney DEF IsTrade
      <4>3. move >= 0
        BY <4>2, MultipleAssumption, ProductAtLeast
      <4> HIDE DEF fill, best, worst
      <4>4. move <= good
        BY <1>1, <2>3, <2>4, <4>1 DEF Move, HitTarget
      <4> HIDE DEF move, good
      <4> QED
        BY <1>2, <2>5, <2>6, <2>7, <4>3, <4>4
    <3> QED
      BY <3>1, <3>2, <3>3, ExitsWhereItMay
  <2> HIDE DEF best, worst, move, good, bad
  <2>9. worst * qty <= 0 * qty /\ 0 * qty <= best * qty /\ worst * qty <= move * qty /\ move * qty <= best * qty
    BY <1>2, <2>6, <2>7, <2>8, TimesGrows
  <2>10. /\ worst * qty = qty * worst /\ best * qty = qty * best /\ move * qty = qty * move /\ 0 * qty = 0
    BY <1>2, <2>6, <2>7, Distributes
  <2>11. seen.mfe = qty * best /\ seen.mae = qty * worst
    BY <1>3, <1>6
  <2> HIDE DEF seen, gross
  <2>12. seen.mae <= 0 /\ 0 <= seen.mfe /\ seen.mae <= gross /\ gross <= seen.mfe
    BY <1>2, <2>9, <2>10, <2>11
  <2> QED
    BY <2>12 DEF seen, gross, fill
<1> QED
  BY <1>5, <1>6

(* The path of a trade rises in time from its entry to its fill. *)
IsPath(path, candles, first, last) ==
    /\ Len(path) \in Nat \ {0} /\ DOMAIN path = 1 .. Len(path)
    /\ path[1].price = first /\ Last(path) = last
    /\ \A i \in DOMAIN path : path[i].at \in candles
    /\ \A i, j \in DOMAIN path : i < j => path[i].at < path[j].at

(* Its prices are closes and, at last, the fill. *)
IsPriced(path, b, fill) ==
    \A i \in DOMAIN path : path[i].price = fill \/ \E n \in DOMAIN b : path[i].price = b[n].close

LEMMA PathsRise ==
  ASSUME NEW b, DOMAIN b \subseteq Ordinals, NEW e, NEW x, NEW fill,
         e.at \in DOMAIN b, x.at \in DOMAIN b, e.at <= x.at,
         b[e.at].close = e.price, x.at = e.at => fill = e.price
  PROVE  /\ IsPath(TradePath(b, e, x, fill), DOMAIN b, e.price, Mark(x.at, fill))
         /\ IsPriced(TradePath(b, e, x, fill), b, fill)
<1> DEFINE open == {n \in DOMAIN b : e.at <= n /\ n <= x.at}
           order == InOrder(open)
           k == Cardinality(open)
           marks == [i \in DOMAIN order |-> Mark(order[i], b[order[i]].close)]
           path == TradePath(b, e, x, fill)
           whole == [i \in 1 .. k |-> IF i = k THEN Mark(x.at, fill) ELSE marks[i]]
<1>1. DOMAIN b \subseteq Nat /\ IsFiniteSet(DOMAIN b)
  <2>1. IsFiniteSet(Ordinals) /\ Ordinals \subseteq Nat
    BY FS_Interval, GridAssumption DEF Ordinals
  <2> QED
    BY <2>1, FS_Subset
<1>2. open \subseteq Nat /\ IsFiniteSet(open)
  <2>1. open \in SUBSET DOMAIN b
    OBVIOUS
  <2> QED
    BY <1>1, <2>1, FS_Subset
<1>3. e.at \in open /\ x.at \in open /\ \A n \in open : e.at <= n /\ n <= x.at /\ n \in DOMAIN b
  BY <1>1
<1> HIDE DEF open
<1>4. /\ k \in Nat \ {0} /\ DOMAIN order = 1 .. k
      /\ \A i \in 1 .. k : order[i] \in open
      /\ \A i, j \in 1 .. k : i < j => order[i] < order[j]
      /\ order[1] = e.at /\ order[k] = x.at
  BY <1>2, <1>3, InOrderRises
<1> HIDE DEF order, k
<1>5. /\ marks \in Seq([at : open, price : {b[n].close : n \in open}]) /\ Len(marks) = k
      /\ \A i \in 1 .. k : marks[i] = Mark(order[i], b[order[i]].close)
  <2>1. \A i \in 1 .. k : marks[i] \in [at : open, price : {b[n].close : n \in open}]
    BY <1>4 DEF Mark
  <2> QED
    BY <1>4, <2>1
<1>6. path = Front(marks) \o <<Mark(x.at, fill)>>
  <2>1. marks # <<>> /\ marks[1].at = e.at /\ Last(marks).at = x.at
    <3>1. marks[1].at = order[1] /\ marks[k].at = order[k]
      BY <1>4, <1>5 DEF Mark
    <3> HIDE DEF marks
    <3> QED
      BY <1>4, <1>5, <3>1 DEF Last
  <2> QED
    BY <2>1 DEF TradePath, open, order
<1> HIDE DEF marks, path
<1>7. path = whole
  BY <1>4, <1>5, <1>6 DEF Front, Mark
<1>8. /\ Len(path) = k /\ DOMAIN path = 1 .. k /\ path[k] = Mark(x.at, fill)
      /\ \A i \in 1 .. k : i # k => path[i] = Mark(order[i], b[order[i]].close)
  BY <1>4, <1>5, <1>7
<1> HIDE DEF whole
<1>9. \A i \in 1 .. k : path[i].at = order[i]
  BY <1>4, <1>8 DEF Mark
<1>10. path[1].price = e.price
  BY <1>4, <1>8 DEF Mark
<1>11. IsPath(path, DOMAIN b, e.price, Mark(x.at, fill))
  BY <1>3, <1>4, <1>8, <1>9, <1>10 DEF IsPath, Last
<1>12. IsPriced(path, b, fill)
  <2>1. ASSUME NEW i \in 1 .. k PROVE path[i].price = fill \/ \E n \in DOMAIN b : path[i].price = b[n].close
    <3>1. order[i] \in DOMAIN b
      BY <1>3, <1>4
    <3>2. path[i] = Mark(x.at, fill) \/ path[i] = Mark(order[i], b[order[i]].close)
      BY <1>8
    <3> QED
      BY <3>1, <3>2 DEF Mark
  <2> QED
    BY <1>8, <2>1 DEF IsPriced
<1> QED
  BY <1>11, <1>12 DEF path

(* The trade of a row, if the row has one, is that of its candles. *)
IsTraded(r, b) ==
    /\ r.status = "evaluated" /\ r.side \in Sides /\ IsDay(b)
    /\ \E e, x : /\ IsTrade(b, r.side, e, x)
                 /\ r.trade = Traded(r.side, b, e, x) /\ r.exit = x.kind

(* Nothing of a row that has no trade is stated but that it made nothing. *)
LEMMA IdleIsAsStated ==
  ASSUME NEW r, NEW b, r.trade = NoTrade, r.status = "refused" => r.reason # "none"
  PROVE  IsAsStated(r, b)
<1> DEFINE h == RowHolds(r, b)
<1>1. /\ r.trade.qty = 0 /\ r.trade.net = 0 /\ r.trade.gross = 0 /\ r.trade.entry = NoRow
  BY DEF NoTrade
<1>2. ~(r.trade.qty > 0)
  BY <1>1
<1>3. /\ DOMAIN h = {"refusals", "idle", "costs", "budget", "tight", "extremes", "inside", "targets",
                     "stops", "marked", "grid", "paths", "session"}
      /\ h.refusals /\ h.idle /\ h.costs /\ h.budget /\ h.tight /\ h.extremes /\ h.inside
      /\ h.targets /\ h.stops /\ h.marked /\ h.grid /\ h.paths /\ h.session
  BY <1>1, <1>2 DEF RowHolds
<1> HIDE DEF h
<1>4. Fails(h) = {}
  BY <1>3 DEF Fails
<1> QED
  BY <1>2, <1>4 DEF IsAsStated, NobodyTraded, h

(* A trade that was too large for the budget holds no share. *)
LEMMA UnsizedIsAsStated ==
  ASSUME NEW r, NEW b, NEW e, NEW x, IsTrade(b, r.side, e, x), r.status = "evaluated",
         r.trade = [NoTrade EXCEPT !.entry = e.price, !.stop = e.stop],
         PositionSize(Risk(e.price, e.stop, r.side)) = 0
  PROVE  IsAsStated(r, b)
<1> DEFINE h == RowHolds(r, b)
           risk == Risk(e.price, e.stop, r.side)
<1>1. /\ r.trade.qty = 0 /\ r.trade.net = 0 /\ r.trade.gross = 0
      /\ r.trade.entry = e.price /\ r.trade.stop = e.stop
  BY DEF NoTrade
<1>2. ~(r.trade.qty > 0) /\ PerShareRisk(r) = risk
  BY <1>1 DEF PerShareRisk
<1>3. risk \in Nat \ {0} /\ 0 * risk <= RiskPerTrade /\ (0 + 1) * risk > RiskPerTrade
  BY SizesAreTight DEF IsTrade
<1> HIDE DEF risk
<1>4. r.trade.qty * PerShareRisk(r) <= RiskPerTrade /\ (r.trade.qty + 1) * PerShareRisk(r) > RiskPerTrade
  BY <1>1, <1>2, <1>3
<1>5. /\ DOMAIN h = {"refusals", "idle", "costs", "budget", "tight", "extremes", "inside", "targets",
                     "stops", "marked", "grid", "paths", "session"}
      /\ h.refusals /\ h.idle /\ h.costs /\ h.budget /\ h.tight /\ h.extremes /\ h.inside
      /\ h.targets /\ h.stops /\ h.marked /\ h.grid /\ h.paths /\ h.session
  BY <1>1, <1>2, <1>4, Zenon DEF RowHolds
<1> HIDE DEF h
<1>6. Fails(h) = {}
  BY <1>5 DEF Fails
<1> QED
  BY <1>2, <1>6 DEF IsAsStated, NobodyTraded, h

LEMMA TradedIsAsStated ==
  ASSUME NEW r, NEW b, IsTraded(r, b)
  PROVE  /\ IsAsStated(r, b)
         /\ r.trade.qty > 0 =>
              LET path == r.trade.path
              IN /\ \A i \in 1 .. Len(path) - 1 : path[i].at < path[i + 1].at
                 /\ GrossPnl(r.side, r.trade.qty, path[1].price, Last(path).price) = r.trade.gross
<1>1. PICK e, x : /\ IsTrade(b, r.side, e, x) /\ IsDay(b) /\ r.side \in Sides /\ r.status = "evaluated"
                  /\ r.trade = Traded(r.side, b, e, x) /\ r.exit = x.kind
  BY DEF IsTraded
<1> DEFINE s == r.side
           risk == Risk(e.price, e.stop, s)
           qty == PositionSize(risk)
           fill == ExitPrice(e, x, b)
           gross == GrossPnl(s, qty, e.price, fill)
           seen == Excursions(s, qty, b, e, x)
           path == TradePath(b, e, x, fill)
           h == RowHolds(r, b)
<1>2. /\ risk \in Nat \ {0} /\ qty \in Nat /\ qty * risk <= RiskPerTrade /\ (qty + 1) * risk > RiskPerTrade
  BY <1>1, SizesAreTight DEF IsTrade
<1>3. CASE qty = 0
  <2>1. r.trade = [NoTrade EXCEPT !.entry = e.price, !.stop = e.stop]
    BY <1>1, <1>3 DEF Traded
  <2>2. ~(r.trade.qty > 0)
    BY <2>1 DEF NoTrade
  <2>3. IsAsStated(r, b)
    BY <1>1, <1>3, <2>1, UnsizedIsAsStated
  <2> QED
    BY <2>2, <2>3
<1>4. CASE qty # 0
  <2> DEFINE trade == [entry |-> e.price, stop |-> e.stop, fill |-> fill, qty |-> qty,
                       gross |-> gross, net |-> gross - Cost, mfe |-> seen.mfe, mae |-> seen.mae,
                       path |-> path]
  <2>1. r.trade = trade
    BY <1>1, <1>4 DEF Traded
  <2>2. seen.mae <= 0 /\ 0 <= seen.mfe /\ seen.mae <= gross /\ gross <= seen.mfe
    BY <1>1, <1>2, MadeWhatWasSeen
  <2>3. /\ x.at \in DOMAIN b /\ e.at <= x.at
        /\ x.kind = "square-off" => (x.at = SquareOffBar <=> SquareOffBar \in DOMAIN b)
    BY <1>1, ExitsWhereItMay
  <2>4. /\ fill \in Int
        /\ x.kind = "stop" => Move(s, e.price, fill) = -risk
        /\ x.kind = "target" => Move(s, e.price, fill) = TargetRiskMultiple * risk
        /\ x.kind = "square-off" => fill = b[x.at].close
        /\ x.at = e.at => fill = e.price
    BY <1>1, FillsMoveTheMoney
  <2>5. IsPath(path, DOMAIN b, e.price, Mark(x.at, fill))
    BY <1>1, <2>3, <2>4, PathsRise DEF IsTrade, IsDay
  <2>6. gross = qty * Move(s, e.price, fill) /\ gross \in Int /\ Move(s, e.price, fill) \in Int
    <3>1. e.price \in Int
      BY <1>1 DEF IsTrade
    <3>2. Move(s, e.price, fill) \in Int
      BY <2>4, <3>1 DEF Move
    <3> HIDE DEF qty, fill
    <3>3. gross = qty * Move(s, e.price, fill)
      BY DEF GrossPnl, Move
    <3> QED
      BY <1>2, <3>2, <3>3, Distributes
  <2> HIDE DEF risk, qty, fill, gross, seen, path
  <2>7. /\ r.trade.qty = qty /\ r.trade.entry = e.price /\ r.trade.stop = e.stop /\ r.trade.fill = fill
        /\ r.trade.gross = gross /\ r.trade.net = gross - Cost /\ r.trade.mfe = seen.mfe
        /\ r.trade.mae = seen.mae /\ r.trade.path = path
    BY <2>1
  <2> HIDE DEF trade
  <2>8. PerShareRisk(r) = risk /\ r.trade.qty > 0 /\ qty # 0
    BY <1>2, <1>4, <2>7 DEF PerShareRisk, risk
  <2>9. path[1].price = e.price /\ Last(path).at = x.at /\ Last(path).price = fill
    BY <2>5 DEF IsPath, Mark
  <2>10. h.refusals /\ h.idle /\ h.costs
    BY <1>1, <2>7, <2>8 DEF RowHolds
  <2>11. h.budget /\ h.tight
    BY <1>2, <2>7, <2>8 DEF RowHolds
  <2>12. h.extremes /\ h.inside
    BY <2>2, <2>7 DEF RowHolds
  <2>13. h.targets
    <3>1. ASSUME x.kind = "target" PROVE gross = qty * TargetRiskMultiple * risk
      <4>1. qty * (TargetRiskMultiple * risk) = (qty * TargetRiskMultiple) * risk
        BY <1>2, MultipleAssumption, Distributes
      <4> QED
        BY <2>4, <2>6, <3>1, <4>1
    <3> QED
      BY <1>1, <2>7, <2>8, <3>1 DEF RowHolds
  <2>14. h.stops
    <3>1. ASSUME x.kind = "stop" PROVE gross = -qty * risk
      <4>1. gross = qty * (-risk) /\ risk \in Nat
        BY <1>2, <2>4, <2>6, <3>1
      <4> HIDE DEF gross, risk, qty
      <4>2. qty * (0 - risk) = qty * 0 - qty * risk /\ (0 - qty) * risk = 0 * risk - qty * risk
            /\ qty * risk \in Int /\ qty * 0 = 0 /\ 0 * risk = 0
        BY <1>2, Distributes
      <4>3. -risk = 0 - risk /\ -qty = 0 - qty
        BY <1>2
      <4> QED
        BY <4>1, <4>2, <4>3
    <3> QED
      BY <1>1, <2>7, <2>8, <3>1 DEF RowHolds
  <2>15. h.marked
    BY <1>1, <2>4, <2>7, <2>9 DEF RowHolds, ExitCandle
  <2>16. h.grid <=> ~NobodyTraded(r, b)
    BY <1>1, <2>3, <2>7, <2>8, <2>9 DEF RowHolds, ExitCandle, NobodyTraded
  <2>17. GrossPnl(s, qty, path[1].price, Last(path).price) = gross
    BY <2>9 DEF gross
  <2>18. h.paths
    BY <2>7, <2>17 DEF RowHolds, PathReconciles, MarkPnl
  <2>19. h.session
    <3>1. ASSUME NEW m \in ToSet(path) PROVE m.at \in Ordinals
      BY <1>1, <2>5, <3>1 DEF IsPath, IsDay, ToSet
    <3> QED
      BY <2>7, <3>1 DEF RowHolds
  <2>20. /\ DOMAIN h = {"refusals", "idle", "costs", "budget", "tight", "extremes", "inside", "targets",
                        "stops", "marked", "grid", "paths", "session"}
    BY DEF RowHolds
  <2> HIDE DEF h
  <2>21. Fails(h) = IF NobodyTraded(r, b) THEN {"grid"} ELSE {}
    BY <2>10, <2>11, <2>12, <2>13, <2>14, <2>15, <2>16, <2>18, <2>19, <2>20 DEF Fails
  <2>22. IsAsStated(r, b)
    BY <2>21 DEF IsAsStated, h
  <2>23. \A i \in 1 .. Len(path) - 1 : path[i].at < path[i + 1].at
    <3> TAKE i \in 1 .. Len(path) - 1
    <3>1. i \in DOMAIN path /\ i + 1 \in DOMAIN path /\ i < i + 1
      BY <2>5 DEF IsPath
    <3> QED
      BY <2>5, <3>1 DEF IsPath
  <2> QED
    BY <2>7, <2>17, <2>22, <2>23
<1> QED
  BY <1>3, <1>4

(* The middle of a profile's highest row. *)
LEMMA ProfileIsAPrice ==
  ASSUME NEW bars \in Seq(StoredBars), NEW tick \in Nat \ {0}, NEW licence,
         ~ProfileRaises(WindowBars(bars))
  PROVE  PriceOrNone(Profile(bars, tick, licence))
<1> DEFINE window == WindowBars(bars)
           rows == BuildRows(High(window), Low(window), tick)
           d == Denominator(window)
           volumes == SpreadVolume(window, rows, d)
           n == Len(rows)
           top == {i \in DOMAIN volumes : \A j \in DOMAIN volumes : volumes[j] <= volumes[i]}
<1>1. window \in Seq(StoredBars)
  BY StampedArePicked DEF WindowBars
<1>2. CASE licence # TRUE \/ window = <<>>
  BY <1>2 DEF Profile, PriceOrNone
<1>3. CASE licence = TRUE /\ window # <<>>
  <2>0. Profile(bars, tick, licence) = rows[PocRow(volumes)].lo + rows[PocRow(volumes)].hi
    BY <1>3 DEF Profile
  <2>1. \A k \in DOMAIN window : window[k] \in StoredBars /\ window[k].h \in Int /\ window[k].l \in Int
                                 /\ window[k].l <= window[k].h
    <3> TAKE k \in DOMAIN window
    <3>1. window[k] \in StoredBars
      BY <1>1
    <3>2. window[k].h \in Int /\ window[k].l \in Int
      BY <3>1 DEF StoredBars
    <3>3. ~(window[k].h < window[k].l)
      BY DEF ProfileRaises
    <3> HIDE DEF window
    <3> QED
      BY <3>1, <3>2, <3>3
  <2>2. /\ High(window) \in Int /\ Low(window) \in Int /\ d \in Int
        /\ \A k \in DOMAIN window : window[k].h <= High(window) /\ Low(window) <= window[k].l
        /\ \A k \in DOMAIN window : window[k].l < window[k].h => Divides(window[k].h - window[k].l, d)
    <3> HIDE DEF window
    <3> QED
      BY <1>1, <1>3, BarsAreBetween, RangesDivide
  <2>3. Low(window) <= High(window)
    <3> HIDE DEF window
    <3>1. 1 \in DOMAIN window
      BY <1>1, <1>3
    <3>2. /\ window[1].h \in Int /\ window[1].l \in Int /\ window[1].l <= window[1].h
          /\ window[1].h <= High(window) /\ Low(window) <= window[1].l
      BY <2>1, <2>2, <3>1
    <3> QED
      BY <2>2, <3>2
  <2>4. Stacked(rows, n, Low(window), High(window))
    <3> HIDE DEF window
    <3> QED
      BY <2>2, <2>3, RowsAreStacked
  <2>5. n \in Nat \ {0} /\ DOMAIN rows = 1 .. n /\ \A i \in 1 .. n : rows[i].lo \in Int /\ rows[i].hi \in Int
    BY <2>4 DEF Stacked
  <2> HIDE DEF window, rows, n, d
  <2>6. \A k \in DOMAIN window : \A i \in 1 .. n : Share(window[k], rows, i, d) \in Int
    BY <2>1, <2>2, <2>4, BarIsConserved
  <2>7. DOMAIN volumes = 1 .. n /\ \A i \in 1 .. n : volumes[i] \in Int
    <3>1. DOMAIN volumes = 1 .. n
      BY <2>5 DEF SpreadVolume
    <3>2. ASSUME NEW i \in 1 .. n PROVE volumes[i] \in Int
      <4> DEFINE f == [k \in DOMAIN window |-> Share(window[k], rows, i, d)]
      <4>1. DOMAIN window = 1 .. Len(window) /\ Len(window) \in Nat
        BY <1>1
      <4>2. \A k \in 1 .. Len(window) : f[k] \in Int
        BY <2>6, <4>1
      <4>3. volumes[i] = SumTo(f, Len(window))
        BY <2>5 DEF SpreadVolume
      <4> HIDE DEF f
      <4>4. \A k \in 0 .. Len(window) : SumTo(f, k) \in Int
        BY <4>1, <4>2, SumIsInt
      <4> QED
        BY <4>1, <4>3, <4>4
    <3> QED
      BY <3>1, <3>2
  <2> HIDE DEF volumes
  <2>8. top # {} /\ top \subseteq 1 .. n
    <3>1. PICK i \in 1 .. n : \A j \in 1 .. n : volumes[j] <= volumes[i]
      BY <2>5, <2>7, OneIsGreatest
    <3> QED
      BY <2>7, <3>1
  <2>9. PocRow(volumes) \in top
    <3>1. PocRow(volumes) = Max(top)
      BY DEF PocRow
    <3> HIDE DEF top
    <3>2. PICK x \in top : \A y \in top : y <= x
      BY <2>5, <2>8, HasGreatest
    <3>3. \A y \in top : x >= y
      BY <2>5, <2>8, <3>2
    <3> QED
      BY <3>1, <3>3, Zenon DEF Max
  <2>10. PocRow(volumes) \in 1 .. n
    BY <2>8, <2>9
  <2> HIDE DEF top
  <2>11. rows[PocRow(volumes)].lo \in Int /\ rows[PocRow(volumes)].hi \in Int
    BY <2>5, <2>10
  <2>12. rows[PocRow(volumes)].lo + rows[PocRow(volumes)].hi \in Int
    BY <2>11
  <2> QED
    BY <2>0, <2>12 DEF PriceOrNone
<1> QED
  BY <1>2, <1>3

-----------------------------------------------------------------------------
(* What is true of a row however the day went. *)
Sound(r, b) ==
    /\ r.status \in {"evaluated", "refused"} /\ r.side \in {"none"} \cup Sides
    /\ r.status = "evaluated" <=> r.reason = "evaluated"
    /\ r.status = "evaluated" <=> r.outcome # "none"
    /\ PriceOrNone(r.poc2) /\ PriceOrNone(r.trade.fill)
    /\ r.trade.qty > 0 => r.outcome = "entered" /\ r.trade.fill # NoRow
    /\ r.status = "refused" => r.reason # "none"
    /\ r.trade = NoTrade \/ IsTraded(r, b)

(* The candles of a day. *)
CandlesIn(s, d) == Aggregate(InSessionBars(Minutes(s, d)))

LEMMA TradesAreFilled ==
  ASSUME NEW side, NEW bars, NEW e, NEW x, ExitPrice(e, x, bars) \in Int
  PROVE  LET t == Traded(side, bars, e, x)
         IN PriceOrNone(t.fill) /\ (t.qty > 0 => t.fill # NoRow)
<1> DEFINE qty == PositionSize(Risk(e.price, e.stop, side))
           fill == ExitPrice(e, x, bars)
           t == Traded(side, bars, e, x)
<1>1. CASE qty = 0
  <2>1. t = [NoTrade EXCEPT !.entry = e.price, !.stop = e.stop]
    BY <1>1 DEF Traded
  <2>2. t.fill = NoRow /\ t.qty = 0
    BY <2>1 DEF NoTrade
  <2> HIDE DEF t
  <2>3. ~(t.qty > 0)
    BY <2>2
  <2> QED
    BY <2>2, <2>3 DEF PriceOrNone, t
<1>2. CASE qty # 0
  <2>1. t.fill = fill
    BY <1>2 DEF Traded
  <2>2. NoRow \notin Int
    BY GatesAssumption
  <2> HIDE DEF t, fill, qty
  <2> QED
    BY <2>1, <2>2 DEF PriceOrNone, fill, t
<1> QED
  BY <1>1, <1>2

LEMMA NothingTraded == NoTrade.fill = NoRow /\ ~(NoTrade.qty > 0)
<1>1. NoTrade.fill = NoRow /\ NoTrade.qty = 0
  BY DEF NoTrade
<1> QED
  BY <1>1

LEMMA SimulationIsSound ==
  ASSUME NEW row, Shaped(row), row.status = "evaluated", row.reason = "evaluated",
         row.side \in Sides, row.poc2 \in Int, NEW b, IsDay(b)
  PROVE  Sound(SimulateDay(row, EvaluateDay(b, row.side, row.poc2), b), b)
<1> DEFINE answer == EvaluateDay(b, row.side, row.poc2)
           trade == IF answer.outcome # "entered" THEN NoTrade
                    ELSE Traded(row.side, b, answer.entry, answer.exit)
           shapes == Shapes(row, answer, trade, b)
           out == [row EXCEPT !.outcome = answer.outcome, !.exit = answer.exit.kind, !.trade = trade,
                              !.shapes = shapes]
<1>1. SimulateDay(row, answer, b) = out
  BY DEF SimulateDay, SimulatedRow
<1>2. /\ answer.outcome # "none"
      /\ answer.outcome = "entered" => /\ ExitPrice(answer.entry, answer.exit, b) \in Int
                                        /\ IsTrade(b, row.side, answer.entry, answer.exit)
  <2>1. CASE ~HasReference(b) /\ answer = NoReferenceAnswer(b)
    BY <2>1 DEF NoReferenceAnswer, Answer
  <2>2. CASE answer = Answer(NoCrossOutcome(UncrossedState(b, row.side, row.poc2)),
                             UncrossedState(b, row.side, row.poc2), NoEntry, NoExit)
    BY <2>2 DEF NoCrossOutcome, Answer
  <2>3. ASSUME HasReference(b), NEW n \in Window(b), FirstCross(b, row.side, row.poc2, n),
               answer = Answer("entered", "armed", Entry(b, n, row.side, row.poc2),
                               Exit(b, Entry(b, n, row.side, row.poc2), row.side))
        PROVE  /\ answer.outcome # "none" /\ ExitPrice(answer.entry, answer.exit, b) \in Int
               /\ IsTrade(b, row.side, answer.entry, answer.exit)
    <3>1. answer.outcome = "entered" /\ answer.entry = Entry(b, n, row.side, row.poc2)
          /\ answer.exit = Exit(b, Entry(b, n, row.side, row.poc2), row.side)
      BY <2>3 DEF Answer
    <3>2. ExitPrice(Entry(b, n, row.side, row.poc2), Exit(b, Entry(b, n, row.side, row.poc2), row.side), b) \in Int
      BY <2>3, ExitsHaveAPrice
    <3>3. IsTrade(b, row.side, Entry(b, n, row.side, row.poc2), Exit(b, Entry(b, n, row.side, row.poc2), row.side))
      BY <2>3, CrossIsATrade
    <3> HIDE DEF answer
    <3> QED
      BY <3>1, <3>2, <3>3
  <2> QED
    BY <2>1, <2>2, <2>3, AnswerOf
<1> HIDE DEF answer
<1>3. PriceOrNone(trade.fill) /\ (trade.qty > 0 => answer.outcome = "entered" /\ trade.fill # NoRow)
  <2>1. CASE answer.outcome # "entered"
    BY <2>1, NothingTraded DEF PriceOrNone
  <2>2. CASE answer.outcome = "entered"
    BY <1>2, <2>2, TradesAreFilled
  <2> QED
    BY <2>1, <2>2
<1>6. trade = NoTrade \/ /\ IsTrade(b, row.side, answer.entry, answer.exit)
                         /\ trade = Traded(row.side, b, answer.entry, answer.exit)
  BY <1>2
<1> HIDE DEF trade, shapes
<1>4. /\ out.outcome = answer.outcome /\ out.trade = trade /\ out.status = "evaluated"
      /\ out.reason = "evaluated" /\ out.side = row.side /\ out.poc2 = row.poc2
      /\ out.exit = answer.exit.kind
  BY DEF Shaped, RowFields
<1> HIDE DEF out
<1>7. out.trade = NoTrade \/ IsTraded(out, b)
  BY <1>4, <1>6 DEF IsTraded
<1>5. Sound(out, b)
  BY <1>2, <1>3, <1>4, <1>7 DEF Sound, PriceOrNone
<1> QED
  BY <1>1, <1>5 DEF answer

(* A row that is refused before anything was simulated. *)
Bare(r) ==
    /\ Shaped(r) /\ r.side \in {"none"} \cup Sides /\ r.poc2 = NoRow
    /\ r.outcome = "none" /\ r.trade = NoTrade

LEMMA RefusedIsSound ==
  ASSUME NEW row, Bare(row), NEW why, why \notin {"evaluated", "none"}, NEW b
  PROVE  Sound([row EXCEPT !.status = "refused", !.reason = why], b)
<1> DEFINE out == [row EXCEPT !.status = "refused", !.reason = why]
<1>1. /\ out.status = "refused" /\ out.reason = why /\ out.side = row.side /\ out.poc2 = NoRow
      /\ out.outcome = "none" /\ out.trade = NoTrade
  BY DEF Bare, Shaped, RowFields
<1> HIDE DEF out
<1>2. Sound(out, b)
  BY <1>1, NothingTraded DEF Sound, Bare, PriceOrNone
<1> QED
  BY <1>2 DEF out

LEMMA GatedSessionsAreSane ==
  ASSUME NEW s, NEW d, Minutes(s, d) \in Seq(StoredBars), Refusal(GateDay(s, d)) = "none"
  PROVE  LET session == InSessionBars(Minutes(s, d))
         IN \A k \in DOMAIN session : Sane(session[k]) /\ session[k].t \in 0 .. SessionMinutes - 1
<1> DEFINE bars == Minutes(s, d)
           session == InSessionBars(bars)
<1>1. PICK reconciled : IntegrityGate(bars, reconciled, TRUE).passed
  <2>1. GateDay(s, d).reconciled # NoRow /\ GateDay(s, d).gate2
    BY DEF Refusal
  <2>2. d \in DOMAIN s.rows
    BY <2>1 DEF GateDay, GatesWithoutRow
  <2> QED
    BY <2>1, <2>2 DEF GateDay, GatesOf
<1> HIDE DEF bars
<1>2. bars \in Seq(StoredBars)
  BY DEF bars
<1>3. session \in Seq(StoredBars)
      /\ \E at : Picks(bars, 0 .. SessionMinutes - 1, Len(bars), session, at)
  BY <1>2, StampedArePicked DEF InSessionBars
<1> HIDE DEF session
<1>4. PICK at : Picks(bars, 0 .. SessionMinutes - 1, Len(bars), session, at)
  BY <1>3
<1>5. ASSUME NEW k \in DOMAIN session
      PROVE  /\ at[k] \in Inside(bars) /\ session[k] = bars[at[k]]
             /\ session[k].t \in 0 .. SessionMinutes - 1
  BY <1>2, <1>3, <1>4 DEF Picks, Inside, InSession
<1>6. \A k \in DOMAIN session : Sane(session[k])
  BY <1>1, <1>2, <1>5, PassedGateTwo
<1> QED
  BY <1>5, <1>6 DEF bars, session

LEMMA EvaluationIsSound ==
  ASSUME NEW s, NEW d, NEW day, NEW row, Bare(row), row.status = "evaluated", row.reason = "evaluated",
         Minutes(s, d) \in Seq(StoredBars), s.tick \in Nat \ {0}
  PROVE  Sound(Evaluate(s, d, day, GateDay(s, d), row), CandlesIn(s, d))
<1> DEFINE candles == CandlesIn(s, d)
           bars == InSessionBars(Minutes(s, d))
           gates == GateDay(s, d)
           dropped == row.dropped \/ DroppedBars(Minutes(s, d)) > 0
           sided == [row EXCEPT !.side = SideOf(day.bias), !.dropped = dropped]
           poc2 == Profile(bars, s.tick, gates.reconciled)
           whole == Evaluate(s, d, day, gates, row)
           refused(why) == [row EXCEPT !.status = "refused", !.reason = why]
<1>1. ASSUME Refusal(gates) # "none" PROVE Sound(whole, candles)
  <2>1. whole = refused(Refusal(gates))
    BY <1>1 DEF Evaluate
  <2>2. Refusal(gates) \notin {"evaluated", "none"}
    BY <1>1 DEF Refusal
  <2> HIDE DEF gates, whole
  <2>3. Sound(refused(Refusal(gates)), candles)
    BY <2>2, RefusedIsSound
  <2> QED
    BY <2>1, <2>3
<1>2. ASSUME Refusal(gates) = "none", day.rule = "suppressed" \/ SideOf(day.bias) = "none"
      PROVE  Sound(whole, candles)
  <2>1. whole = refused("suppressed") \/ whole = refused("no-bias")
    BY <1>2 DEF Evaluate
  <2>2. Sound(refused("suppressed"), candles) /\ Sound(refused("no-bias"), candles)
    BY RefusedIsSound
  <2> HIDE DEF whole
  <2> QED
    BY <2>1, <2>2
<1>3. ASSUME Refusal(gates) = "none", day.rule # "suppressed", SideOf(day.bias) # "none"
      PROVE  Sound(whole, candles)
  <2>1. whole = SignalRow(sided, bars, poc2)
    BY <1>3 DEF Evaluate
  <2>2. /\ bars \in Seq(StoredBars) /\ ~ProfileRaises(WindowBars(bars))
        /\ \A k \in DOMAIN bars : Sane(bars[k]) /\ bars[k].t \in 0 .. SessionMinutes - 1
    BY <1>3, GatedDaysNeverRaise, GatedSessionsAreSane, StampedArePicked DEF InSessionBars
  <2>3. IsDay(Aggregate(bars))
    <3> HIDE DEF bars
    <3> QED
      BY <2>2, CandlesAreADay
  <2>4. PriceOrNone(poc2)
    <3> HIDE DEF bars, gates
    <3> QED
      BY <2>2, ProfileIsAPrice
  <2>5. /\ Bare(sided) /\ sided.side \in Sides
        /\ sided.status = "evaluated" /\ sided.reason = "evaluated"
    <3>1. SideOf(day.bias) \in Sides
      BY <1>3 DEF SideOf, Sides
    <3> HIDE DEF dropped
    <3> QED
      BY <3>1 DEF Bare, Shaped, RowFields
  <2>8. candles = Aggregate(bars)
    BY DEF CandlesIn
  <2> HIDE DEF bars, sided, poc2, gates, whole, candles
  <2>6. CASE poc2 = NoRow
    <3>1. SignalRow(sided, bars, poc2) = [sided EXCEPT !.status = "refused", !.reason = "no-poc"]
      BY <2>6 DEF SignalRow
    <3>2. Sound([sided EXCEPT !.status = "refused", !.reason = "no-poc"], candles)
      BY <2>5, RefusedIsSound
    <3> QED
      BY <2>1, <3>1, <3>2
  <2>7. CASE poc2 # NoRow
    <3> DEFINE priced == [sided EXCEPT !.poc2 = poc2]
               b == Aggregate(bars)
    <3>1. /\ Shaped(priced) /\ priced.side = sided.side /\ priced.poc2 = poc2
          /\ priced.status = "evaluated" /\ priced.reason = "evaluated"
      BY <2>5 DEF Bare, Shaped, RowFields
    <3>2. poc2 \in Int
      BY <2>4, <2>7 DEF PriceOrNone
    <3>3. SignalRow(sided, bars, poc2) = SimulateDay(priced, EvaluateDay(b, sided.side, poc2), b)
      BY <2>7 DEF SignalRow
    <3> HIDE DEF priced, b
    <3>4. IsDay(b)
      BY <2>3 DEF b
    <3>5. Sound(SimulateDay(priced, EvaluateDay(b, priced.side, priced.poc2), b), b)
      BY <2>5, <3>1, <3>2, <3>4, SimulationIsSound
    <3> QED
      BY <2>1, <2>8, <3>1, <3>3, <3>5 DEF b
  <2> QED
    BY <2>6, <2>7
<1>4. Sound(whole, candles)
  <2> HIDE DEF whole, gates, candles
  <2> QED
    BY <1>1, <1>2, <1>3
<1> QED
  BY <1>4 DEF whole

(* A row of a symbol's walk is sound, and its bias is one. *)
LEMMA WalkedRowsAreSound ==
  ASSUME NEW w \in Worlds, NEW x \in DOMAIN w.symbols, NEW sessions,
         NEW r \in ToSet(WalkSymbol(w, x, sessions))
  PROVE  /\ Sound(r, CandlesIn(w.symbols[x], r.day))
         /\ r.symbol = x /\ r.day \in Span
<1>1. PICK d \in Span : r = [RowOf(w, x, sessions, d) EXCEPT !.symbol = x]
  BY RowsAreOfDays
<1> DEFINE s == w.symbols[x]
           series == BiasMap(s, w.trading \ sessions)
           row == RowOf(w, x, sessions, d)
           out == [row EXCEPT !.symbol = x]
           candles == CandlesIn(s, d)
<1>2. Minutes(s, d) \in Seq(StoredBars) /\ s.tick \in Nat \ {0}
  BY BacktestAssumption DEF Minutes
<1> HIDE DEF series, s, candles
<1>3. ASSUME NEW why, why \notin {"evaluated", "none"}
      PROVE  /\ Sound(RefusedRow(d, why), candles) /\ Shaped(RefusedRow(d, why))
             /\ RefusedRow(d, why).day = d /\ RefusedRow(d, why).trade = NoTrade
  <2> DEFINE q == RefusedRow(d, why)
  <2>1. /\ Shaped(q) /\ q.status = "refused" /\ q.reason = why /\ q.side = "none" /\ q.poc2 = NoRow
        /\ q.outcome = "none" /\ q.trade = NoTrade /\ q.day = d
    BY DEF RefusedRow, EmptyRow, Shaped, RowFields
  <2> HIDE DEF q
  <2> QED
    BY <1>3, <2>1, NothingTraded DEF Sound, PriceOrNone, q
<1>4. Sound(row, candles) /\ Shaped(row) /\ row.day = d
  <2>1. CASE d \in sessions
    BY <1>3, <2>1 DEF RowOf
  <2>2. CASE d \notin sessions /\ d \notin DOMAIN series
    BY <1>3, <2>2 DEF RowOf, WalkOneDay, series, s
  <2>3. CASE d \notin sessions /\ d \in DOMAIN series /\ Unresolved(series[d])
    <3> DEFINE q == RefusedRow(d, series[d].rule)
               changed == [q EXCEPT !.bias = series[d].bias, !.rule = series[d].rule]
    <3>1. row = changed
      BY <2>3 DEF RowOf, WalkOneDay, series, s
    <3>2. Sound(q, candles) /\ Shaped(q) /\ q.day = d /\ q.trade = NoTrade
      <4>1. series[d].rule \notin {"evaluated", "none"}
        BY <2>3 DEF Unresolved
      <4> QED
        BY <1>3, <4>1
    <3> HIDE DEF q, row
    <3>3. /\ Shaped(changed) /\ changed.status = q.status /\ changed.reason = q.reason
          /\ changed.side = q.side /\ changed.poc2 = q.poc2
          /\ changed.outcome = q.outcome /\ changed.trade = q.trade /\ changed.day = q.day
      BY <3>2 DEF Shaped, RowFields
    <3> HIDE DEF changed
    <3> QED
      BY <3>1, <3>2, <3>3 DEF Sound
  <2>4. CASE d \notin sessions /\ d \in DOMAIN series /\ ~Unresolved(series[d])
    <3> DEFINE day == series[d]
               start == [EmptyRow(d, "evaluated", "evaluated") EXCEPT
                            !.bias = day.bias, !.rule = day.rule, !.dropped = day.dropped]
    <3>1. row = WalkDay(s, d, day)
      BY <2>4 DEF RowOf, WalkOneDay, series, s
    <3>2. Shaped(row) /\ row.day = d
      BY <3>1, WalkKeepsTheDay DEF SameDay
    <3>3. Bare(start) /\ start.status = "evaluated" /\ start.reason = "evaluated"
      BY DEF Bare, EmptyRow, Shaped, RowFields
    <3>4. row = [start EXCEPT !.status = "refused", !.reason = "no-minutes"]
          \/ row = Evaluate(s, d, day, GateDay(s, d), start)
      BY <3>1 DEF WalkDay
    <3> HIDE DEF row, start, day
    <3>5. Sound(Evaluate(s, d, day, GateDay(s, d), start), candles)
      BY <1>2, <3>3, EvaluationIsSound DEF candles
    <3>6. Sound([start EXCEPT !.status = "refused", !.reason = "no-minutes"], candles)
      BY <3>3, RefusedIsSound
    <3> QED
      BY <3>2, <3>4, <3>5, <3>6
  <2> QED
    BY <2>1, <2>2, <2>3, <2>4
<1> HIDE DEF row
<1>5. /\ out.status = row.status /\ out.reason = row.reason /\ out.side = row.side
      /\ out.poc2 = row.poc2 /\ out.outcome = row.outcome /\ out.trade = row.trade
      /\ out.exit = row.exit /\ out.day = row.day /\ out.symbol = x
  BY <1>4 DEF Shaped, RowFields
<1>6. r = out
  BY <1>1 DEF row
<1> HIDE DEF out
<1>7. IsTraded(row, candles) => IsTraded(out, candles)
  BY <1>5 DEF IsTraded
<1>8. Sound(out, candles)
  BY <1>4, <1>5, <1>7 DEF Sound
<1> QED
  BY <1>4, <1>5, <1>6, <1>8 DEF candles, s

LEMMA BiasesAreBiases ==
  ASSUME NEW w \in Worlds, NEW x \in DOMAIN w.symbols, NEW sessions,
         NEW r \in ToSet(WalkSymbol(w, x, sessions))
  PROVE  r.bias \in {"none", "bullish", "bearish"} /\ r.day \in Span
<1> DEFINE trading == w.trading \ sessions
           s == w.symbols[x]
           series == BiasMap(s, trading)
<1>1. KeepsItsBias(w, x, sessions, r)
  BY RowKeepsItsBias
<1>2. \A d : DecidedOn(s, trading, d) \in {"none", "bullish", "bearish"}
  <2>1. \A p, c, m : EvaluatePair(p, c, m, "none").bias \in {"none", "bullish", "bearish"}
    BY DEF EvaluatePair, RuleThree, Decided, Carried
  <2> QED
    BY <2>1 DEF DecidedOn, DecisionOf
<1>3. DOMAIN series = BiasDays(trading)
  BY BiasMapUnfolds
<1>4. \A d \in BiasDays(trading) : series[d].bias \in {"none", "bullish", "bearish"}
  <2> TAKE d \in BiasDays(trading)
  <2>1. series[d].bias = IF DecidingDays(s, trading, d) = {} THEN "none"
                         ELSE DecidedOn(s, trading, Max(DecidingDays(s, trading, d)))
    BY SeriesHoldsTheLastDecision
  <2> QED
    BY <1>2, <2>1
<1> HIDE DEF series, trading, s
<1>5. /\ r.day \in Span
      /\ r.day \notin sessions /\ r.day \in DOMAIN series => r.bias = series[r.day].bias
      /\ r.day \in sessions \/ r.day \notin DOMAIN series => r.bias = "none"
  BY <1>1, Zenon DEF KeepsItsBias, series, trading, s
<1> QED
  BY <1>3, <1>4, <1>5

(* Whatever the stores hold and whoever died before: every row that is     *)
(* walked has its shape, and a manifest stands for a run that noted every  *)
(* symbol.                                                                 *)
THEOREM RowsHaveTheirShape == Spec => []TypeOK
<1>1. RunInv => TypeOK
  <2> SUFFICES ASSUME RunInv PROVE TypeOK
    OBVIOUS
  <2>1. /\ proc.pc \in {"off", "scan", "save-scan", "resume", "walk", "record", "manifest", "raised"}
        /\ proc.next \in 1 .. Len(SymbolOrder) + 1
    BY DEF RunInv, ProcOK
  <2>2. disk.manifest # NoRow => ToSet(SymbolOrder) \subseteq ToSet(disk.progress.done)
    BY DEF RunInv, BooksOK, Complete, RunSymbols
  <2>3. ASSUME At("record"), NEW i \in DOMAIN disk.shards[Symbol].rows
        PROVE  RowOK(disk.shards[Symbol].rows[i])
    <3> DEFINE r == disk.shards[Symbol].rows[i]
               sessions == proc.sessions
    <3>1. proc.sessions = NonStandardSessions(world) /\ world \in Worlds
      BY <2>3 DEF RunInv, ScanOK, Walking, At, InputsOK
    <3>2. disk.shards[Symbol].rows = WalkSymbol(world, Symbol, sessions)
      BY <2>3, <3>1 DEF RunInv, WalkOK, Walking, At, IsWalkedBy, WholeWalk
    <3>3. r \in ToSet(WalkSymbol(world, Symbol, sessions))
      BY <3>2 DEF ToSet
    <3>4. Symbol \in DOMAIN world.symbols
      <4>1. proc.next \in 1 .. Len(SymbolOrder)
        BY <2>1, <2>3, SymbolsAreSymbols DEF RunInv, ProcOK
      <4>2. Symbol \in RunSymbols
        BY <4>1, SymbolsAreSymbols DEF Symbol
      <4> QED
        BY <3>1, <4>2, BacktestAssumption DEF RunSymbols
    <3> HIDE DEF r, sessions
    <3>5. Sound(r, CandlesIn(world.symbols[Symbol], r.day)) /\ r.bias \in {"none", "bullish", "bearish"} /\ r.day \in Span
      BY <3>1, <3>3, <3>4, WalkedRowsAreSound, BiasesAreBiases
    <3>6. RowOK(r)
      BY <3>5 DEF Sound, RowOK
    <3> QED
      BY <3>6 DEF r
  <2> QED
    BY <2>1, <2>2, <2>3 DEF TypeOK
<1> QED
  BY RunAlways, <1>1, PTL

-----------------------------------------------------------------------------
(* Sequences put one after the other. *)
FlatStep(seqs, f, i) == IF i = 1 THEN seqs[i] ELSE f[i - 1] \o seqs[i]

IsFlat(seqs, n, f) == f = [i \in 1 .. n |-> FlatStep(seqs, f, i)]

LEMMA FlatExists ==
  ASSUME NEW seqs, NEW n \in Nat \ {0}
  PROVE  \E f : IsFlat(seqs, n, f)
<1> DEFINE T == {i \in 1 .. n : ~\E f : IsFlat(seqs, i, f)}
<1>1. IsFlat(seqs, 1, [i \in 1 .. 1 |-> seqs[1]])
  BY DEF IsFlat, FlatStep
<1>2. ASSUME T # {} PROVE FALSE
  <2>1. PICK m \in T : \A i \in T : m <= i
    <3> HIDE DEF T
    <3>1. T \subseteq 1 .. n
      BY DEF T
    <3> QED
      BY <1>2, <3>1, HasLeast
  <2>2. m \in 1 .. n /\ m - 1 \in 1 .. n
    BY <1>1, <2>1
  <2>3. \E f : IsFlat(seqs, m - 1, f)
    BY <2>1, <2>2
  <2>4. PICK f : IsFlat(seqs, m - 1, f)
    BY <2>3
  <2> DEFINE more == [i \in 1 .. m |-> IF i = m THEN FlatStep(seqs, f, m) ELSE f[i]]
  <2>5. ASSUME NEW i \in 1 .. m PROVE more[i] = FlatStep(seqs, more, i)
    <3>1. i # 1 => more[i - 1] = f[i - 1]
      BY <2>2
    <3>2. FlatStep(seqs, more, i) = FlatStep(seqs, f, i)
      BY <3>1 DEF FlatStep
    <3>3. i # m => f[i] = FlatStep(seqs, f, i)
      BY <2>2, <2>4 DEF IsFlat
    <3> QED
      BY <3>2, <3>3
  <2>6. more = [i \in 1 .. m |-> FlatStep(seqs, more, i)]
    BY <2>5
  <2>7. IsFlat(seqs, m, more)
    <3> HIDE DEF more
    <3> QED
      BY <2>6 DEF IsFlat
  <2> QED
    BY <2>1, <2>7
<1> QED
  BY <1>1, <1>2

LEMMA FlatIsOfThem ==
  ASSUME NEW R, NEW seqs \in Seq(Seq(R)), seqs # <<>>
  PROVE  FlattenSeq(seqs) \in Seq(R)
<1> DEFINE n == Len(seqs)
           f == CHOOSE g : g = [i \in 1 .. n |-> IF i = 1 THEN seqs[i] ELSE g[i - 1] \o seqs[i]]
<1>1. n \in Nat \ {0} /\ \A i \in 1 .. n : seqs[i] \in Seq(R)
  OBVIOUS
<1>2. \E g : g = [i \in 1 .. n |-> IF i = 1 THEN seqs[i] ELSE g[i - 1] \o seqs[i]]
  <2>1. PICK g : IsFlat(seqs, n, g)
    BY <1>1, FlatExists
  <2> QED
    BY <2>1, Zenon DEF IsFlat, FlatStep
<1>3. f = [i \in 1 .. n |-> IF i = 1 THEN seqs[i] ELSE f[i - 1] \o seqs[i]]
  BY <1>2, Zenon
<1>4. Len(seqs) # 0
  BY <1>1
<1>5. FlattenSeq(seqs) = f[n]
  BY <1>4, Zenon DEF FlattenSeq
<1> HIDE DEF f, n
<1>6. \A i \in 1 .. n : f[i] = IF i = 1 THEN seqs[i] ELSE f[i - 1] \o seqs[i]
  BY <1>3
<1> DEFINE T == {i \in 1 .. n : f[i] \notin Seq(R)}
<1>7. ASSUME T # {} PROVE FALSE
  <2>1. PICK m \in T : \A i \in T : m <= i
    <3> HIDE DEF T
    <3>1. T \subseteq 1 .. n
      BY DEF T
    <3> QED
      BY <1>1, <1>7, <3>1, HasLeast
  <2>2. m \in 1 .. n /\ f[m] \notin Seq(R)
    BY <2>1
  <2>3. m # 1 => m - 1 \in 1 .. n /\ f[m - 1] \in Seq(R)
    BY <1>1, <2>1, <2>2
  <2>4. f[m] = IF m = 1 THEN seqs[m] ELSE f[m - 1] \o seqs[m]
    BY <1>6, <2>2
  <2>5. seqs[m] \in Seq(R)
    BY <1>1, <2>2
  <2> QED
    BY <2>2, <2>3, <2>4, <2>5
<1>8. f[n] \in Seq(R)
  BY <1>1, <1>7
<1> QED
  BY <1>5, <1>8

(* Every row of a finished ledger was walked for one of the symbols. *)
LEMMA LedgerIsWalked ==
  ASSUME RunInv, WalkedLedger # <<>>
  PROVE  \E R : /\ WalkedLedger \in Seq(R)
                /\ \A r \in R : \E x \in DOMAIN world.symbols : r \in ToSet(WholeWalk(x))
<1> DEFINE walks == [i \in DOMAIN SymbolOrder |-> WholeWalk(SymbolOrder[i])]
           R == {q \in UNION {ToSet(walks[i]) : i \in DOMAIN SymbolOrder} : TRUE}
<1>1. world \in Worlds
  BY DEF RunInv, InputsOK
<1>2. WalkedLedger = FlattenSeq(walks)
  <2>1. At("manifest")
    <3>1. ~At("manifest") => WalkedLedger = <<>>
      BY DEF WalkedLedger
    <3> QED
      BY <3>1
  <2> QED
    BY <2>1 DEF WalkedLedger, RunInv, BooksOK, Complete, WholeLedger
<1>3. ASSUME NEW x PROVE WholeWalk(x) \in Seq(ToSet(WholeWalk(x)))
  <2> DEFINE s == WholeWalk(x)
             sessions == NonStandardSessions(world)
             days == Span \cap (world.trading \cup sessions)
  <2>1. IsFiniteSet(days)
    <3>1. IsFiniteSet(Span) /\ days \in SUBSET Span
      BY FS_Interval, BacktestAssumption DEF Span
    <3> HIDE DEF days
    <3> QED
      BY <3>1, FS_Subset
  <2>2. Cardinality(days) \in Nat
    BY <2>1, FS_CardinalityType
  <2>3. s = [i \in 1 .. Cardinality(days) |-> s[i]]
    BY DEF WholeWalk, WalkSymbol, WalkDays, InOrder
  <2> HIDE DEF s, days
  <2>4. s \in Seq(ToSet(s))
    BY <2>2, <2>3 DEF ToSet
  <2> QED
    BY <2>4 DEF s
<1>4. walks \in Seq(Seq(R)) /\ walks # <<>>
  <2>1. ASSUME NEW i \in DOMAIN SymbolOrder PROVE walks[i] \in Seq(R)
    <3>1. walks[i] \in Seq(ToSet(walks[i]))
      BY <1>3
    <3>2. ToSet(walks[i]) \subseteq R
      OBVIOUS
    <3> HIDE DEF walks, R
    <3> QED
      BY <3>1, <3>2
  <2> HIDE DEF R
  <2>2. DOMAIN SymbolOrder = 1 .. Len(SymbolOrder) /\ Len(SymbolOrder) \in Nat \ {0}
    BY SymbolsAreSymbols
  <2>3. walks = [i \in 1 .. Len(SymbolOrder) |-> walks[i]] /\ \A i \in 1 .. Len(SymbolOrder) : walks[i] \in Seq(R)
    BY <2>1, <2>2
  <2> HIDE DEF walks
  <2>4. walks \in Seq(Seq(R))
    BY <2>2, <2>3
  <2>5. DOMAIN walks = 1 .. Len(SymbolOrder) /\ 1 \in 1 .. Len(SymbolOrder)
    BY <2>2, <2>3
  <2>6. walks # <<>>
    BY <2>5
  <2> QED
    BY <2>4, <2>6
<1>5. FlattenSeq(walks) \in Seq(R)
  <2> HIDE DEF walks, R
  <2> QED
    BY <1>4, FlatIsOfThem
<1>6. ASSUME NEW r \in R PROVE \E x \in DOMAIN world.symbols : r \in ToSet(WholeWalk(x))
  <2>1. PICK i \in DOMAIN SymbolOrder : r \in ToSet(WholeWalk(SymbolOrder[i]))
    OBVIOUS
  <2>2. SymbolOrder[i] \in DOMAIN world.symbols
    BY <1>1, SymbolsAreSymbols, BacktestAssumption DEF RunSymbols
  <2> QED
    BY <2>1, <2>2
<1> HIDE DEF R, walks
<1> QED
  BY <1>2, <1>5, <1>6

LEMMA RowsWereWalked ==
  ASSUME RunInv, NEW r \in ToSet(WalkedLedger)
  PROVE  /\ world \in Worlds
         /\ \E x \in DOMAIN world.symbols : r \in ToSet(WholeWalk(x))
<1>1. world \in Worlds
  BY DEF RunInv, InputsOK
<1>2. WalkedLedger # <<>>
  BY DEF ToSet
<1>3. PICK R : /\ WalkedLedger \in Seq(R)
               /\ \A q \in R : \E x \in DOMAIN world.symbols : q \in ToSet(WholeWalk(x))
  BY <1>2, LedgerIsWalked
<1>4. r \in R
  BY <1>3 DEF ToSet
<1> QED
  BY <1>1, <1>3, <1>4

LEMMA FinishedRowsAreStated ==
  ASSUME RunInv, NEW r \in ToSet(WalkedLedger)
  PROVE  /\ IsAsStated(r, CandlesOf(r))
         /\ r.trade.qty > 0 =>
              LET path == r.trade.path
              IN /\ \A i \in 1 .. Len(path) - 1 : path[i].at < path[i + 1].at
                 /\ GrossPnl(r.side, r.trade.qty, path[1].price, Last(path).price) = r.trade.gross
<1>1. world \in Worlds
  BY RowsWereWalked
<1>2. PICK x \in DOMAIN world.symbols : r \in ToSet(WholeWalk(x))
  BY RowsWereWalked
<1>3. Sound(r, CandlesIn(world.symbols[x], r.day)) /\ r.symbol = x
  BY <1>1, <1>2, WalkedRowsAreSound DEF WholeWalk
<1>4. CandlesOf(r) = CandlesIn(world.symbols[x], r.day)
  BY <1>3 DEF CandlesOf, CandlesIn
<1>5. CASE r.trade = NoTrade
  <2>1. IsAsStated(r, CandlesOf(r))
    BY <1>3, <1>5, IdleIsAsStated DEF Sound
  <2> QED
    BY <1>5, <2>1, NothingTraded
<1>6. CASE IsTraded(r, CandlesOf(r))
  BY <1>6, TradedIsAsStated
<1> QED
  BY <1>3, <1>4, <1>5, <1>6 DEF Sound

(* Whatever the stores hold: what the evidence packs state of a row of a   *)
(* finished ledger, its size, its costs, its extremes, its exit and its    *)
(* path, is so, but for the candle of a square-off that nobody traded in.  *)
THEOREM RowsAreWhatIsStated == Spec => []RowsAreAsStated
<1>1. RunInv => RowsAreAsStated
  BY FinishedRowsAreStated DEF RowsAreAsStated
<1> QED
  BY RunAlways, <1>1, PTL

(* And its path of marks rises in time, from the entry price to the fill,  *)
(* which is what the trade made.                                           *)
THEOREM PathsAreWhatWasMade == Spec => []PathsEndAtFill(WalkedLedger)
<1>1. RunInv => PathsEndAtFill(WalkedLedger)
  BY FinishedRowsAreStated DEF PathsEndAtFill
<1> QED
  BY RunAlways, <1>1, PTL

-----------------------------------------------------------------------------
LEMMA PositiveTimes ==
  ASSUME NEW a \in Nat \ {0}, NEW b \in Nat \ {0}
  PROVE  a * b \in Nat \ {0}
<1>1. a * b \in Int /\ a * b >= 1
  BY SMT
<1> QED
  BY <1>1

(* Products of the numbers at some positions, position by position.        *)

TimesStep(f, at, times, i) ==
    IF i = 0 THEN 1 ELSE IF i \in at THEN times[i - 1] * f[i] ELSE times[i - 1]

AreTimes(f, at, n, times) == times = [i \in 0 .. n |-> TimesStep(f, at, times, i)]

LEMMA TimesExist ==
  ASSUME NEW f, NEW at, NEW n \in Nat
  PROVE  \E times : AreTimes(f, at, n, times)
<1> DEFINE T == {i \in 1 .. n : ~\E times : AreTimes(f, at, i, times)}
<1>1. \E times : AreTimes(f, at, 0, times)
  <2>1. AreTimes(f, at, 0, [i \in 0 .. 0 |-> 1])
    BY DEF AreTimes, TimesStep
  <2> QED
    BY <2>1
<1>2. ASSUME T # {} PROVE FALSE
  <2>1. PICK m \in T : \A i \in T : m <= i
    <3> HIDE DEF T
    <3>1. T \subseteq 1 .. n
      BY DEF T
    <3> QED
      BY <1>2, <3>1, HasLeast
  <2>2. m \in 1 .. n /\ m - 1 \in 0 .. n
    BY <2>1
  <2>3. \E times : AreTimes(f, at, m - 1, times)
    BY <1>1, <2>1, <2>2
  <2>4. PICK times : AreTimes(f, at, m - 1, times)
    BY <2>3
  <2> DEFINE more == [i \in 0 .. m |-> IF i = m THEN TimesStep(f, at, times, m) ELSE times[i]]
  <2>5. ASSUME NEW i \in 0 .. m PROVE more[i] = TimesStep(f, at, more, i)
    <3>1. i # 0 => more[i - 1] = times[i - 1]
      BY <2>2
    <3>2. TimesStep(f, at, more, i) = TimesStep(f, at, times, i)
      BY <3>1 DEF TimesStep
    <3>3. i # m => times[i] = TimesStep(f, at, times, i)
      BY <2>2, <2>4 DEF AreTimes
    <3> QED
      BY <3>2, <3>3
  <2>6. more = [i \in 0 .. m |-> TimesStep(f, at, more, i)]
    BY <2>5
  <2>7. AreTimes(f, at, m, more)
    <3> HIDE DEF more
    <3> QED
      BY <2>6 DEF AreTimes
  <2> QED
    BY <2>1, <2>7
<1> QED
  BY <1>1, <1>2

LEMMA TimesAreOne ==
  ASSUME NEW f, NEW at, NEW n \in Nat
  PROVE  \E times : AreTimes(f, at, n, times) /\ TimesTo(f, at, n) = times[n]
<1> DEFINE times == CHOOSE g : g = [i \in 0 .. n |->
                      IF i = 0 THEN 1 ELSE IF i \in at THEN g[i - 1] * f[i] ELSE g[i - 1]]
<1>1. \E g : g = [i \in 0 .. n |->
                    IF i = 0 THEN 1 ELSE IF i \in at THEN g[i - 1] * f[i] ELSE g[i - 1]]
  <2>1. PICK g : AreTimes(f, at, n, g)
    BY TimesExist
  <2> QED
    BY <2>1, Zenon DEF AreTimes, TimesStep
<1>2. times = [i \in 0 .. n |->
                 IF i = 0 THEN 1 ELSE IF i \in at THEN times[i - 1] * f[i] ELSE times[i - 1]]
  BY <1>1, Zenon
<1>3. TimesTo(f, at, n) = times[n]
  BY Zenon DEF TimesTo
<1> HIDE DEF times
<1> QED
  BY <1>2, <1>3, Zenon DEF AreTimes, TimesStep

LEMMA TimesAre ==
  ASSUME NEW f, NEW at, NEW n \in Nat, NEW times, AreTimes(f, at, n, times)
  PROVE  /\ times[0] = 1
         /\ \A i \in 1 .. n : times[i] = IF i \in at THEN times[i - 1] * f[i] ELSE times[i - 1]
<1> DEFINE g == [i \in 0 .. n |-> TimesStep(f, at, times, i)]
<1>1. \A i \in 0 .. n : g[i] = TimesStep(f, at, times, i)
  OBVIOUS
<1>2. times = g
  BY DEF AreTimes
<1> HIDE DEF g
<1>3. \A i \in 0 .. n : times[i] = TimesStep(f, at, times, i)
  BY <1>1, <1>2
<1> QED
  BY <1>3 DEF TimesStep

(* The products of functions that agree at the positions are the same.     *)
SameAt(f, g, at, k) == \A i \in at \cap (1 .. k) : f[i] = g[i]

LEMMA TimesAgree ==
  ASSUME NEW f, NEW g, NEW at, NEW n \in Nat, NEW m \in Nat, NEW k \in Nat, k <= n, k <= m,
         NEW a, NEW b, AreTimes(f, at, n, a), AreTimes(g, at, m, b), SameAt(f, g, at, k)
  PROVE  a[k] = b[k]
<1> DEFINE T == {i \in 1 .. k : a[i] # b[i]}
<1>1. a[0] = 1 /\ b[0] = 1
  BY DEF AreTimes, TimesStep
<1>2. ASSUME T # {} PROVE FALSE
  <2>1. PICK x \in T : \A i \in T : x <= i
    <3> HIDE DEF T
    <3>1. T \subseteq 1 .. k
      BY DEF T
    <3> QED
      BY <1>2, <3>1, HasLeast
  <2>2. x \in 1 .. k /\ x - 1 \in 0 .. k /\ a[x] # b[x]
    BY <2>1
  <2>3. a[x - 1] = b[x - 1]
    BY <1>1, <2>1, <2>2
  <2>4. a[x] = IF x \in at THEN a[x - 1] * f[x] ELSE a[x - 1]
    <3>1. x \in 1 .. n
      BY <2>2
    <3> QED
      BY <3>1, TimesAre
  <2>6. b[x] = IF x \in at THEN b[x - 1] * g[x] ELSE b[x - 1]
    <3>1. x \in 1 .. m
      BY <2>2
    <3> QED
      BY <3>1, TimesAre
  <2>5. x \in at => f[x] = g[x]
    BY <2>2 DEF SameAt
  <2> QED
    BY <2>2, <2>3, <2>4, <2>5, <2>6
<1> QED
  BY <1>1, <1>2

LEMMA TimesStepOn ==
  ASSUME NEW f, NEW at, NEW n \in Nat
  PROVE  /\ TimesTo(f, at, 0) = 1
         /\ n # 0 => TimesTo(f, at, n) = IF n \in at THEN TimesTo(f, at, n - 1) * f[n]
                                         ELSE TimesTo(f, at, n - 1)
<1>1. PICK none : AreTimes(f, at, 0, none) /\ TimesTo(f, at, 0) = none[0]
  BY TimesAreOne
<1>2. TimesTo(f, at, 0) = 1
  BY <1>1, TimesAre
<1>3. ASSUME n # 0
      PROVE  TimesTo(f, at, n) = IF n \in at THEN TimesTo(f, at, n - 1) * f[n] ELSE TimesTo(f, at, n - 1)
  <2>1. n - 1 \in Nat /\ n - 1 <= n /\ n \in 1 .. n /\ n - 1 <= n - 1
    BY <1>3
  <2>2. PICK times : AreTimes(f, at, n, times) /\ TimesTo(f, at, n) = times[n]
    BY TimesAreOne
  <2>3. PICK less : AreTimes(f, at, n - 1, less) /\ TimesTo(f, at, n - 1) = less[n - 1]
    BY <2>1, TimesAreOne
  <2>4. times[n - 1] = less[n - 1]
    <3>1. SameAt(f, f, at, n - 1)
      BY DEF SameAt
    <3> QED
      BY <2>1, <2>2, <2>3, <3>1, TimesAgree
  <2>5. times[n] = IF n \in at THEN times[n - 1] * f[n] ELSE times[n - 1]
    BY <2>1, <2>2, TimesAre
  <2> QED
    BY <2>2, <2>3, <2>4, <2>5
<1> QED
  BY <1>2, <1>3

LEMMA TimesSame ==
  ASSUME NEW f, NEW g, NEW at, NEW n \in Nat, SameAt(f, g, at, n)
  PROVE  TimesTo(f, at, n) = TimesTo(g, at, n)
<1>1. PICK a : AreTimes(f, at, n, a) /\ TimesTo(f, at, n) = a[n]
  BY TimesAreOne
<1>2. PICK b : AreTimes(g, at, n, b) /\ TimesTo(g, at, n) = b[n]
  BY TimesAreOne
<1>3. n <= n
  OBVIOUS
<1> QED
  BY <1>1, <1>2, <1>3, TimesAgree

PositiveAt(f, at) == \A i \in at : f[i] \in Nat \ {0}

LEMMA TimesArePositive ==
  ASSUME NEW f, NEW at, NEW n \in Nat, PositiveAt(f, at)
  PROVE  TimesTo(f, at, n) \in Nat \ {0}
<1> DEFINE T == {i \in 1 .. n : TimesTo(f, at, i) \notin Nat \ {0}}
<1>1. TimesTo(f, at, 0) = 1
  BY TimesStepOn
<1>2. ASSUME T # {} PROVE FALSE
  <2>1. PICK x \in T : \A i \in T : x <= i
    <3> HIDE DEF T
    <3>1. T \subseteq 1 .. n
      BY DEF T
    <3> QED
      BY <1>2, <3>1, HasLeast
  <2>2. x \in 1 .. n /\ x \in Nat /\ x - 1 \in 0 .. n /\ x # 0 /\ TimesTo(f, at, x) \notin Nat \ {0}
    BY <2>1
  <2>3. TimesTo(f, at, x - 1) \in Nat \ {0}
    BY <1>1, <2>1, <2>2
  <2>4. TimesTo(f, at, x) = IF x \in at THEN TimesTo(f, at, x - 1) * f[x] ELSE TimesTo(f, at, x - 1)
    BY <2>2, TimesStepOn
  <2>5. x \in at => f[x] \in Nat \ {0}
    BY DEF PositiveAt
  <2>6. x \in at => TimesTo(f, at, x - 1) * f[x] \in Nat \ {0}
    BY <2>3, <2>5, PositiveTimes
  <2> QED
    BY <2>2, <2>3, <2>4, <2>6
<1> QED
  BY <1>1, <1>2


LEMMA TimesSplit ==
  ASSUME NEW f, NEW A, NEW B, A \cap B = {}, PositiveAt(f, A), PositiveAt(f, B), NEW n \in Nat
  PROVE  TimesTo(f, A \cup B, n) = TimesTo(f, A, n) * TimesTo(f, B, n)
<1> DEFINE C == A \cup B
           T == {i \in 1 .. n : TimesTo(f, C, i) # TimesTo(f, A, i) * TimesTo(f, B, i)}
<1>1. TimesTo(f, C, 0) = TimesTo(f, A, 0) * TimesTo(f, B, 0)
  <2>1. TimesTo(f, A, 0) = 1
    BY TimesStepOn
  <2>2. TimesTo(f, B, 0) = 1
    BY TimesStepOn
  <2>3. TimesTo(f, C, 0) = 1
    BY TimesStepOn
  <2> QED
    BY <2>1, <2>2, <2>3
<1>2. ASSUME T # {} PROVE FALSE
  <2>1. PICK x \in T : \A i \in T : x <= i
    <3> HIDE DEF T
    <3>1. T \subseteq 1 .. n
      BY DEF T
    <3> QED
      BY <1>2, <3>1, HasLeast
  <2>2. /\ x \in 1 .. n /\ x \in Nat /\ x - 1 \in 0 .. n /\ x # 0 /\ x - 1 \in Nat
        /\ TimesTo(f, C, x) # TimesTo(f, A, x) * TimesTo(f, B, x)
    BY <2>1
  <2>3. TimesTo(f, C, x - 1) = TimesTo(f, A, x - 1) * TimesTo(f, B, x - 1)
    <3>1. CASE x - 1 = 0
      BY <1>1, <3>1, Zenon
    <3>2. CASE x - 1 # 0
      <4> HIDE DEF T
      <4>1. x - 1 \in 1 .. n /\ ~(x <= x - 1)
        BY <2>2, <3>2
      <4>2. x - 1 \notin T
        BY <2>1, <4>1
      <4> QED
        BY <4>1, <4>2, Zenon DEF T
    <3> QED
      BY <3>1, <3>2
  <2> HIDE DEF T
  <2> DEFINE a == TimesTo(f, A, x - 1)
             b == TimesTo(f, B, x - 1)
  <2>4. a \in Nat \ {0} /\ b \in Nat \ {0}
    BY <2>2, TimesArePositive
  <2>5. TimesTo(f, A, x) = IF x \in A THEN a * f[x] ELSE a
    BY <2>2, TimesStepOn
  <2>6. TimesTo(f, B, x) = IF x \in B THEN b * f[x] ELSE b
    BY <2>2, TimesStepOn
  <2>7. TimesTo(f, C, x) = IF x \in C THEN TimesTo(f, C, x - 1) * f[x] ELSE TimesTo(f, C, x - 1)
    <3> HIDE DEF C
    <3> QED
      BY <2>2, TimesStepOn
  <2> HIDE DEF a, b
  <2>8. TimesTo(f, C, x - 1) = a * b
    BY <2>3 DEF a, b
  <2>9. CASE x \in A
    <3>1. f[x] \in Nat \ {0} /\ x \notin B
      BY <2>9 DEF PositiveAt
    <3>2. (a * b) * f[x] = (a * f[x]) * b
      BY <2>4, <3>1, SMT
    <3> QED
      BY <2>2, <2>5, <2>6, <2>7, <2>8, <2>9, <3>1, <3>2
  <2>10. CASE x \in B
    <3>1. f[x] \in Nat \ {0} /\ x \notin A
      BY <2>10 DEF PositiveAt
    <3>2. (a * b) * f[x] = a * (b * f[x])
      BY <2>4, <3>1, SMT
    <3> QED
      BY <2>2, <2>5, <2>6, <2>7, <2>8, <2>10, <3>1, <3>2
  <2>11. CASE x \notin C
    BY <2>2, <2>5, <2>6, <2>7, <2>8, <2>11
  <2> QED
    BY <2>9, <2>10, <2>11
<1>3. CASE n = 0
  BY <1>1, <1>3
<1>4. CASE n # 0
  <2>1. n \in 1 .. n
    BY <1>4
  <2>2. n \notin T
    BY <1>2
  <2> QED
    BY <2>1, <2>2
<1> QED
  BY <1>3, <1>4

NoneAbove(at, m) == \A i \in at : i <= m

LEMMA TimesStop ==
  ASSUME NEW f, NEW at, NEW m \in Nat, NEW n \in Nat, m <= n, NoneAbove(at, m)
  PROVE  TimesTo(f, at, n) = TimesTo(f, at, m)
<1> DEFINE T == {i \in 1 .. n : m < i /\ TimesTo(f, at, i) # TimesTo(f, at, m)}
<1>1. ASSUME T # {} PROVE FALSE
  <2>1. PICK x \in T : \A i \in T : x <= i
    <3> HIDE DEF T
    <3>1. T \subseteq 1 .. n
      BY DEF T
    <3> QED
      BY <1>1, <3>1, HasLeast
  <2>2. /\ x \in 1 .. n /\ x \in Nat /\ x - 1 \in 0 .. n /\ x # 0 /\ m < x
        /\ TimesTo(f, at, x) # TimesTo(f, at, m)
    BY <2>1
  <2>3. TimesTo(f, at, x - 1) = TimesTo(f, at, m)
    <3>1. x - 1 = m \/ (m < x - 1 /\ x - 1 \in 1 .. n)
      BY <2>2
    <3>2. x - 1 \notin T
      BY <2>1, <2>2
    <3> QED
      BY <3>1, <3>2
  <2>4. x \notin at
    BY <2>2 DEF NoneAbove
  <2>5. TimesTo(f, at, x) = TimesTo(f, at, x - 1)
    BY <2>2, <2>4, TimesStepOn
  <2> QED
    BY <2>2, <2>3, <2>5
<1>2. CASE m < n
  <2>1. n \in 1 .. n
    BY <1>2
  <2>2. n \notin T
    BY <1>1
  <2> QED
    BY <1>2, <2>1, <2>2
<1>3. CASE m = n
  BY <1>3
<1> QED
  BY <1>2, <1>3

Kns(factors) == [i \in DOMAIN factors |-> factors[i].kn]
Kds(factors) == [i \in DOMAIN factors |-> factors[i].kd]

LEMMA ProductIs ==
  ASSUME NEW factors, NEW n \in Nat, NEW at, at \subseteq DOMAIN factors, at \subseteq 1 .. n
  PROVE  Product(factors, at) = Ratio(TimesTo(Kns(factors), at, n), TimesTo(Kds(factors), at, n))
<1> DEFINE m == IF at = {} THEN 0 ELSE Max(at)
           kn == [i \in at |-> factors[i].kn]
           kd == [i \in at |-> factors[i].kd]
<1>1. Product(factors, at) = Ratio(TimesTo(kn, at, m), TimesTo(kd, at, m))
  BY DEF Product
<1>2. m \in Nat /\ m <= n /\ NoneAbove(at, m)
  <2>1. CASE at = {}
    BY <2>1 DEF NoneAbove
  <2>2. CASE at # {}
    <3>1. Max(at) \in at /\ \A i \in at : i <= Max(at)
      <4>1. IsFiniteSet(1 .. n)
        BY FS_Interval
      <4>2. IsFiniteSet(at)
        BY <4>1, FS_Subset
      <4>3. at \subseteq Nat
        OBVIOUS
      <4> QED
        BY <2>2, <4>2, <4>3, GreatestOf
    <3> QED
      BY <2>2, <3>1 DEF NoneAbove
  <2> QED
    BY <2>1, <2>2
<1>3. SameAt(kn, Kns(factors), at, n) /\ SameAt(kd, Kds(factors), at, n)
  BY DEF SameAt, Kns, Kds
<1> HIDE DEF m, kn, kd
<1>4. TimesTo(kn, at, m) = TimesTo(Kns(factors), at, n)
  <2>1. TimesTo(kn, at, n) = TimesTo(kn, at, m)
    BY <1>2, TimesStop
  <2>2. TimesTo(kn, at, n) = TimesTo(Kns(factors), at, n)
    BY <1>3, TimesSame
  <2> QED
    BY <2>1, <2>2
<1>5. TimesTo(kd, at, m) = TimesTo(Kds(factors), at, n)
  <2>1. TimesTo(kd, at, n) = TimesTo(kd, at, m)
    BY <1>2, TimesStop
  <2>2. TimesTo(kd, at, n) = TimesTo(Kds(factors), at, n)
    BY <1>3, TimesSame
  <2> QED
    BY <2>1, <2>2
<1> QED
  BY <1>1, <1>4, <1>5


LEMMA LeastOf ==
  ASSUME NEW days, days \subseteq Nat, days # {}
  PROVE  Min(days) \in days /\ \A d \in days : Min(days) <= d
<1>1. PICK d \in days : \A x \in days : d <= x
  BY HasLeastNat
<1> QED
  BY <1>1, Zenon DEF Min

(* What has been read of an announcement is enough for its kind.           *)
IsEvent(e) ==
    /\ e.ex \in Nat /\ e.kind \in PriceEvents
    /\ e.kind \in {"bonus", "rights"} => e.new \in Nat \ {0} /\ e.held \in Nat \ {0}
    /\ e.kind = "split" => e.from \in Nat \ {0} /\ e.to \in Nat \ {0}
    /\ e.kind = "dividend" => e.amount \in Int
    /\ e.face \in {Nil} \cup Int /\ e.premium \in {Nil} \cup Int /\ e.price \in {Nil} \cup Int

LEMMA KindsMatch ==
  ASSUME NEW a, KindOf(a) # "unknown"
  PROVE  Matches(a, KindOf(a)) /\ KindOf(a) \in PriceEvents \cup {"meeting"}
<1> DEFINE hits == {i \in DOMAIN Precedence : Matches(a, Precedence[i])}
<1>1. hits # {} /\ KindOf(a) = Precedence[Min(hits)]
  BY DEF KindOf
<1>2. DOMAIN Precedence = 1 .. 7
  BY DEF Precedence
<1>3. hits \subseteq Nat
  BY <1>2
<1>4. Min(hits) \in hits
  <2> HIDE DEF hits
  <2> QED
    BY <1>1, <1>3, LeastOf
<1>5. ASSUME NEW i \in DOMAIN Precedence PROVE Precedence[i] \in PriceEvents \cup {"meeting"}
  BY <1>2 DEF Precedence, PriceEvents
<1> QED
  BY <1>1, <1>4, <1>5

LEMMA EventsAreRead ==
  ASSUME NEW a, IsAnnouncement(a), ~ParseFails(a), KindOf(a) # "meeting"
  PROVE  IsEvent(ParsedEvent(a))
<1> DEFINE e == ParsedEvent(a)
           kind == KindOf(a)
<1>1. kind # "unknown" /\ kind \in PriceEvents /\ Matches(a, kind)
  <2>1. kind # "unknown"
    BY DEF ParseFails
  <2> QED
    BY <2>1, KindsMatch
<1>2. /\ e.ex = a.ex /\ e.kind = kind /\ e.new = a.new /\ e.held = a.held
      /\ e.from = a.from /\ e.to = a.to /\ e.face = a.face /\ e.premium = a.premium
      /\ e.price = IF a.premium # Nil THEN Nil ELSE a.price
      /\ e.amount = SumTo(a.amounts, Len(a.amounts))
  BY DEF ParsedEvent
<1>3. /\ a.ex \in Nat /\ a.new \in {Nil} \cup Int /\ a.held \in {Nil} \cup Int
      /\ a.from \in {Nil} \cup Int /\ a.to \in {Nil} \cup Int /\ a.face \in {Nil} \cup Int
      /\ a.premium \in {Nil} \cup Int /\ a.price \in {Nil} \cup Int
      /\ a.new = Nil <=> a.held = Nil
  BY DEF IsAnnouncement
<1> HIDE DEF e, kind
<1>4. kind \in {"bonus", "rights"} => a.new \in Nat \ {0} /\ a.held \in Nat \ {0}
  <2> SUFFICES ASSUME kind \in {"bonus", "rights"} PROVE a.new \in Nat \ {0} /\ a.held \in Nat \ {0}
    OBVIOUS
  <2>1. a.new # Nil
    BY <1>1 DEF Matches
  <2>2. ~BadRatio(a)
    BY DEF ParseFails, kind
  <2>3. a.new \in Int /\ a.held \in Int
    BY <1>3, <2>1
  <2> QED
    BY <2>2, <2>3 DEF BadRatio
<1>5. kind = "split" => a.from \in Nat \ {0} /\ a.to \in Nat \ {0}
  <2> SUFFICES ASSUME kind = "split" PROVE a.from \in Nat \ {0} /\ a.to \in Nat \ {0}
    OBVIOUS
  <2>1. ~BadFaces(a)
    BY DEF ParseFails, kind
  <2>2. a.from \in Int /\ a.to \in Int
    BY <1>3, <2>1 DEF BadFaces
  <2> QED
    BY <2>1, <2>2 DEF BadFaces
<1>6. kind = "dividend" => SumTo(a.amounts, Len(a.amounts)) \in Int
  <2> SUFFICES ASSUME kind = "dividend" PROVE SumTo(a.amounts, Len(a.amounts)) \in Int
    OBVIOUS
  <2> DEFINE n == Len(a.amounts)
  <2>1. n \in Nat /\ DOMAIN a.amounts = 1 .. n /\ \A i \in 1 .. n : a.amounts[i] \in {Nil} \cup Int
    BY DEF IsAnnouncement
  <2>2. \A i \in DOMAIN a.amounts : a.amounts[i] # Nil
    BY DEF ParseFails, kind
  <2>3. \A i \in 1 .. n : a.amounts[i] \in Int
    BY <2>1, <2>2
  <2> HIDE DEF n
  <2>4. \A i \in 0 .. n : SumTo(a.amounts, i) \in Int
    BY <2>1, <2>3, SumIsInt
  <2>5. n \in 0 .. n
    BY <2>1
  <2>6. SumTo(a.amounts, n) \in Int
    BY <2>4, <2>5
  <2> QED
    BY <2>6 DEF n
<1>7. IsEvent(e)
  <2>1. e.price \in {Nil} \cup Int
    BY <1>2, <1>3
  <2> QED
    BY <1>1, <1>2, <1>3, <1>4, <1>5, <1>6, <2>1 DEF IsEvent
<1> QED
  BY <1>7 DEF e


LEMMA RightsAreARatio ==
  ASSUME NEW cum \in Int, NEW issue \in Int, NEW new \in Nat \ {0}, NEW held \in Nat \ {0},
         NEW k, k = RightsFactor(cum, issue, new, held), k # Nil
  PROVE  k.kn \in Int /\ k.kd \in Nat \ {0}
<1>1. cum > 0 /\ k = Ratio(cum * (new + held) - (cum - issue) * new, cum * (new + held))
  BY DEF RightsFactor
<1>2. cum \in Nat \ {0} /\ new + held \in Nat \ {0}
  BY <1>1
<1>3. cum * (new + held) \in Nat \ {0}
  BY <1>2, PositiveTimes
<1>4. (cum - issue) * new \in Int
  BY Distributes
<1>5. k.kn = cum * (new + held) - (cum - issue) * new /\ k.kd = cum * (new + held)
  BY <1>1 DEF Ratio
<1> QED
  BY <1>3, <1>4, <1>5

(* Every factor is positive. *)
LEMMA FactorsArePositive ==
  ASSUME NEW e, IsEvent(e), NEW cum, cum \in {Nil} \cup Int, NEW issue, issue \in {Nil} \cup Int,
         NEW k, k = FactorFor(e, cum, issue), k # Nil
  PROVE  k.kn \in Nat \ {0} /\ k.kd \in Nat \ {0}
<1>1. CASE e.kind = "bonus"
  <2> DEFINE r == Ratio(e.held, e.new + e.held)
  <2>1. k = (IF r = Nil THEN Nil ELSE IF r.kn <= 0 THEN Nil ELSE r)
    BY <1>1 DEF FactorFor
  <2>2. k = r
    BY <2>1
  <2> QED
    BY <1>1, <2>2 DEF IsEvent, Ratio
<1>2. CASE e.kind = "split"
  <2> DEFINE r == Ratio(e.to, e.from)
  <2>1. k = (IF r = Nil THEN Nil ELSE IF r.kn <= 0 THEN Nil ELSE r)
    BY <1>2 DEF FactorFor
  <2>2. k = r
    BY <2>1
  <2> QED
    BY <1>2, <2>2 DEF IsEvent, Ratio
<1>3. CASE e.kind = "buyback"
  <2> DEFINE r == Ratio(1, 1)
  <2>1. k = (IF r = Nil THEN Nil ELSE IF r.kn <= 0 THEN Nil ELSE r)
    BY <1>3 DEF FactorFor
  <2>2. k = r
    BY <2>1
  <2> QED
    BY <2>2 DEF Ratio
<1>4. CASE e.kind = "demerger"
  BY <1>4 DEF FactorFor
<1>5. CASE e.kind = "rights"
  <2> DEFINE r == IF issue = Nil \/ cum = Nil THEN Nil ELSE RightsFactor(cum, issue, e.new, e.held)
  <2>1. k = (IF r = Nil THEN Nil ELSE IF r.kn <= 0 THEN Nil ELSE r)
    BY <1>5 DEF FactorFor
  <2>2. k = r /\ ~(k.kn <= 0)
    BY <2>1
  <2>3. issue \in Int /\ cum \in Int /\ k = RightsFactor(cum, issue, e.new, e.held)
    BY <2>2
  <2>4. e.new \in Nat \ {0} /\ e.held \in Nat \ {0}
    BY <1>5 DEF IsEvent
  <2>5. k.kn \in Int /\ k.kd \in Nat \ {0}
    BY <2>3, <2>4, RightsAreARatio
  <2> HIDE DEF r
  <2> QED
    BY <2>2, <2>5
<1>6. CASE e.kind = "dividend"
  <2> DEFINE r == IF cum = Nil \/ (cum # Nil /\ cum <= 0) THEN Nil
                  ELSE IF DividendBand(e.amount, cum) = "special" THEN Ratio(cum - e.amount, cum)
                  ELSE Ratio(1, 1)
  <2>1. k = (IF r = Nil THEN Nil ELSE IF r.kn <= 0 THEN Nil ELSE r)
    BY <1>6 DEF FactorFor
  <2>2. k = r /\ ~(k.kn <= 0)
    BY <2>1
  <2>3. cum \in Int /\ cum > 0
    BY <2>2
  <2>4. e.amount \in Int
    BY <1>6 DEF IsEvent
  <2>5. k = Ratio(cum - e.amount, cum) \/ k = Ratio(1, 1)
    BY <2>2
  <2> HIDE DEF r
  <2>6. CASE k = Ratio(cum - e.amount, cum)
    <3>1. k.kn = cum - e.amount /\ k.kd = cum
      BY <2>6 DEF Ratio
    <3> QED
      BY <2>2, <2>3, <2>4, <3>1
  <2>7. CASE k = Ratio(1, 1)
    BY <2>7 DEF Ratio
  <2> QED
    BY <2>5, <2>6, <2>7
<1> QED
  BY <1>1, <1>2, <1>3, <1>4, <1>5, <1>6 DEF IsEvent, PriceEvents

LEMMA LastRowIsAClose ==
  ASSUME NEW rows, DOMAIN rows \subseteq Nat, IsFiniteSet(DOMAIN rows),
         \A d \in DOMAIN rows : rows[d] \in StoredRows, NEW ex
  PROVE  LastRowBefore(rows, ex) \in {Nil} \cup Int
<1> DEFINE days == {d \in DOMAIN rows : d < ex}
<1>1. LastRowBefore(rows, ex) = IF days = {} THEN Nil ELSE rows[Max(days)].c
  BY DEF LastRowBefore
<1>2. days \subseteq DOMAIN rows
  OBVIOUS
<1> HIDE DEF days
<1>3. ASSUME days # {} PROVE rows[Max(days)].c \in Int
  <2>1. days \subseteq Nat /\ IsFiniteSet(days)
    BY <1>2, FS_Subset
  <2>2. Max(days) \in days
    BY <1>3, <2>1, GreatestOf
  <2>3. rows[Max(days)] \in StoredRows
    BY <1>2, <2>2
  <2> QED
    BY <2>3 DEF StoredRows
<1> QED
  BY <1>1, <1>3

(* A face value is that of some split. *)
LEMMA FacesAreNumbers ==
  ASSUME NEW n \in Nat, NEW splits, DOMAIN splits \subseteq 1 .. n,
         \A i \in DOMAIN splits : IsEvent(splits[i]) /\ splits[i].kind = "split", NEW ex
  PROVE  ReconstructFace(ex, splits) \in {Nil} \cup Int
<1> DEFINE D == DOMAIN splits
           before == {i \in D : splits[i].ex <= ex}
           exOf == [i \in D |-> splits[i].ex]
           last == Max({splits[i].ex : i \in before})
           first == Min({splits[i].ex : i \in D})
           latest == {i \in before : splits[i].ex = last}
           earliest == {i \in D : splits[i].ex = first}
<1>0. ReconstructFace(ex, splits) = IF D = {} THEN Nil ELSE IF before # {} THEN splits[Max(latest)].to
                                    ELSE splits[Min(earliest)].from
  BY DEF ReconstructFace
<1>1. IsFiniteSet(D) /\ D \subseteq Nat
  <2>1. IsFiniteSet(1 .. n)
    BY FS_Interval
  <2> QED
    BY <2>1, FS_Subset
<1>2. \A i \in D : splits[i].to \in Int /\ splits[i].from \in Int /\ splits[i].ex \in Nat
  BY DEF IsEvent
<1>3. ASSUME before # {} PROVE Max(latest) \in D
  <2> DEFINE days == {splits[i].ex : i \in before}
             exs == [i \in before |-> splits[i].ex]
  <2>1. IsFiniteSet(before)
    <3>1. before \subseteq D
      OBVIOUS
    <3> HIDE DEF before
    <3> QED
      BY <1>1, <3>1, FS_Subset
  <2>2. days = {exs[i] : i \in before}
    OBVIOUS
  <2>3. IsFiniteSet(days)
    <3> HIDE DEF before, exs, days
    <3> QED
      BY <2>1, <2>2, ImageIsFinite
  <2>4. days \subseteq Nat /\ days # {}
    BY <1>2, <1>3
  <2>5. last \in days
    <3>1. last = Max(days)
      OBVIOUS
    <3> HIDE DEF days, last
    <3> QED
      BY <2>3, <2>4, <3>1, GreatestOf
  <2>6. latest # {} /\ latest \subseteq before
    <3> HIDE DEF last
    <3> QED
      BY <2>5
  <2>7. latest \subseteq Nat /\ IsFiniteSet(latest)
    <3>1. latest \subseteq D
      OBVIOUS
    <3> HIDE DEF latest
    <3> QED
      BY <1>1, <3>1, FS_Subset
  <2> HIDE DEF latest
  <2>8. Max(latest) \in latest
    BY <2>6, <2>7, GreatestOf
  <2> QED
    BY <2>6, <2>8
<1>4. ASSUME D # {} PROVE Min(earliest) \in D
  <2> DEFINE days == {splits[i].ex : i \in D}
  <2>1. days \subseteq Nat /\ days # {}
    BY <1>2, <1>4
  <2>2. first \in days
    <3>1. first = Min(days)
      OBVIOUS
    <3> HIDE DEF days, first
    <3> QED
      BY <2>1, <3>1, LeastOf
  <2>3. earliest # {} /\ earliest \subseteq D
    <3> HIDE DEF first
    <3> QED
      BY <2>2
  <2>4. earliest \subseteq Nat
    BY <1>1, <2>3
  <2> HIDE DEF earliest
  <2>5. Min(earliest) \in earliest
    BY <2>3, <2>4, LeastOf
  <2> QED
    BY <2>3, <2>5
<1> HIDE DEF D, latest, earliest, before
<1> QED
  BY <1>0, <1>2, <1>3, <1>4


LEMMA IssuesAreNumbers ==
  ASSUME NEW e, IsEvent(e), NEW splits, NEW overrides,
         ReconstructFace(e.ex, splits) \in {Nil} \cup Int,
         \A ex \in DOMAIN overrides : overrides[ex] \in Int
  PROVE  IssuePrice(e, splits, overrides) \in {Nil} \cup Int
<1> DEFINE face == ReconstructFace(e.ex, splits)
<1>1. /\ e.price \in {Nil} \cup Int /\ e.premium \in {Nil} \cup Int /\ e.face \in {Nil} \cup Int
      /\ face \in {Nil} \cup Int
  BY DEF IsEvent
<1>2. IssuePrice(e, splits, overrides) =
        (IF e.price # Nil THEN e.price
         ELSE IF e.ex \in DOMAIN overrides THEN overrides[e.ex]
         ELSE IF e.premium = Nil THEN Nil
         ELSE IF face # Nil THEN face + e.premium
         ELSE IF e.face # Nil THEN e.face + e.premium
         ELSE Nil)
  BY DEF IssuePrice
<1> HIDE DEF face
<1>3. e.premium # Nil /\ face # Nil => face + e.premium \in Int
  BY <1>1
<1>4. e.premium # Nil /\ e.face # Nil => e.face + e.premium \in Int
  BY <1>1
<1> QED
  BY <1>1, <1>2, <1>3, <1>4

IsFactor(f) == f.ex \in Nat /\ f.kn \in Nat \ {0} /\ f.kd \in Nat \ {0}

IsTable(factors, n) ==
    DOMAIN factors \subseteq 1 .. n /\ \A i \in DOMAIN factors : IsFactor(factors[i])

LEMMA BuiltIsSound ==
  ASSUME NEW n \in Nat, NEW events, DOMAIN events \subseteq 1 .. n,
         \A i \in DOMAIN events : IsEvent(events[i]),
         NEW cum, \A i \in DOMAIN events : cum[events[i].ex] \in {Nil} \cup Int,
         NEW overrides, \A ex \in DOMAIN overrides : overrides[ex] \in Int
  PROVE  IsTable(BuildFactorTable(events, cum, overrides).factors, n)
<1> DEFINE D == {j \in DOMAIN events : events[j].kind = "split"}
           splits == [i \in D |-> events[i]]
           issue(e) == IF e.kind = "rights" THEN IssuePrice(e, splits, overrides) ELSE Nil
           lost == {i \in DOMAIN events : \/ events[i].kind = "demerger"
                                          \/ events[i].kind = "rights" /\ issue(events[i]) = Nil}
           k(e) == FactorFor(e, cum[e.ex], issue(e))
           built == {i \in DOMAIN events \ lost : k(events[i]) # Nil}
           factors == [i \in built |-> [ex |-> events[i].ex, kind |-> events[i].kind,
                                        kn |-> k(events[i]).kn, kd |-> k(events[i]).kd]]
<1>1. BuildFactorTable(events, cum, overrides).factors = factors
  BY DEF BuildFactorTable
<1>2. DOMAIN splits \subseteq 1 .. n /\ \A i \in DOMAIN splits : IsEvent(splits[i]) /\ splits[i].kind = "split"
  OBVIOUS
<1>3. ASSUME NEW i \in DOMAIN events PROVE issue(events[i]) \in {Nil} \cup Int
  <2> HIDE DEF splits
  <2>1. ReconstructFace(events[i].ex, splits) \in {Nil} \cup Int
    BY <1>2, FacesAreNumbers
  <2>2. IssuePrice(events[i], splits, overrides) \in {Nil} \cup Int
    BY <2>1, IssuesAreNumbers
  <2> QED
    BY <2>2
<1> HIDE DEF splits, issue
<1>4. ASSUME NEW i \in built PROVE IsFactor(factors[i])
  <2>1. i \in DOMAIN events /\ k(events[i]) # Nil
    OBVIOUS
  <2>2. IsEvent(events[i]) /\ cum[events[i].ex] \in {Nil} \cup Int /\ issue(events[i]) \in {Nil} \cup Int
    BY <1>3, <2>1
  <2>3. k(events[i]).kn \in Nat \ {0} /\ k(events[i]).kd \in Nat \ {0}
    BY <2>1, <2>2, FactorsArePositive
  <2>4. factors[i].ex = events[i].ex /\ factors[i].kn = k(events[i]).kn /\ factors[i].kd = k(events[i]).kd
    <3> HIDE DEF k, built
    <3> QED
      OBVIOUS
  <2> HIDE DEF factors, k
  <2> QED
    BY <2>2, <2>3, <2>4 DEF IsFactor, IsEvent
<1>5. DOMAIN factors = built /\ built \subseteq DOMAIN events
  OBVIOUS
<1> HIDE DEF factors, built
<1>6. IsTable(factors, n)
  BY <1>4, <1>5 DEF IsTable
<1> QED
  BY <1>1, <1>6

LEMMA TablesAreSound ==
  ASSUME NEW w \in Worlds, NEW x \in DOMAIN w.symbols
  PROVE  /\ Len(w.symbols[x].actions) \in Nat
         /\ IsTable(TableOf(w.symbols[x]).factors, Len(w.symbols[x].actions))
<1> DEFINE s == w.symbols[x]
           list == s.actions
           n == Len(list)
           ours == {i \in DOMAIN list : list[i].equity}
           read == {i \in ours : ~ParseFails(list[i]) /\ KindOf(list[i]) # "meeting"}
           events == Parse(list).events
           cum == [ex \in {events[i].ex : i \in DOMAIN events} |-> LastRowBefore(s.rows, ex)]
<1>1. /\ DOMAIN s.rows \subseteq Nat /\ IsFiniteSet(DOMAIN s.rows)
      /\ n \in Nat /\ DOMAIN list = 1 .. n /\ \A i \in DOMAIN list : IsAnnouncement(list[i])
      /\ \A ex \in DOMAIN s.overrides : s.overrides[ex] \in Int
  BY BenchmarkAssumption
<1>2. \A d \in DOMAIN s.rows : s.rows[d] \in StoredRows
  BY BacktestAssumption
<1>3. TableOf(s) = BuildFactorTable(events, cum, s.overrides)
  BY DEF TableOf, SymbolActions
<1>4. events = [i \in read |-> ParsedEvent(list[i])]
  BY DEF Parse
<1> HIDE DEF s, n, list
<1>5. read \subseteq 1 .. n /\ \A i \in read : IsEvent(ParsedEvent(list[i]))
  BY <1>1, EventsAreRead
<1> HIDE DEF events, read
<1>6. DOMAIN events \subseteq 1 .. n /\ \A i \in DOMAIN events : IsEvent(events[i])
  BY <1>4, <1>5
<1>7. \A i \in DOMAIN events : cum[events[i].ex] \in {Nil} \cup Int
  <2>1. ASSUME NEW i \in DOMAIN events PROVE cum[events[i].ex] = LastRowBefore(s.rows, events[i].ex)
    OBVIOUS
  <2>2. \A ex : LastRowBefore(s.rows, ex) \in {Nil} \cup Int
    BY <1>1, <1>2, LastRowIsAClose
  <2> HIDE DEF cum
  <2> QED
    BY <2>1, <2>2
<1> HIDE DEF cum
<1>8. IsTable(TableOf(s).factors, n)
  BY <1>1, <1>3, <1>6, <1>7, BuiltIsSound
<1> QED
  BY <1>1, <1>8 DEF s, n, list


-----------------------------------------------------------------------------
(* What a holder has, day by day.                                          *)

Between(factors, kinds, from, to) == {j \in FactorsBetween(factors, from, to) : factors[j].kind \in kinds}

(* Days in their order, with their closes.                                 *)
AreDays(days, m, closes) ==
    /\ m \in Nat \ {0} /\ DOMAIN days = 1 .. m
    /\ \A i \in 1 .. m : days[i] \in Nat /\ closes[days[i]] \in Nat
    /\ \A i, j \in 1 .. m : i < j => days[i] < days[j]

HeldStep(factors, kinds, closes, days, held, i) ==
    IF i = 1 THEN Ratio(1, 1)
    ELSE Ratio(held[i - 1].kn * closes[days[i]]
                 * Product(factors, Between(factors, kinds, days[i - 1], days[i])).kd,
               held[i - 1].kd * closes[days[i - 1]]
                 * Product(factors, Between(factors, kinds, days[i - 1], days[i])).kn)

IsHeld(factors, kinds, closes, days, m, held) ==
    held = [i \in 1 .. m |-> HeldStep(factors, kinds, closes, days, held, i)]

LEMMA HeldExists ==
  ASSUME NEW factors, NEW kinds, NEW closes, NEW days, NEW m \in Nat
  PROVE  \E held : IsHeld(factors, kinds, closes, days, m, held)
<1> DEFINE Has(n) == \E held : IsHeld(factors, kinds, closes, days, n, held)
           T == {n \in 1 .. m : ~Has(n)}
<1>1. Has(0)
  <2>1. IsHeld(factors, kinds, closes, days, 0, [i \in 1 .. 0 |-> Ratio(1, 1)])
    BY DEF IsHeld
  <2> QED
    BY <2>1
<1>2. ASSUME NEW n \in 1 .. m, Has(n - 1) PROVE Has(n)
  <2>1. PICK held : IsHeld(factors, kinds, closes, days, n - 1, held)
    BY <1>2
  <2> DEFINE step(h, i) == HeldStep(factors, kinds, closes, days, h, i)
             more == [i \in 1 .. n |-> IF i = n THEN step(held, n) ELSE held[i]]
  <2>2. ASSUME NEW i \in 1 .. n PROVE more[i] = step(more, i)
    <3>1. i # 1 => more[i - 1] = held[i - 1]
      OBVIOUS
    <3>2. step(more, i) = step(held, i)
      BY <3>1 DEF HeldStep
    <3>3. i # n => held[i] = step(held, i)
      BY <2>1 DEF IsHeld
    <3> QED
      BY <3>2, <3>3
  <2>3. more = [i \in 1 .. n |-> step(more, i)]
    BY <2>2
  <2>4. IsHeld(factors, kinds, closes, days, n, more)
    <3> HIDE DEF more
    <3> QED
      BY <2>3 DEF IsHeld
  <2> QED
    BY <2>4
<1>3. ASSUME T # {} PROVE FALSE
  <2>1. PICK x \in T : \A i \in T : x <= i
    <3> HIDE DEF T
    <3>1. T \subseteq 1 .. m
      BY DEF T
    <3> QED
      BY <1>3, <3>1, HasLeast
  <2>2. x \in 1 .. m /\ ~Has(x) /\ (x - 1 = 0 \/ x - 1 \in 1 .. m)
    BY <2>1
  <2>3. Has(x - 1)
    <3> HIDE DEF Has
    <3>1. x - 1 \in 1 .. m => Has(x - 1)
      BY <2>1, <2>2
    <3> QED
      BY <1>1, <2>2, <3>1
  <2> QED
    BY <1>2, <2>2, <2>3
<1>4. CASE m = 0
  BY <1>1, <1>4
<1>5. CASE m # 0
  <2>1. m \in 1 .. m /\ m \notin T
    BY <1>3, <1>5
  <2> QED
    BY <2>1
<1> QED
  BY <1>4, <1>5

LEMMA HeldIsOne ==
  ASSUME NEW s, NEW closes, NEW kinds, NEW m \in Nat,
         DOMAIN InOrder(DOMAIN closes) = 1 .. m, Len(InOrder(DOMAIN closes)) = m
  PROVE  \E held : /\ IsHeld(TableOf(s).factors, kinds, closes, InOrder(DOMAIN closes), m, held)
                   /\ Held(s, closes, kinds) = held[m]
<1> DEFINE factors == TableOf(s).factors
           days == InOrder(DOMAIN closes)
           between(i) == {j \in FactorsBetween(factors, days[i - 1], days[i]) : factors[j].kind \in kinds}
           held == CHOOSE h : h = [i \in DOMAIN days |->
             IF i = 1 THEN Ratio(1, 1)
             ELSE Ratio(h[i - 1].kn * closes[days[i]] * Product(factors, between(i)).kd,
                        h[i - 1].kd * closes[days[i - 1]] * Product(factors, between(i)).kn)]
<1>1. Held(s, closes, kinds) = held[Len(days)]
  BY Zenon DEF Held
<1> HIDE DEF factors, days
<1>2. DOMAIN days = 1 .. m /\ Len(days) = m
  BY DEF days
<1>3. \E h : h = [i \in DOMAIN days |->
             IF i = 1 THEN Ratio(1, 1)
             ELSE Ratio(h[i - 1].kn * closes[days[i]] * Product(factors, between(i)).kd,
                        h[i - 1].kd * closes[days[i - 1]] * Product(factors, between(i)).kn)]
  <2>1. PICK h : IsHeld(factors, kinds, closes, days, m, h)
    BY HeldExists
  <2> DEFINE D == DOMAIN days
  <2>2. 1 .. m = D
    BY <1>2
  <2>3. h = [i \in 1 .. m |->
             IF i = 1 THEN Ratio(1, 1)
             ELSE Ratio(h[i - 1].kn * closes[days[i]] * Product(factors, between(i)).kd,
                        h[i - 1].kd * closes[days[i - 1]] * Product(factors, between(i)).kn)]
    BY <2>1, Zenon DEF IsHeld, HeldStep, Between
  <2> HIDE DEF D, between
  <2>4. h = [i \in D |->
             IF i = 1 THEN Ratio(1, 1)
             ELSE Ratio(h[i - 1].kn * closes[days[i]] * Product(factors, between(i)).kd,
                        h[i - 1].kd * closes[days[i - 1]] * Product(factors, between(i)).kn)]
    BY <2>2, <2>3, Zenon
  <2> QED
    BY <2>4, Zenon DEF D
<1>4. held = [i \in DOMAIN days |->
             IF i = 1 THEN Ratio(1, 1)
             ELSE Ratio(held[i - 1].kn * closes[days[i]] * Product(factors, between(i)).kd,
                        held[i - 1].kd * closes[days[i - 1]] * Product(factors, between(i)).kn)]
  BY <1>3, Zenon
<1> HIDE DEF held
<1>5. IsHeld(factors, kinds, closes, days, m, held)
  BY <1>2, <1>4, Zenon DEF IsHeld, HeldStep, Between
<1> QED
  BY <1>1, <1>2, <1>5 DEF factors, days


-----------------------------------------------------------------------------
(* What is held on a day is the first close and the factors up to it.      *)

NumAt(factors, at, n) == TimesTo(Kns(factors), at, n)
DenAt(factors, at, n) == TimesTo(Kds(factors), at, n)

LEMMA PartsArePositive ==
  ASSUME NEW n \in Nat, NEW factors, IsTable(factors, n), NEW at, at \subseteq DOMAIN factors
  PROVE  /\ NumAt(factors, at, n) \in Nat \ {0} /\ DenAt(factors, at, n) \in Nat \ {0}
         /\ PositiveAt(Kns(factors), at) /\ PositiveAt(Kds(factors), at)
<1>1. PositiveAt(Kns(factors), at)
  BY DEF IsTable, IsFactor, PositiveAt, Kns
<1>2. PositiveAt(Kds(factors), at)
  BY DEF IsTable, IsFactor, PositiveAt, Kds
<1>3. NumAt(factors, at, n) \in Nat \ {0}
  BY <1>1, TimesArePositive DEF NumAt
<1>4. DenAt(factors, at, n) \in Nat \ {0}
  BY <1>2, TimesArePositive DEF DenAt
<1> QED
  BY <1>1, <1>2, <1>3, <1>4

LEMMA PartsJoin ==
  ASSUME NEW n \in Nat, NEW factors, IsTable(factors, n), NEW A, NEW B,
         A \subseteq DOMAIN factors, B \subseteq DOMAIN factors, A \cap B = {}
  PROVE  /\ NumAt(factors, A \cup B, n) = NumAt(factors, A, n) * NumAt(factors, B, n)
         /\ DenAt(factors, A \cup B, n) = DenAt(factors, A, n) * DenAt(factors, B, n)
<1>1. PositiveAt(Kns(factors), A) /\ PositiveAt(Kds(factors), A)
  BY PartsArePositive
<1>2. PositiveAt(Kns(factors), B) /\ PositiveAt(Kds(factors), B)
  BY PartsArePositive
<1>3. NumAt(factors, A \cup B, n) = NumAt(factors, A, n) * NumAt(factors, B, n)
  BY <1>1, <1>2, TimesSplit DEF NumAt
<1>4. DenAt(factors, A \cup B, n) = DenAt(factors, A, n) * DenAt(factors, B, n)
  BY <1>1, <1>2, TimesSplit DEF DenAt
<1> QED
  BY <1>3, <1>4

LEMMA BetweenJoins ==
  ASSUME NEW n \in Nat, NEW factors, IsTable(factors, n), NEW kinds,
         NEW a \in Nat, NEW b \in Nat, NEW c \in Nat, a <= b, b <= c
  PROVE  /\ Between(factors, kinds, a, c) = Between(factors, kinds, a, b) \cup Between(factors, kinds, b, c)
         /\ Between(factors, kinds, a, b) \cap Between(factors, kinds, b, c) = {}
<1>1. \A j \in DOMAIN factors : factors[j].ex \in Nat
  BY DEF IsTable, IsFactor
<1>2. ASSUME NEW j \in DOMAIN factors
      PROVE  /\ (a < factors[j].ex /\ factors[j].ex <= c)
                  <=> (a < factors[j].ex /\ factors[j].ex <= b) \/ (b < factors[j].ex /\ factors[j].ex <= c)
             /\ ~((a < factors[j].ex /\ factors[j].ex <= b) /\ (b < factors[j].ex /\ factors[j].ex <= c))
  <2>1. factors[j].ex \in Nat
    BY <1>1
  <2> QED
    BY <2>1
<1> QED
  BY <1>2, Zenon DEF Between, FactorsBetween

LEMMA NoTimes ==
  ASSUME NEW f, NEW n \in Nat
  PROVE  TimesTo(f, {}, n) = 1
<1>1. NoneAbove({}, 0) /\ 0 \in Nat /\ 0 <= n
  BY DEF NoneAbove
<1>2. TimesTo(f, {}, n) = TimesTo(f, {}, 0)
  BY <1>1, TimesStop
<1> QED
  BY <1>2, TimesStepOn

LEMMA HeldTurns ==
  ASSUME NEW hn \in Nat, NEW hd \in Nat, NEW one \in Nat, NEW here \in Nat, NEW there \in Nat,
         NEW kn \in Nat, NEW kd \in Nat, NEW bn \in Nat, NEW bd \in Nat,
         hn * (one * kn) = hd * (here * kd)
  PROVE  ((hn * there) * bd) * (one * (kn * bn)) = ((hd * here) * bn) * (there * (kd * bd))
<1>1. ((hn * there) * bd) * (one * (kn * bn)) = (hn * (one * kn)) * (there * (bd * bn))
  BY SMT
<1>2. ((hd * here) * bn) * (there * (kd * bd)) = (hd * (here * kd)) * (there * (bd * bn))
  BY SMT
<1> QED
  BY <1>1, <1>2

IsHeldAt(factors, kinds, closes, days, n, held, i) ==
    LET at == Between(factors, kinds, days[1], days[i])
    IN /\ held[i].kn \in Nat /\ held[i].kd \in Nat
       /\ held[i].kn * (closes[days[1]] * NumAt(factors, at, n))
            = held[i].kd * (closes[days[i]] * DenAt(factors, at, n))

LEMMA HeldIsScaled ==
  ASSUME NEW n \in Nat, NEW factors, IsTable(factors, n), NEW kinds, NEW closes, NEW days, NEW m,
         AreDays(days, m, closes), NEW held, IsHeld(factors, kinds, closes, days, m, held),
         NEW last \in 1 .. m
  PROVE  IsHeldAt(factors, kinds, closes, days, n, held, last)
<1> DEFINE S(i) == Between(factors, kinds, days[1], days[i])
           holds(i) == IsHeldAt(factors, kinds, closes, days, n, held, i)
           T == {i \in 1 .. m : ~holds(i)}
<1>1. /\ m \in Nat \ {0} /\ DOMAIN days = 1 .. m /\ 1 \in 1 .. m
      /\ \A i \in 1 .. m : days[i] \in Nat /\ closes[days[i]] \in Nat
      /\ \A i, j \in 1 .. m : i < j => days[i] < days[j]
  BY DEF AreDays
<1>2. \A i \in 1 .. m : held[i] = HeldStep(factors, kinds, closes, days, held, i)
  BY DEF IsHeld
<1>3. holds(1)
  <2>1. S(1) = {}
    <3>1. days[1] \in Nat
      BY <1>1
    <3>2. \A j \in DOMAIN factors : factors[j].ex \in Nat
      BY DEF IsTable, IsFactor
    <3>3. ASSUME NEW j \in DOMAIN factors PROVE ~(days[1] < factors[j].ex /\ factors[j].ex <= days[1])
      <4>1. factors[j].ex \in Nat
        BY <3>2
      <4> QED
        BY <3>1, <4>1
    <3> QED
      BY <3>3 DEF Between, FactorsBetween
  <2>2. TimesTo(Kns(factors), {}, n) = 1 /\ TimesTo(Kds(factors), {}, n) = 1
    <3>1. TimesTo(Kns(factors), {}, n) = 1
      BY NoTimes
    <3>2. TimesTo(Kds(factors), {}, n) = 1
      BY NoTimes
    <3> QED
      BY <3>1, <3>2
  <2>3. held[1].kn = 1 /\ held[1].kd = 1
    <3>1. held[1] = HeldStep(factors, kinds, closes, days, held, 1)
      BY <1>1, <1>2
    <3>2. held[1] = Ratio(1, 1)
      BY <3>1, Zenon DEF HeldStep
    <3> QED
      BY <3>2 DEF Ratio
  <2>4. closes[days[1]] \in Nat
    BY <1>1
  <2> QED
    BY <2>1, <2>2, <2>3, <2>4 DEF IsHeldAt, NumAt, DenAt
<1>4. ASSUME NEW i \in 2 .. m, holds(i - 1) PROVE holds(i)
  <2> DEFINE B == Between(factors, kinds, days[i - 1], days[i])
             one == closes[days[1]]
             here == closes[days[i - 1]]
             there == closes[days[i]]
             hn == held[i - 1].kn
             hd == held[i - 1].kd
             kn == NumAt(factors, S(i - 1), n)
             kd == DenAt(factors, S(i - 1), n)
             bn == NumAt(factors, B, n)
             bd == DenAt(factors, B, n)
  <2>1. i \in 1 .. m /\ i - 1 \in 1 .. m /\ i # 1 /\ i - 1 < i
    BY <1>1
  <2>2. /\ days[1] \in Nat /\ days[i - 1] \in Nat /\ days[i] \in Nat
        /\ days[1] <= days[i - 1] /\ days[i - 1] <= days[i]
    <3>1. days[i - 1] < days[i]
      BY <1>1, <2>1
    <3>2. i - 1 = 1 \/ days[1] < days[i - 1]
      <4>1. i - 1 = 1 \/ 1 < i - 1
        BY <2>1
      <4> QED
        BY <1>1, <2>1, <4>1
    <3>3. days[1] \in Nat /\ days[i - 1] \in Nat /\ days[i] \in Nat
      BY <1>1, <2>1
    <3> QED
      BY <3>1, <3>2, <3>3
  <2>3. S(i) = S(i - 1) \cup B /\ S(i - 1) \cap B = {}
    BY <2>2, BetweenJoins
  <2>4. S(i - 1) \subseteq DOMAIN factors /\ B \subseteq DOMAIN factors
    BY DEF Between, FactorsBetween
  <2>5. one \in Nat /\ here \in Nat /\ there \in Nat
    BY <1>1, <2>1
  <2>6. hn \in Nat /\ hd \in Nat /\ hn * (one * kn) = hd * (here * kd)
    BY <1>4 DEF IsHeldAt
  <2>7. kn \in Nat /\ kd \in Nat
    BY <2>4, PartsArePositive
  <2>8. bn \in Nat /\ bd \in Nat
    BY <2>4, PartsArePositive
  <2>9. NumAt(factors, S(i), n) = kn * bn /\ DenAt(factors, S(i), n) = kd * bd
    <3>1. /\ NumAt(factors, S(i - 1) \cup B, n) = NumAt(factors, S(i - 1), n) * NumAt(factors, B, n)
          /\ DenAt(factors, S(i - 1) \cup B, n) = DenAt(factors, S(i - 1), n) * DenAt(factors, B, n)
      <4> HIDE DEF S, B
      <4> QED
        BY <2>3, <2>4, PartsJoin
    <3> QED
      BY <2>3, <3>1, Zenon
  <2>10. held[i].kn = (hn * there) * bd /\ held[i].kd = (hd * here) * bn
    <3>1. Product(factors, B) = Ratio(bn, bd)
      <4>1. DOMAIN factors \subseteq 1 .. n
        BY DEF IsTable
      <4> QED
        BY <2>4, <4>1, ProductIs DEF NumAt, DenAt
    <3>2. Product(factors, B).kn = bn /\ Product(factors, B).kd = bd
      <4> HIDE DEF bn, bd, B
      <4> QED
        BY <3>1 DEF Ratio
    <3>3. held[i] = HeldStep(factors, kinds, closes, days, held, i)
      BY <1>2, <2>1
    <3>4. held[i] = Ratio((hn * there) * Product(factors, B).kd, (hd * here) * Product(factors, B).kn)
      BY <2>1, <3>3, Zenon DEF HeldStep
    <3> HIDE DEF hn, hd, here, there, bn, bd, B
    <3> QED
      BY <3>2, <3>4 DEF Ratio
  <2> HIDE DEF one, here, there, hn, hd, kn, kd, bn, bd, B, S
  <2>11. ((hn * there) * bd) * (one * (kn * bn)) = ((hd * here) * bn) * (there * (kd * bd))
    BY <2>5, <2>6, <2>7, <2>8, HeldTurns
  <2>12. held[i].kn \in Nat /\ held[i].kd \in Nat
    BY <2>5, <2>6, <2>8, <2>10
  <2>13. held[i].kn * (one * NumAt(factors, S(i), n)) = held[i].kd * (there * DenAt(factors, S(i), n))
    BY <2>9, <2>10, <2>11, Zenon
  <2> QED
    BY <2>12, <2>13, Zenon DEF IsHeldAt, S, one, there
<1> HIDE DEF holds
<1>5. ASSUME T # {} PROVE FALSE
  <2>1. PICK x \in T : \A i \in T : x <= i
    <3> HIDE DEF T
    <3>1. T \subseteq 1 .. m
      BY DEF T
    <3> QED
      BY <1>1, <1>5, <3>1, HasLeast
  <2>2. x \in 1 .. m /\ ~holds(x) /\ x # 1
    BY <1>3, <2>1
  <2>3. x \in 2 .. m /\ x - 1 \in 1 .. m /\ ~(x <= x - 1)
    BY <1>1, <2>2
  <2>4. holds(x - 1)
    BY <2>1, <2>3
  <2> QED
    BY <1>4, <2>2, <2>3, <2>4
<1> QED
  BY <1>5 DEF holds


-----------------------------------------------------------------------------
(* A factor of one changes nothing, and after the last close there is none *)
(* that does.                                                              *)

LEMMA FlatFactorsCancel ==
  ASSUME NEW n \in Nat, NEW s, IsTable(TableOf(s).factors, n), NEW kinds,
         NEW first \in Nat, NEW close \in Nat, NEW last \in Nat, close <= last,
         kinds = {} \/ ~EventAfter(s, close, last)
  PROVE  LET factors == TableOf(s).factors
             lived == Between(factors, kinds, first, close)
             applied == Applied(s, first, last, kinds)
         IN /\ applied \subseteq DOMAIN factors /\ lived \subseteq DOMAIN factors
            /\ \E t \in Nat \ {0} :
                 /\ NumAt(factors, lived, n) = NumAt(factors, applied, n) * t
                 /\ DenAt(factors, lived, n) = DenAt(factors, applied, n) * t
<1> DEFINE factors == TableOf(s).factors
           lived == Between(factors, kinds, first, close)
           applied == Applied(s, first, last, kinds)
           flat == {i \in lived : factors[i].kn = factors[i].kd}
<1>1. applied = {i \in DOMAIN factors : /\ first < factors[i].ex /\ factors[i].ex <= last
                                        /\ factors[i].kn # factors[i].kd /\ factors[i].kind \in kinds}
  BY DEF Applied, FactorsBetween
<1>2. lived = {i \in DOMAIN factors : /\ first < factors[i].ex /\ factors[i].ex <= close
                                      /\ factors[i].kind \in kinds}
  BY DEF Between, FactorsBetween
<1>3. \A i \in DOMAIN factors : close < factors[i].ex /\ factors[i].ex <= last /\ kinds # {}
                                  => factors[i].kn = factors[i].kd
  <2>1. \A i \in DOMAIN factors : factors[i] \in Range(factors)
    BY DEF Range
  <2> QED
    BY <2>1 DEF EventAfter
<1>4. \A i \in DOMAIN factors : factors[i].ex \in Nat
  BY DEF IsTable, IsFactor
<1> HIDE DEF factors, lived, applied
<1>5. applied \subseteq DOMAIN factors /\ lived \subseteq DOMAIN factors /\ flat \subseteq DOMAIN factors
  BY <1>1, <1>2
<1>6. ASSUME NEW i \in DOMAIN factors
      PROVE  i \in lived <=> i \in applied \/ i \in flat
  <2>1. factors[i].ex \in Nat
    BY <1>4
  <2>2. kinds # {} => (factors[i].ex <= close \/ (close < factors[i].ex /\ factors[i].ex <= last)
                         <=> factors[i].ex <= last)
    BY <2>1
  <2>3. factors[i].kind \in kinds => kinds # {}
    OBVIOUS
  <2>4. factors[i].ex <= close => factors[i].ex <= last
    BY <2>1
  <2>5. factors[i].ex <= last => factors[i].ex <= close \/ close < factors[i].ex
    BY <2>1
  <2> QED
    BY <1>1, <1>2, <1>3, <2>3, <2>4, <2>5, Zenon
<1>7. lived = applied \cup flat /\ applied \cap flat = {}
  <2>1. applied \cap flat = {}
    BY <1>1
  <2> HIDE DEF flat
  <2> QED
    BY <1>5, <1>6, <2>1
<1>8. NumAt(factors, flat, n) = DenAt(factors, flat, n)
  <2>1. SameAt(Kns(factors), Kds(factors), flat, n)
    BY <1>5 DEF SameAt, Kns, Kds
  <2> HIDE DEF flat
  <2> QED
    BY <2>1, TimesSame DEF NumAt, DenAt
<1> HIDE DEF flat
<1>9. IsTable(factors, n)
  BY DEF factors
<1>10. NumAt(factors, flat, n) \in Nat \ {0}
  BY <1>5, <1>9, PartsArePositive
<1>11. /\ NumAt(factors, lived, n) = NumAt(factors, applied, n) * NumAt(factors, flat, n)
       /\ DenAt(factors, lived, n) = DenAt(factors, applied, n) * DenAt(factors, flat, n)
  <2>1. /\ NumAt(factors, applied \cup flat, n) = NumAt(factors, applied, n) * NumAt(factors, flat, n)
        /\ DenAt(factors, applied \cup flat, n) = DenAt(factors, applied, n) * DenAt(factors, flat, n)
    BY <1>5, <1>7, <1>9, PartsJoin
  <2> QED
    BY <1>7, <2>1, Zenon
<1>12. \E t \in Nat \ {0} : /\ NumAt(factors, lived, n) = NumAt(factors, applied, n) * t
                            /\ DenAt(factors, lived, n) = DenAt(factors, applied, n) * t
  BY <1>8, <1>10, <1>11, Zenon
<1> QED
  BY <1>5, <1>12 DEF factors, lived, applied

(* A holder's growth and the one that is said, which is cut once.          *)
LEMMA Cancels ==
  ASSUME NEW a \in Nat, NEW b \in Nat, NEW t \in Nat \ {0}, a * t = b * t
  PROVE  a = b
<1>1. CASE a < b
  <2>1. a * t < b * t
    BY <1>1, SMT
  <2> QED
    BY <2>1
<1>2. CASE b < a
  <2>1. b * t < a * t
    BY <1>2, SMT
  <2> QED
    BY <2>1
<1> QED
  BY <1>1, <1>2

LEMMA CancelsBelow ==
  ASSUME NEW a \in Nat, NEW b \in Nat, NEW t \in Nat \ {0}, a * t <= b * t
  PROVE  a <= b
<1>1. CASE b < a
  <2>1. b * t < a * t
    BY <1>1, SMT
  <2> QED
    BY <2>1
<1> QED
  BY <1>1

LEMMA SaidIsHeld ==
  ASSUME NEW hn \in Nat, NEW hd \in Nat, NEW one \in Nat, NEW close \in Nat,
         NEW kn \in Nat \ {0}, NEW kd \in Nat \ {0}, NEW t \in Nat \ {0},
         hn * (one * (kn * t)) = hd * (close * (kd * t))
  PROVE  LET cut == (one * kn) \div kd
         IN cut \in Nat /\ hn * cut <= close * hd /\ hn * (cut + 1) >= close * hd
<1> DEFINE cut == (one * kn) \div kd
<1>1. hn * (one * kn) \in Nat /\ hd * (close * kd) \in Nat /\ one * kn \in Nat /\ one * kn \in Int
  BY SMT
<1>2. (hn * (one * kn)) * t = (hd * (close * kd)) * t
  <2>1. hn * (one * (kn * t)) = (hn * (one * kn)) * t
    BY SMT
  <2>2. hd * (close * (kd * t)) = (hd * (close * kd)) * t
    BY SMT
  <2> QED
    BY <2>1, <2>2
<1>3. hn * (one * kn) = hd * (close * kd)
  BY <1>1, <1>2, Cancels
<1>4. cut \in Int /\ kd * cut <= one * kn /\ one * kn < kd * cut + kd
  BY <1>1, DivisionIs
<1>5. cut \in Nat
  BY <1>1, QuotientOfNat
<1> HIDE DEF cut
<1>6. (hn * cut) * kd <= (close * hd) * kd
  <2>1. hn * (kd * cut) <= hn * (one * kn)
    BY <1>1, <1>4, <1>5, SMT
  <2>2. (hn * cut) * kd = hn * (kd * cut)
    BY <1>5, SMT
  <2>3. (close * hd) * kd = hd * (close * kd)
    BY SMT
  <2> QED
    BY <1>3, <2>1, <2>2, <2>3
<1>7. (close * hd) * kd <= (hn * (cut + 1)) * kd
  <2>1. hn * (one * kn) <= hn * (kd * cut + kd)
    BY <1>1, <1>4, <1>5, SMT
  <2>2. (hn * (cut + 1)) * kd = hn * (kd * cut + kd)
    BY <1>5, SMT
  <2>3. (close * hd) * kd = hd * (close * kd)
    BY SMT
  <2> QED
    BY <1>3, <2>1, <2>2, <2>3
<1>8. hn * cut \in Nat /\ close * hd \in Nat /\ hn * (cut + 1) \in Nat
  BY <1>5, SMT
<1>9. hn * cut <= close * hd
  BY <1>6, <1>8, CancelsBelow
<1>10. close * hd <= hn * (cut + 1)
  BY <1>7, <1>8, CancelsBelow
<1> QED
  BY <1>5, <1>8, <1>9, <1>10 DEF cut


LEMMA WalkedDaysAreDays ==
  ASSUME RunInv, WalkedLedger # <<>>
  PROVE  LastWalkedDay(WalkedLedger) \in Nat
<1> DEFINE days == WalkedDays(WalkedLedger)
<1>1. PICK R : /\ WalkedLedger \in Seq(R)
               /\ \A q \in R : \E x \in DOMAIN world.symbols : q \in ToSet(WholeWalk(x))
  BY LedgerIsWalked
<1>2. \A i \in DOMAIN WalkedLedger : WalkedLedger[i].day \in Span
  <2>1. ASSUME NEW i \in DOMAIN WalkedLedger PROVE WalkedLedger[i].day \in Span
    <3>1. WalkedLedger[i] \in R
      BY <1>1
    <3>2. PICK x \in DOMAIN world.symbols : WalkedLedger[i] \in ToSet(WholeWalk(x))
      BY <1>1, <3>1
    <3>3. world \in Worlds
      BY DEF RunInv, InputsOK
    <3> QED
      BY <3>2, <3>3, WalkedRowsAreSound DEF WholeWalk
  <2> QED
    BY <2>1
<1>3. DOMAIN WalkedLedger # {}
  BY <1>1
<1>4. days \in SUBSET Span /\ days # {}
  BY <1>2, <1>3 DEF WalkedDays
<1>5. Span \subseteq Nat /\ IsFiniteSet(Span)
  BY FS_Interval, BacktestAssumption DEF Span
<1> HIDE DEF days
<1>6. days \subseteq Nat /\ IsFiniteSet(days)
  BY <1>4, <1>5, FS_Subset
<1>7. Max(days) \in days
  BY <1>4, <1>6, GreatestOf
<1> QED
  BY <1>6, <1>7 DEF LastWalkedDay, days

-----------------------------------------------------------------------------
(* The benchmark is what a holder sees.                                    *)

LEMMA ReadingIsHeld ==
  ASSUME NEW w \in Worlds, NEW x \in DOMAIN w.symbols, NEW first, NEW last \in Nat, NEW kinds,
         first \in DOMAIN Closes(w.symbols[x], first, last),
         kinds = {} \/ ~EventAfter(w.symbols[x], Max(DOMAIN Closes(w.symbols[x], first, last)), last)
  PROVE  Agrees(BuyAndHold(w, first, last, kinds)[x],
                Held(w.symbols[x], Closes(w.symbols[x], first, last), kinds), 1)
<1> DEFINE s == w.symbols[x]
           closes == Closes(s, first, last)
           days == InOrder(DOMAIN closes)
           m == Cardinality(DOMAIN closes)
           close == Max(DOMAIN closes)
           factors == TableOf(s).factors
           applied == Applied(s, first, last, kinds)
           lived == Between(factors, kinds, first, close)
           n == Len(s.actions)
           said == Growth(Scaled(closes, first, Product(factors, applied)), first)
<1>1. /\ DOMAIN s.rows \subseteq Nat /\ IsFiniteSet(DOMAIN s.rows)
      /\ \A d \in DOMAIN s.rows : s.rows[d].c >= 0
  BY BenchmarkAssumption
<1>2. \A d \in DOMAIN s.rows : s.rows[d] \in StoredRows
  BY BacktestAssumption
<1>3. n \in Nat /\ IsTable(factors, n)
  BY TablesAreSound
<1>4. BuyAndHold(w, first, last, kinds)[x] = said
  BY Zenon DEF BuyAndHold, Members
<1> HIDE DEF s, n
<1>5. /\ DOMAIN closes = {d \in DOMAIN s.rows : first <= d /\ d <= last}
      /\ \A d \in DOMAIN closes : closes[d] = s.rows[d].c
  BY DEF Closes
<1> HIDE DEF closes
<1>6. /\ DOMAIN closes \subseteq Nat /\ IsFiniteSet(DOMAIN closes)
      /\ first \in DOMAIN closes /\ first \in Nat
      /\ \A d \in DOMAIN closes : first <= d /\ d <= last /\ closes[d] \in Nat
  <2>1. DOMAIN closes \in SUBSET (DOMAIN s.rows)
    BY <1>5
  <2>2. IsFiniteSet(DOMAIN closes)
    BY <1>1, <2>1, FS_Subset
  <2>3. first \in DOMAIN closes
    BY DEF closes, s
  <2>4. ASSUME NEW d \in DOMAIN closes PROVE first <= d /\ d <= last /\ closes[d] \in Nat
    <3>1. d \in DOMAIN s.rows /\ closes[d] = s.rows[d].c
      BY <1>5
    <3>2. s.rows[d].c \in Int /\ s.rows[d].c >= 0
      BY <1>1, <1>2, <3>1 DEF StoredRows
    <3> QED
      BY <1>5, <3>1, <3>2
  <2> QED
    BY <1>1, <2>1, <2>2, <2>3, <2>4
<1>7. close \in DOMAIN closes /\ \A d \in DOMAIN closes : d <= close
  BY <1>6, GreatestOf
<1>8. close \in Nat /\ close <= last /\ first <= close
  BY <1>6, <1>7
<1> HIDE DEF close
<1>9. /\ m \in Nat \ {0} /\ DOMAIN days = 1 .. m
      /\ \A i \in 1 .. m : days[i] \in DOMAIN closes
      /\ \A i, j \in 1 .. m : i < j => days[i] < days[j]
      /\ days[1] = first /\ days[m] = close
  BY <1>6, <1>7, InOrderRises
<1>10. Len(days) = m
  BY <1>9 DEF InOrder
<1> HIDE DEF m
<1>11. AreDays(days, m, closes)
  BY <1>6, <1>9 DEF AreDays
<1>12. PICK held : /\ IsHeld(factors, kinds, closes, days, m, held)
                   /\ Held(s, closes, kinds) = held[m]
  BY <1>9, <1>10, HeldIsOne
<1> HIDE DEF days, factors, applied
<1>13. IsHeldAt(factors, kinds, closes, days, n, held, m)
  BY <1>3, <1>9, <1>11, <1>12, HeldIsScaled
<1> DEFINE hn == held[m].kn
           hd == held[m].kd
           one == closes[first]
           there == closes[close]
           kn == NumAt(factors, applied, n)
           kd == DenAt(factors, applied, n)
           cut == (one * kn) \div kd
<1>14. /\ hn \in Nat /\ hd \in Nat
       /\ hn * (one * NumAt(factors, lived, n)) = hd * (there * DenAt(factors, lived, n))
  BY <1>9, <1>13 DEF IsHeldAt
<1>15. /\ applied \subseteq DOMAIN factors
       /\ \E t \in Nat \ {0} : /\ NumAt(factors, lived, n) = kn * t
                               /\ DenAt(factors, lived, n) = kd * t
  <2>1. kinds = {} \/ ~EventAfter(s, close, last)
    BY DEF s, closes, close
  <2> QED
    BY <1>3, <1>6, <1>8, <2>1, FlatFactorsCancel DEF factors, applied
<1>16. kn \in Nat \ {0} /\ kd \in Nat \ {0}
  BY <1>3, <1>15, PartsArePositive
<1>17. one \in Nat /\ there \in Nat
  BY <1>6, <1>7
<1>18. Product(factors, applied).kn = kn /\ Product(factors, applied).kd = kd
  <2>1. applied \subseteq 1 .. n
    BY <1>3, <1>15 DEF IsTable
  <2>2. Product(factors, applied) = Ratio(kn, kd)
    BY <1>3, <1>15, <2>1, ProductIs DEF NumAt, DenAt
  <2> HIDE DEF kn, kd
  <2> QED
    BY <2>2 DEF Ratio
<1> DEFINE scaled == Scaled(closes, first, Product(factors, applied))
<1>19. /\ DOMAIN scaled = DOMAIN closes /\ scaled[first] = cut
       /\ \A d \in DOMAIN closes : d # first => scaled[d] = closes[d]
  <2> HIDE DEF kn, kd
  <2> QED
    BY <1>6, <1>18 DEF Scaled
<1>20. said.kn = scaled[close] /\ said.kd = cut
  <2>1. said = Ratio(scaled[close], scaled[first])
    BY <1>19, Zenon DEF Growth, close
  <2> HIDE DEF scaled, said, cut
  <2> QED
    BY <1>19, <2>1 DEF Ratio
<1>21. PICK t \in Nat \ {0} : /\ NumAt(factors, lived, n) = kn * t
                              /\ DenAt(factors, lived, n) = kd * t
  BY <1>15
<1>22. hn * (one * (kn * t)) = hd * (there * (kd * t))
  BY <1>14, <1>21
<1> HIDE DEF hn, hd, one, there, kn, kd, said, scaled
<1>23. cut \in Nat /\ hn * cut <= there * hd /\ hn * (cut + 1) >= there * hd
  BY <1>14, <1>16, <1>17, <1>22, SaidIsHeld
<1> HIDE DEF cut
<1>24. hn * said.kd <= said.kn * hd /\ hn * (said.kd + 1) >= said.kn * hd
  <2>1. CASE close # first
    <3>1. said.kn = there
      BY <1>7, <1>19, <1>20, <2>1 DEF there
    <3> QED
      BY <1>20, <1>23, <3>1
  <2>2. CASE close = first
    <3>1. said.kn = cut
      BY <1>19, <1>20, <2>2
    <3>2. m = 1
      <4>1. 1 \in 1 .. m /\ m \in 1 .. m /\ (m # 1 => 1 < m)
        BY <1>9
      <4>2. days[1] \in Nat /\ days[m] \in Nat
        BY <1>6, <1>8, <1>9
      <4> QED
        BY <1>9, <2>2, <4>1, <4>2
    <3>3. held[1] = HeldStep(factors, kinds, closes, days, held, 1)
      BY <1>12, <3>2 DEF IsHeld
    <3>4. held[1] = Ratio(1, 1)
      BY <3>3, Zenon DEF HeldStep
    <3>5. hn = 1 /\ hd = 1
      BY <3>2, <3>4 DEF hn, hd, Ratio
    <3> QED
      BY <1>20, <1>23, <3>1, <3>5
  <2> QED
    BY <2>1, <2>2
<1> QED
  BY <1>4, <1>12, <1>24 DEF Agrees, hn, hd, s, closes, said, scaled, factors, applied

(* Whatever the stores hold, once a ledger is finished: each of the three  *)
(* readings of a member of its benchmark is what a holder of it has on its *)
(* last close, but for the one cut to whole paise; an event after that     *)
(* close is the exception.                                                 *)
THEOREM BenchmarkIsWhatIsHeld == Spec => []BenchmarkIsHeld
<1>1. ASSUME RunInv PROVE BenchmarkIsHeld
  <2> SUFFICES ASSUME WalkedLedger # <<>> PROVE BenchmarkIsHeld
    BY DEF BenchmarkIsHeld
  <2> DEFINE first == FirstTradeDay(WalkedLedger)
             last == LastWalkedDay(WalkedLedger)
             pair == BenchmarkPair(WalkedLedger)
             closes(x) == Closes(world.symbols[x], first, last)
  <2>1. last \in Nat /\ world \in Worlds
    BY <1>1, WalkedDaysAreDays DEF RunInv, InputsOK
  <2>2. \A reading \in DOMAIN KindsOf : pair[reading] = BuyAndHold(world, first, last, KindsOf[reading])
    BY DEF BenchmarkPair
  <2> HIDE DEF first, last, pair
  <2>3. ASSUME NEW reading \in DOMAIN KindsOf, NEW x \in DOMAIN pair[reading]
        PROVE  \/ KindsOf[reading] # {} /\ EventAfter(world.symbols[x], Max(DOMAIN closes(x)), last)
               \/ Agrees(pair[reading][x], Held(world.symbols[x], closes(x), KindsOf[reading]), 1)
    <3> DEFINE kinds == KindsOf[reading]
    <3>1. pair[reading] = BuyAndHold(world, first, last, kinds)
      BY <2>2
    <3> HIDE DEF kinds
    <3>2. x \in Members(world, first, last)
      BY <3>1, Zenon DEF BuyAndHold
    <3>3. x \in DOMAIN world.symbols /\ first \in DOMAIN Closes(world.symbols[x], first, last)
      BY <3>2 DEF Members
    <3>4. ASSUME kinds = {} \/ ~EventAfter(world.symbols[x], Max(DOMAIN closes(x)), last)
          PROVE  Agrees(pair[reading][x], Held(world.symbols[x], closes(x), kinds), 1)
      BY <2>1, <3>1, <3>3, <3>4, ReadingIsHeld
    <3> QED
      BY <3>4 DEF kinds
  <2> QED
    BY <2>3, Zenon DEF BenchmarkIsHeld, first, last, pair
<1> QED
  BY RunAlways, <1>1, PTL

-----------------------------------------------------------------------------
(* The walk along a curve.                                                 *)

LEMMA Climbs ==
  ASSUME NEW n \in Nat, NEW S, 0 \in S, \A i \in 1 .. n : i - 1 \in S => i \in S
  PROVE  \A i \in 0 .. n : i \in S
<1> DEFINE T == {i \in 1 .. n : i \notin S}
<1>1. ASSUME T # {} PROVE FALSE
  <2>1. PICK x \in T : \A i \in T : x <= i
    <3> HIDE DEF T
    <3>1. T \subseteq 1 .. n
      BY DEF T
    <3> QED
      BY <1>1, <3>1, HasLeast
  <2>2. x \in 1 .. n /\ x \notin S /\ x - 1 \in 0 .. n /\ (x - 1 = 0 \/ x - 1 \in 1 .. n)
    BY <2>1
  <2>3. x - 1 \in S
    BY <2>1, <2>2
  <2> QED
    BY <2>2, <2>3
<1> QED
  BY <1>1

WalkStep(curve, walk, i) ==
    IF i = 0 THEN [peak |-> 0, best |-> NoFall] ELSE Look(curve, walk[i - 1], i)

IsWalk(curve, n, walk) == walk = [i \in 0 .. n |-> WalkStep(curve, walk, i)]

LEMMA WalkExists ==
  ASSUME NEW curve, NEW n \in Nat
  PROVE  \E walk : IsWalk(curve, n, walk)
<1> DEFINE S == {m \in 0 .. n : \E walk : IsWalk(curve, m, walk)}
<1>1. 0 \in S
  <2>1. IsWalk(curve, 0, [i \in 0 .. 0 |-> [peak |-> 0, best |-> NoFall]])
    BY DEF IsWalk, WalkStep
  <2> QED
    BY <2>1
<1>2. ASSUME NEW m \in 1 .. n, m - 1 \in S PROVE m \in S
  <2>1. PICK walk : IsWalk(curve, m - 1, walk)
    BY <1>2
  <2> DEFINE more == [i \in 0 .. m |-> IF i = m THEN WalkStep(curve, walk, m) ELSE walk[i]]
  <2>2. ASSUME NEW i \in 0 .. m PROVE more[i] = WalkStep(curve, more, i)
    <3>1. i # 0 => more[i - 1] = walk[i - 1]
      OBVIOUS
    <3>2. WalkStep(curve, more, i) = WalkStep(curve, walk, i)
      BY <3>1 DEF WalkStep
    <3>3. i # m => walk[i] = WalkStep(curve, walk, i)
      BY <2>1 DEF IsWalk
    <3> QED
      BY <3>2, <3>3
  <2>3. more = [i \in 0 .. m |-> WalkStep(curve, more, i)]
    BY <2>2
  <2>4. IsWalk(curve, m, more)
    <3> HIDE DEF more
    <3> QED
      BY <2>3 DEF IsWalk
  <2> QED
    BY <2>4
<1> HIDE DEF S
<1>3. n \in S
  BY <1>1, <1>2, Climbs
<1> QED
  BY <1>3 DEF S

IsCurve(curve, n) == DOMAIN curve = 0 .. n /\ \A i \in 0 .. n : curve[i] \in Int

(* What has been seen after the first i points: the first of the highest,  *)
(* and a fall that none of them beats.                                     *)
IsSeen(curve, i, seen) ==
    /\ seen.peak \in 0 .. i
    /\ \A j \in 0 .. i : curve[j] <= curve[seen.peak]
    /\ seen.best \in [amount : Nat, from : 0 .. i, to : 0 .. i, back : {NoRow}]
    /\ seen.best.from <= seen.best.to
    /\ seen.best.amount = curve[seen.best.from] - curve[seen.best.to]
    /\ \A p, q \in 0 .. i : p <= q => curve[p] - curve[q] <= seen.best.amount

LEMMA LooksFurther ==
  ASSUME NEW n \in Nat, NEW curve, IsCurve(curve, n), NEW i \in 1 .. n, NEW seen, IsSeen(curve, i - 1, seen)
  PROVE  IsSeen(curve, i, Look(curve, seen, i))
<1> DEFINE next == Look(curve, seen, i)
           peak == seen.peak
           here == curve[i]
           high == curve[peak]
           best == seen.best
           k1 == seen.best.amount
<1>1. /\ i \in 0 .. n /\ i \in 0 .. i /\ i - 1 \in 0 .. n /\ peak \in 0 .. i - 1 /\ peak \in 0 .. n
      /\ 0 .. i - 1 \subseteq 0 .. n /\ 0 .. i - 1 \subseteq 0 .. i
  BY DEF IsSeen
<1>2. here \in Int /\ high \in Int
  BY <1>1 DEF IsCurve
<1>3. \A j \in 0 .. i - 1 : curve[j] \in Int /\ curve[j] <= high
  BY <1>1 DEF IsSeen, IsCurve
<1>4. \A j \in 0 .. i : j = i \/ j \in 0 .. i - 1
  OBVIOUS
<1>5. next.peak = IF here > high THEN i ELSE peak
  BY DEF Look, PeakAfter
<1>6. next.best = IF high - here > k1 THEN [best EXCEPT !.amount = high - here, !.from = peak, !.to = i]
                  ELSE best
  BY Zenon DEF Look, Fallen
<1>7. /\ best \in [amount : Nat, from : 0 .. i - 1, to : 0 .. i - 1, back : {NoRow}]
      /\ k1 = best.amount /\ k1 \in Nat /\ best.from <= best.to
      /\ k1 = curve[best.from] - curve[best.to]
      /\ \A p, q \in 0 .. i - 1 : p <= q => curve[p] - curve[q] <= k1
  BY DEF IsSeen
<1> HIDE DEF next, here, high, peak, best, k1
<1>8. next.peak \in 0 .. i /\ \A j \in 0 .. i : curve[j] <= curve[next.peak]
  <2>1. CASE here > high
    <3>1. next.peak = i
      BY <1>5, <2>1
    <3>2. ASSUME NEW j \in 0 .. i PROVE curve[j] <= here
      <4>1. CASE j = i
        BY <1>2, <4>1 DEF here
      <4>2. CASE j \in 0 .. i - 1
        <5>1. curve[j] \in Int /\ curve[j] <= high
          BY <1>3, <4>2
        <5> QED
          BY <1>2, <2>1, <5>1
      <4> QED
        BY <1>4, <4>1, <4>2
    <3> QED
      BY <1>1, <3>1, <3>2 DEF here
  <2>2. CASE ~(here > high)
    <3>1. next.peak = peak
      BY <1>5, <2>2
    <3>2. ASSUME NEW j \in 0 .. i PROVE curve[j] <= high
      <4>1. CASE j = i
        BY <1>2, <2>2, <4>1 DEF here
      <4>2. CASE j \in 0 .. i - 1
        BY <1>3, <4>2
      <4> QED
        BY <1>4, <4>1, <4>2
    <3> QED
      BY <1>1, <3>1, <3>2 DEF high
  <2> QED
    BY <2>1, <2>2
<1> DEFINE most == IF high - here > k1 THEN high - here ELSE k1
<1>9. most \in Nat /\ k1 <= most /\ high - here <= most
  BY <1>2, <1>7
<1>10. \A p, q \in 0 .. i : p <= q => curve[p] - curve[q] <= most
  <2>1. ASSUME NEW p \in 0 .. i, NEW q \in 0 .. i, p <= q PROVE curve[p] - curve[q] <= most
    <3> HIDE DEF most
    <3>1. CASE q \in 0 .. i - 1
      <4>1. p \in 0 .. i - 1
        BY <2>1, <3>1
      <4>2. curve[p] - curve[q] <= k1
        BY <1>7, <2>1, <3>1, <4>1
      <4>3. curve[p] \in Int /\ curve[q] \in Int
        BY <1>3, <3>1, <4>1
      <4> QED
        BY <1>7, <1>9, <4>2, <4>3
    <3>2. CASE q = i /\ p \in 0 .. i - 1
      <4>1. curve[p] \in Int /\ curve[p] <= high
        BY <1>3, <3>2
      <4> QED
        BY <1>2, <1>9, <3>2, <4>1 DEF here
    <3>3. CASE q = i /\ p = i
      <4>1. curve[p] - curve[q] = 0
        BY <1>2, <3>3 DEF here
      <4> QED
        BY <1>9, <4>1
    <3> QED
      BY <1>4, <3>1, <3>2, <3>3
  <2> QED
    BY <2>1
<1>11. CASE high - here > k1
  <2>1. next.best = [best EXCEPT !.amount = high - here, !.from = peak, !.to = i]
    BY <1>6, <1>11
  <2>2. most = high - here
    BY <1>11
  <2>3. /\ next.best \in [amount : Nat, from : 0 .. i, to : 0 .. i, back : {NoRow}]
        /\ next.best.amount = most /\ next.best.from = peak /\ next.best.to = i
    <3> HIDE DEF most
    <3>1. best \in [amount : Nat, from : 0 .. i, to : 0 .. i, back : {NoRow}]
      BY <1>1, <1>7
    <3> QED
      BY <1>1, <1>9, <2>1, <2>2, <3>1
  <2> HIDE DEF most
  <2> QED
    BY <1>1, <1>8, <1>10, <2>2, <2>3 DEF IsSeen, high, here, next
<1>12. CASE ~(high - here > k1)
  <2>1. next.best = best
    BY <1>6, <1>12
  <2>2. most = k1
    BY <1>12
  <2>3. next.best \in [amount : Nat, from : 0 .. i, to : 0 .. i, back : {NoRow}]
    BY <1>1, <1>7, <2>1
  <2> HIDE DEF most
  <2> QED
    BY <1>7, <1>8, <1>10, <2>1, <2>2, <2>3 DEF IsSeen, next
<1> QED
  BY <1>11, <1>12

LEMMA LastOf ==
  ASSUME NEW n \in Nat
  PROVE  Max(0 .. n) = n
<1>1. n \in 0 .. n /\ \A y \in 0 .. n : n >= y
  OBVIOUS
<1>2. Max(0 .. n) \in 0 .. n /\ \A y \in 0 .. n : Max(0 .. n) >= y
  BY <1>1, Zenon DEF Max
<1> QED
  BY <1>1, <1>2

LEMMA WalkSees ==
  ASSUME NEW n \in Nat, NEW curve, IsCurve(curve, n), NEW walk, IsWalk(curve, n, walk)
  PROVE  IsSeen(curve, n, walk[n])
<1> DEFINE S == {i \in 0 .. n : IsSeen(curve, i, walk[i])}
<1>1. \A i \in 0 .. n : walk[i] = WalkStep(curve, walk, i)
  BY DEF IsWalk
<1>2. 0 \in S
  <2>1. walk[0] = [peak |-> 0, best |-> NoFall]
    BY <1>1 DEF WalkStep
  <2>2. curve[0] \in Int
    BY DEF IsCurve
  <2>3. IsSeen(curve, 0, walk[0])
    BY <2>1, <2>2 DEF IsSeen, NoFall
  <2> QED
    BY <2>3
<1>3. ASSUME NEW i \in 1 .. n, i - 1 \in S PROVE i \in S
  <2>1. walk[i] = Look(curve, walk[i - 1], i)
    <3>1. i \in 0 .. n /\ i # 0
      OBVIOUS
    <3> QED
      BY <1>1, <3>1, Zenon DEF WalkStep
  <2>2. IsSeen(curve, i - 1, walk[i - 1])
    BY <1>3
  <2>3. IsSeen(curve, i, walk[i])
    BY <2>1, <2>2, LooksFurther
  <2> QED
    BY <2>3
<1> HIDE DEF S
<1>4. n \in S
  BY <1>2, <1>3, Climbs
<1> QED
  BY <1>4 DEF S

(* The one walk along a curve finds its worst fall, and where it is over.  *)
LEMMA WorstFallIsWorst ==
  ASSUME NEW n \in Nat, NEW curve, IsCurve(curve, n)
  PROVE  /\ IsWorstFall(curve, WorstFall(curve)) /\ WorstFall(curve).amount \in Nat
         /\ \A p, q \in 0 .. n : p <= q => curve[p] - curve[q] <= WorstFall(curve).amount
         /\ \E p, q \in 0 .. n : p <= q /\ curve[p] - curve[q] = WorstFall(curve).amount
<1> DEFINE top == Max(DOMAIN curve)
           walk == CHOOSE w : w = [i \in 0 .. top |->
                     IF i = 0 THEN [peak |-> 0, best |-> NoFall] ELSE Look(curve, w[i - 1], i)]
           best == walk[top].best
           again == {j \in best.to + 1 .. top : curve[j] >= curve[best.from]}
           fall == WorstFall(curve)
<1>1. fall = IF best.amount = 0 \/ again = {} THEN best ELSE [best EXCEPT !.back = Min(again)]
  BY Zenon DEF WorstFall
<1>2. top = n
  BY LastOf DEF IsCurve
<1> HIDE DEF top
<1>3. \E w : w = [i \in 0 .. top |->
                    IF i = 0 THEN [peak |-> 0, best |-> NoFall] ELSE Look(curve, w[i - 1], i)]
  <2>1. PICK w : IsWalk(curve, top, w)
    BY <1>2, WalkExists
  <2> QED
    BY <2>1, Zenon DEF IsWalk, WalkStep
<1>4. walk = [i \in 0 .. top |->
                IF i = 0 THEN [peak |-> 0, best |-> NoFall] ELSE Look(curve, walk[i - 1], i)]
  BY <1>3, Zenon
<1> HIDE DEF walk
<1>5. IsWalk(curve, top, walk)
  BY <1>4, Zenon DEF IsWalk, WalkStep
<1>6. IsSeen(curve, n, walk[n])
  BY <1>2, <1>5, WalkSees
<1>7. /\ best \in [amount : Nat, from : 0 .. n, to : 0 .. n, back : {NoRow}]
      /\ best.amount = curve[best.from] - curve[best.to] /\ best.from <= best.to
      /\ \A p, q \in 0 .. n : p <= q => curve[p] - curve[q] <= best.amount
  BY <1>2, <1>6 DEF IsSeen
<1>8. again \subseteq Nat /\ \A j \in again : j \in best.to + 1 .. n /\ curve[j] >= curve[best.from]
  BY <1>2, <1>7
<1>9. \A j \in best.to + 1 .. n : j \in again \/ curve[j] < curve[best.from]
  <2>1. ASSUME NEW j \in best.to + 1 .. n PROVE j \in again \/ curve[j] < curve[best.from]
    <3>1. j \in 0 .. n /\ best.from \in 0 .. n
      BY <1>7
    <3>2. curve[j] \in Int /\ curve[best.from] \in Int
      BY <3>1 DEF IsCurve
    <3> QED
      BY <1>2, <3>2
  <2> QED
    BY <2>1
<1> HIDE DEF best, again, fall
<1>10. fall.amount = best.amount /\ fall.from = best.from /\ fall.to = best.to
  BY <1>1, <1>7
<1>11. ASSUME fall.amount > 0
       PROVE  \A j \in fall.to + 1 .. Max(DOMAIN curve) :
                (fall.back = NoRow \/ (fall.back # NoRow /\ j < fall.back)) => curve[j] < curve[fall.from]
  <2>1. fall.amount # 0
    BY <1>11
  <2>2. CASE again = {}
    BY <1>2, <1>9, <1>10, <2>2 DEF top
  <2>3. CASE again # {}
    <3>1. Min(again) \in again /\ \A j \in again : Min(again) <= j
      <4>1. PICK x \in again : \A y \in again : x <= y
        BY <1>8, <2>3, HasLeastNat
      <4> QED
        BY <4>1, Zenon DEF Min
    <3>2. fall.back = Min(again)
      BY <1>1, <1>7, <1>10, <2>1, <2>3
    <3>3. Min(again) \in Nat /\ Min(again) # NoRow
      <4>1. NoRow \notin Int
        BY GatesAssumption
      <4>2. Min(again) \in Nat
        BY <1>8, <3>1, Zenon
      <4> DEFINE least == Min(again)
      <4> HIDE DEF least
      <4>3. least \in Nat => least # NoRow
        BY <4>1
      <4> QED
        BY <4>2, <4>3, Zenon DEF least
    <3>4. ASSUME NEW j \in best.to + 1 .. n, j < Min(again) PROVE curve[j] < curve[best.from]
      <4>1. j \in Int
        BY <1>7
      <4>2. j \notin again
        BY <3>1, <3>3, <3>4, <4>1
      <4> QED
        BY <1>9, <4>2
    <3> QED
      BY <1>2, <1>10, <3>2, <3>3, <3>4 DEF top
  <2> QED
    BY <2>2, <2>3
<1> DEFINE pairs == {p \in (DOMAIN curve) \X (DOMAIN curve) : p[1] <= p[2]}
           falls == {curve[p[1]] - curve[p[2]] : p \in pairs}
<1>12. fall.amount \in falls
  <2>1. <<best.from, best.to>> \in pairs
    BY <1>7 DEF IsCurve
  <2> HIDE DEF pairs
  <2> QED
    BY <1>7, <1>10, <2>1
<1>13. \A x \in falls : x \in Int /\ fall.amount >= x
  <2>1. ASSUME NEW p \in pairs PROVE curve[p[1]] - curve[p[2]] \in Int /\ fall.amount >= curve[p[1]] - curve[p[2]]
    <3>1. p[1] \in 0 .. n /\ p[2] \in 0 .. n /\ p[1] <= p[2]
      BY <2>1 DEF IsCurve
    <3>2. curve[p[1]] \in Int /\ curve[p[2]] \in Int
      BY <3>1 DEF IsCurve
    <3>3. curve[p[1]] - curve[p[2]] <= best.amount
      BY <1>7, <3>1
    <3>4. best.amount \in Nat
      BY <1>7
    <3> QED
      BY <1>10, <3>2, <3>3, <3>4
  <2> HIDE DEF pairs
  <2> QED
    BY <2>1
<1> HIDE DEF falls
<1>14. fall.amount = Max(falls)
  <2>1. Max(falls) \in falls /\ \A y \in falls : Max(falls) >= y
    BY <1>12, <1>13, Zenon DEF Max
  <2> QED
    BY <1>12, <1>13, <2>1
<1>15. fall.amount = curve[fall.from] - curve[fall.to]
  BY <1>7, <1>10
<1>16. IsWorstFall(curve, fall)
  BY <1>11, <1>14, <1>15, Zenon DEF IsWorstFall, falls, pairs
<1>17. fall.amount \in Nat
  BY <1>7, <1>10
<1>18. \A p, q \in 0 .. n : p <= q => curve[p] - curve[q] <= fall.amount
  BY <1>7, <1>10
<1>19. \E p, q \in 0 .. n : p <= q /\ curve[p] - curve[q] = fall.amount
  <2>1. fall.from \in 0 .. n /\ fall.to \in 0 .. n /\ fall.from <= fall.to
    BY <1>7, <1>10
  <2> QED
    BY <1>15, <2>1
<1> QED
  BY <1>16, <1>17, <1>18, <1>19 DEF fall

-----------------------------------------------------------------------------
(* Sums over positions, and the curve that follows the days.               *)

IsNumbers(f) == Len(f) \in Nat /\ DOMAIN f = 1 .. Len(f) /\ \A i \in 1 .. Len(f) : f[i] \in Int

Kept(f, at) == [i \in DOMAIN f |-> IF i \in at THEN f[i] ELSE 0]

LEMMA SumAtAdds ==
  ASSUME NEW f, IsNumbers(f), NEW a, NEW b, a \cap b = {}
  PROVE  /\ SumAt(f, a) \in Int /\ SumAt(f, b) \in Int
         /\ SumAt(f, a \cup b) = SumAt(f, a) + SumAt(f, b)
<1> DEFINE n == Len(f)
<1>1. n \in Nat /\ DOMAIN f = 1 .. n
  BY DEF IsNumbers
<1>2. \A i \in 1 .. n : Kept(f, a)[i] \in Int /\ Kept(f, b)[i] \in Int
  BY DEF Kept, IsNumbers
<1>3. AddUp(Kept(f, a), Kept(f, b), Kept(f, a \cup b), n)
  <2>1. ASSUME NEW i \in 1 .. n PROVE Kept(f, a \cup b)[i] = Kept(f, a)[i] + Kept(f, b)[i]
    BY DEF Kept, IsNumbers
  <2> QED
    BY <1>2, <2>1 DEF AddUp
<1>4. /\ SumAt(f, a) = SumTo(Kept(f, a), n) /\ SumAt(f, b) = SumTo(Kept(f, b), n)
      /\ SumAt(f, a \cup b) = SumTo(Kept(f, a \cup b), n)
  BY Zenon DEF SumAt, Kept
<1> HIDE DEF n
<1>5. SumTo(Kept(f, a \cup b), n) = SumTo(Kept(f, a), n) + SumTo(Kept(f, b), n)
  BY <1>1, <1>3, SumAdds
<1>6. n \in 0 .. n
  BY <1>1
<1>7. SumTo(Kept(f, a), n) \in Int
  BY <1>1, <1>2, <1>6, SumIsInt
<1>8. SumTo(Kept(f, b), n) \in Int
  BY <1>1, <1>2, <1>6, SumIsInt
<1> QED
  BY <1>4, <1>5, <1>7, <1>8

LEMMA SumAtIsInt ==
  ASSUME NEW f, IsNumbers(f), NEW a
  PROVE  SumAt(f, a) \in Int
<1>1. a \cap {} = {}
  OBVIOUS
<1> QED
  BY <1>1, SumAtAdds

MadeOn(daily) == [n \in 1 .. Len(daily) |-> daily[n].net]

LEMMA EquityIs ==
  ASSUME NEW daily, Len(daily) \in Nat, NEW opening \in Int,
         \A n \in 1 .. Len(daily) : daily[n].net \in Int
  PROVE  LET equity == EquityFrom(daily, opening)
         IN /\ IsCurve(equity, Len(daily)) /\ equity[0] = opening
            /\ \A n \in 1 .. Len(daily) : equity[n] = equity[n - 1] + daily[n].net
            /\ \A n \in 0 .. Len(daily) : equity[n] = opening + SumTo(MadeOn(daily), n)
<1> DEFINE m == Len(daily)
           equity == CHOOSE e : e = [n \in 0 .. m |-> IF n = 0 THEN opening ELSE e[n - 1] + daily[n].net]
<1>1. EquityFrom(daily, opening) = equity
  BY Zenon DEF EquityFrom
<1>2. \A n \in 1 .. m : MadeOn(daily)[n] = daily[n].net /\ MadeOn(daily)[n] \in Int
  BY DEF MadeOn
<1> DEFINE e0 == [n \in 0 .. m |-> opening + SumTo(MadeOn(daily), n)]
<1>3. \A n \in 0 .. m : SumTo(MadeOn(daily), n) \in Int
  BY <1>2, SumIsInt
<1>4. e0 = [n \in 0 .. m |-> IF n = 0 THEN opening ELSE e0[n - 1] + daily[n].net]
  <2>1. ASSUME NEW n \in 0 .. m PROVE e0[n] = IF n = 0 THEN opening ELSE e0[n - 1] + daily[n].net
    <3>1. n \in Nat /\ (n = 0 => SumTo(MadeOn(daily), n) = 0)
      BY SumSteps
    <3>2. n # 0 => SumTo(MadeOn(daily), n) = SumTo(MadeOn(daily), n - 1) + MadeOn(daily)[n]
      BY <3>1, SumSteps
    <3>3. n # 0 => n - 1 \in 0 .. m /\ n \in 1 .. m
      OBVIOUS
    <3> HIDE DEF m
    <3> QED
      BY <1>2, <1>3, <3>1, <3>2, <3>3
  <2> QED
    BY <2>1
<1> HIDE DEF e0
<1>5. equity = [n \in 0 .. m |-> IF n = 0 THEN opening ELSE equity[n - 1] + daily[n].net]
  BY <1>4, Zenon
<1> HIDE DEF equity
<1>6. DOMAIN equity = 0 .. m /\ equity[0] = opening
  BY <1>5
<1>7. \A n \in 1 .. m : equity[n] = equity[n - 1] + daily[n].net
  BY <1>5
<1>8. \A n \in 0 .. m : equity[n] = opening + SumTo(MadeOn(daily), n)
  <2> DEFINE S == {n \in 0 .. m : equity[n] = opening + SumTo(MadeOn(daily), n)}
  <2>1. 0 \in S
    BY <1>6, SumSteps
  <2>2. ASSUME NEW n \in 1 .. m, n - 1 \in S PROVE n \in S
    <3>1. n \in Nat /\ n # 0 /\ n - 1 \in 0 .. m /\ n \in 0 .. m
      OBVIOUS
    <3>2. SumTo(MadeOn(daily), n) = SumTo(MadeOn(daily), n - 1) + MadeOn(daily)[n]
      BY <3>1, SumSteps
    <3>3. equity[n - 1] = opening + SumTo(MadeOn(daily), n - 1)
      BY <2>2
    <3>4. equity[n] = opening + SumTo(MadeOn(daily), n)
      <4> HIDE DEF m
      <4> QED
        BY <1>2, <1>3, <1>7, <3>1, <3>2, <3>3
    <3> QED
      BY <3>1, <3>4
  <2> HIDE DEF S
  <2>3. \A n \in 0 .. m : n \in S
    BY <2>1, <2>2, Climbs
  <2> QED
    BY <2>3 DEF S
<1>9. IsCurve(equity, m)
  <2> HIDE DEF m
  <2> QED
    BY <1>3, <1>6, <1>8 DEF IsCurve
<1> QED
  BY <1>1, <1>6, <1>7, <1>8, <1>9

-----------------------------------------------------------------------------
(* The rows of a finished ledger as the books read them.                   *)

IsMarked(path) ==
    /\ Len(path) \in Nat \ {0} /\ DOMAIN path = 1 .. Len(path)
    /\ \A k \in DOMAIN path : path[k].at \in Ordinals /\ path[k].price \in Int
    /\ \A j, k \in DOMAIN path : j < k => path[j].at < path[k].at

IsBooked(r) ==
    /\ r.day \in Nat /\ r.trade.net \in Int /\ r.trade.qty \in Nat
    /\ r.trade.qty > 0 => /\ r.side \in Sides /\ IsMarked(r.trade.path)
                          /\ MarkPnl(r, Last(r.trade.path).price) = r.trade.net

AreBooked(rows) ==
    /\ Len(rows) \in Nat /\ DOMAIN rows = 1 .. Len(rows) /\ IsFiniteSet(WalkedDays(rows))
    /\ \A i \in DOMAIN rows : IsBooked(rows[i])

LEMMA TradesAreBooked ==
  ASSUME NEW r, r.day \in Nat, NEW b, IsTraded(r, b)
  PROVE  IsBooked(r)
<1>1. PICK e, x : /\ IsTrade(b, r.side, e, x) /\ IsDay(b) /\ r.side \in Sides
                  /\ r.trade = Traded(r.side, b, e, x)
  BY DEF IsTraded
<1> DEFINE s == r.side
           risk == Risk(e.price, e.stop, s)
           qty == PositionSize(risk)
           fill == ExitPrice(e, x, b)
           gross == GrossPnl(s, qty, e.price, fill)
           seen == Excursions(s, qty, b, e, x)
           path == TradePath(b, e, x, fill)
<1>2. qty \in Nat
  BY <1>1, SizesAreTight DEF IsTrade
<1>3. CASE qty = 0
  <2>1. r.trade = [NoTrade EXCEPT !.entry = e.price, !.stop = e.stop]
    BY <1>1, <1>3 DEF Traded
  <2>2. r.trade.qty = 0 /\ r.trade.net = 0
    BY <2>1 DEF NoTrade
  <2> QED
    BY <2>2 DEF IsBooked
<1>4. CASE qty # 0
  <2> DEFINE trade == [entry |-> e.price, stop |-> e.stop, fill |-> fill, qty |-> qty,
                       gross |-> gross, net |-> gross - Cost, mfe |-> seen.mfe, mae |-> seen.mae,
                       path |-> path]
  <2>1. r.trade = trade
    BY <1>1, <1>4 DEF Traded
  <2>2. x.at \in DOMAIN b /\ e.at <= x.at
    BY <1>1, ExitsWhereItMay
  <2>3. fill \in Int /\ (x.at = e.at => fill = e.price)
    BY <1>1, FillsMoveTheMoney
  <2>4. IsPath(path, DOMAIN b, e.price, Mark(x.at, fill)) /\ IsPriced(path, b, fill)
    BY <1>1, <2>2, <2>3, PathsRise DEF IsTrade, IsDay
  <2>5. gross \in Int
    <3>1. e.price \in Int
      BY <1>1 DEF IsTrade
    <3>2. Move(s, e.price, fill) \in Int
      BY <2>3, <3>1 DEF Move
    <3> HIDE DEF qty, fill
    <3>3. gross = qty * Move(s, e.price, fill)
      BY DEF GrossPnl, Move
    <3> QED
      BY <1>2, <3>2, <3>3, Distributes
  <2> HIDE DEF risk, qty, fill, gross, seen, path
  <2>6. r.trade.qty = qty /\ r.trade.net = gross - Cost /\ r.trade.path = path
    BY <2>1
  <2> HIDE DEF trade
  <2>7. IsMarked(path)
    <3>1. \A n \in DOMAIN b : b[n].close \in Int
      BY <1>1 DEF IsDay, IsCandle
    <3>2. \A k \in DOMAIN path : path[k].price \in Int
      BY <2>3, <2>4, <3>1 DEF IsPriced
    <3>3. \A k \in DOMAIN path : path[k].at \in Ordinals
      BY <1>1, <2>4 DEF IsPath, IsDay
    <3> QED
      BY <2>4, <3>2, <3>3 DEF IsPath, IsMarked
  <2>8. MarkPnl(r, Last(path).price) = gross - Cost
    <3>1. path[1].price = e.price /\ Last(path).price = fill
      BY <2>4 DEF IsPath, Mark
    <3> QED
      BY <2>6, <3>1 DEF MarkPnl, gross
  <2>9. gross - Cost \in Int
    BY <2>5, CostAssumption
  <2> QED
    BY <1>1, <1>2, <2>6, <2>7, <2>8, <2>9 DEF IsBooked
<1> QED
  BY <1>3, <1>4

LEMMA SomethingIsThere ==
  ASSUME NEW R, NEW s \in Seq(R), s # <<>>
  PROVE  DOMAIN s # {}
<1>1. ASSUME DOMAIN s = {} PROVE FALSE
  <2>1. Len(s) = 0
    BY <1>1
  <2> QED
    BY <2>1
<1> QED
  BY <1>1

LEMMA LedgerIsBooked ==
  ASSUME RunInv, WalkedLedger # <<>>
  PROVE  AreBooked(WalkedLedger) /\ WalkedDays(WalkedLedger) # {}
<1> DEFINE rows == WalkedLedger
           days == WalkedDays(rows)
<1>1. PICK R : /\ rows \in Seq(R)
               /\ \A q \in R : \E x \in DOMAIN world.symbols : q \in ToSet(WholeWalk(x))
  BY LedgerIsWalked
<1>2. ASSUME NEW i \in DOMAIN rows PROVE rows[i].day \in Span /\ IsBooked(rows[i])
  <2> DEFINE r == rows[i]
  <2>1. r \in R
    BY <1>1
  <2>2. PICK x \in DOMAIN world.symbols : r \in ToSet(WholeWalk(x))
    BY <1>1, <2>1
  <2>3. world \in Worlds
    BY DEF RunInv, InputsOK
  <2>4. Sound(r, CandlesIn(world.symbols[x], r.day)) /\ r.day \in Span
    BY <2>2, <2>3, WalkedRowsAreSound DEF WholeWalk
  <2>5. r.day \in Nat
    BY <2>4, BacktestAssumption DEF Span
  <2> HIDE DEF r
  <2>6. CASE r.trade = NoTrade
    <3>1. NoTrade.qty = 0 /\ NoTrade.net = 0
      BY DEF NoTrade
    <3> QED
      BY <2>4, <2>5, <2>6, <3>1 DEF IsBooked, r
  <2>7. CASE IsTraded(r, CandlesIn(world.symbols[x], r.day))
    BY <2>4, <2>5, <2>7, TradesAreBooked DEF r
  <2> QED
    BY <2>4, <2>6, <2>7 DEF Sound, r
<1>3. Len(rows) \in Nat /\ DOMAIN rows = 1 .. Len(rows) /\ DOMAIN rows # {}
  <2>1. WalkedLedger \in Seq(R)
    BY <1>1
  <2>2. DOMAIN WalkedLedger # {}
    BY <2>1, SomethingIsThere
  <2>3. Len(WalkedLedger) \in Nat /\ DOMAIN WalkedLedger = 1 .. Len(WalkedLedger)
    BY <2>1
  <2> QED
    BY <2>2, <2>3
<1>4. days \in SUBSET Span /\ days # {}
  BY <1>2, <1>3 DEF WalkedDays
<1>5. IsFiniteSet(Span)
  BY FS_Interval, BacktestAssumption DEF Span
<1> HIDE DEF days
<1>6. IsFiniteSet(days)
  BY <1>4, <1>5, FS_Subset
<1> QED
  BY <1>2, <1>3, <1>4, <1>6 DEF AreBooked, days

-----------------------------------------------------------------------------
(* A column of the report, and columns that add up.                        *)

LEMMA FallsShare ==
  ASSUME NEW n \in Nat, NEW all, NEW one, NEW other, NEW c \in Int,
         IsCurve(all, n), IsCurve(one, n), IsCurve(other, n),
         \A i \in 0 .. n : all[i] + c = one[i] + other[i]
  PROVE  WorstFall(all).amount <= WorstFall(one).amount + WorstFall(other).amount
<1> DEFINE a == WorstFall(all).amount
           b == WorstFall(one).amount
           d == WorstFall(other).amount
<1>1. a \in Nat /\ b \in Nat /\ d \in Nat
  BY WorstFallIsWorst
<1>2. PICK p, q \in 0 .. n : p <= q /\ all[p] - all[q] = a
  BY WorstFallIsWorst
<1>3. one[p] - one[q] <= b
  BY <1>2, WorstFallIsWorst
<1>4. other[p] - other[q] <= d
  BY <1>2, WorstFallIsWorst
<1>5. /\ all[p] \in Int /\ all[q] \in Int /\ one[p] \in Int /\ one[q] \in Int
      /\ other[p] \in Int /\ other[q] \in Int
  BY DEF IsCurve
<1>6. all[p] + c = one[p] + other[p] /\ all[q] + c = one[q] + other[q]
  OBVIOUS
<1> HIDE DEF a, b, d
<1>7. a <= b + d
  BY <1>1, <1>2, <1>3, <1>4, <1>5, <1>6
<1> QED
  BY <1>7 DEF a, b, d

Turned(curve) == [i \in DOMAIN curve |-> -curve[i]]

LEMMA TurnedIsCurve ==
  ASSUME NEW n \in Nat, NEW curve, IsCurve(curve, n)
  PROVE  /\ IsCurve(Turned(curve), n) /\ \A i \in 0 .. n : Turned(curve)[i] = -curve[i]
         /\ BestRise(curve) = WorstFall(Turned(curve))
<1>1. BestRise(curve) = WorstFall(Turned(curve))
  BY Zenon DEF BestRise, Turned
<1>2. DOMAIN curve = 0 .. n /\ \A i \in 0 .. n : curve[i] \in Int
  BY DEF IsCurve
<1>3. Turned(curve) = [i \in 0 .. n |-> -curve[i]]
  BY <1>2 DEF Turned
<1> QED
  BY <1>1, <1>2, <1>3 DEF IsCurve

LEMMA RisesShare ==
  ASSUME NEW n \in Nat, NEW all, NEW one, NEW other, NEW c \in Int,
         IsCurve(all, n), IsCurve(one, n), IsCurve(other, n),
         \A i \in 0 .. n : all[i] + c = one[i] + other[i]
  PROVE  BestRise(all).amount <= BestRise(one).amount + BestRise(other).amount
<1> DEFINE a == Turned(all)
           b == Turned(one)
           d == Turned(other)
<1>1. IsCurve(a, n) /\ BestRise(all) = WorstFall(a) /\ \A i \in 0 .. n : a[i] = -all[i]
  BY TurnedIsCurve
<1>2. IsCurve(b, n) /\ BestRise(one) = WorstFall(b) /\ \A i \in 0 .. n : b[i] = -one[i]
  BY TurnedIsCurve
<1>3. IsCurve(d, n) /\ BestRise(other) = WorstFall(d) /\ \A i \in 0 .. n : d[i] = -other[i]
  BY TurnedIsCurve
<1> HIDE DEF a, b, d
<1>4. ASSUME NEW i \in 0 .. n PROVE a[i] + (-c) = b[i] + d[i]
  <2>1. all[i] \in Int /\ one[i] \in Int /\ other[i] \in Int
    BY DEF IsCurve
  <2>2. all[i] + c = one[i] + other[i]
    OBVIOUS
  <2> QED
    BY <1>1, <1>2, <1>3, <2>1, <2>2
<1>5. -c \in Int
  OBVIOUS
<1>6. WorstFall(a).amount <= WorstFall(b).amount + WorstFall(d).amount
  BY <1>1, <1>2, <1>3, <1>4, <1>5, FallsShare
<1> QED
  BY <1>1, <1>2, <1>3, <1>6

LEMMA NetsAreNumbers ==
  ASSUME NEW rows, AreBooked(rows)
  PROVE  IsNumbers(Nets(rows)) /\ Len(Nets(rows)) = Len(rows)
<1> DEFINE n == Len(rows)
<1>1. n \in Nat /\ DOMAIN rows = 1 .. n
  BY DEF AreBooked
<1> HIDE DEF n
<1>2. Nets(rows) = [i \in 1 .. n |-> rows[i].trade.net]
  BY <1>1 DEF Nets
<1>3. \A i \in 1 .. n : rows[i].trade.net \in Int
  BY <1>1 DEF AreBooked, IsBooked
<1>4. Nets(rows) \in Seq(Int) /\ Len(Nets(rows)) = n
  BY <1>1, <1>2, <1>3
<1> QED
  BY <1>1, <1>2, <1>3, <1>4 DEF IsNumbers, n

(* The days of a column are those that were asked for, and each made what  *)
(* the column's trades of the day made.                                    *)
IsColumn(rows, at, index, daily) ==
    LET order == InOrder(index)
    IN /\ Len(daily) = Cardinality(index) /\ Len(daily) \in Nat
       /\ DOMAIN daily = 1 .. Len(daily)
       /\ \A n \in 1 .. Len(daily) :
            /\ daily[n].day = order[n] /\ daily[n].net \in Int
            /\ daily[n].net = SumAt(Nets(rows), OnDay(rows, at, order[n]))

LEMMA ColumnIs ==
  ASSUME NEW rows, AreBooked(rows), NEW at, NEW index, IsFiniteSet(index),
         \A i \in at : rows[i].day \in index
  PROVE  IsColumn(rows, at, index, DailyPnlOver(rows, at, index))
<1> DEFINE k == Cardinality(index)
           order == InOrder(index)
           daily == DailyPnlOver(rows, at, index)
<1>1. index \cup {rows[i].day : i \in at} = index
  OBVIOUS
<1>2. daily = [n \in DOMAIN order |->
                [day |-> order[n], trades |-> Cardinality(OnDay(rows, at, order[n])),
                 net |-> SumAt(Nets(rows), OnDay(rows, at, order[n]))]]
  BY <1>1, Zenon DEF DailyPnlOver
<1>3. k \in Nat
  BY FS_CardinalityType
<1>4. DOMAIN order = 1 .. k
  BY DEF InOrder
<1> HIDE DEF k, order, daily
<1>5. daily = [n \in 1 .. k |->
                [day |-> order[n], trades |-> Cardinality(OnDay(rows, at, order[n])),
                 net |-> SumAt(Nets(rows), OnDay(rows, at, order[n]))]]
  BY <1>2, <1>4
<1>6. ASSUME NEW n PROVE SumAt(Nets(rows), OnDay(rows, at, order[n])) \in Int
  BY NetsAreNumbers, SumAtIsInt
<1>7. \A n \in 1 .. k : /\ daily[n].day = order[n] /\ daily[n].net \in Int
                        /\ daily[n].net = SumAt(Nets(rows), OnDay(rows, at, order[n]))
  BY <1>5, <1>6
<1>8. Len(daily) = k /\ DOMAIN daily = 1 .. k
  BY <1>3, <1>5
<1> QED
  BY <1>3, <1>7, <1>8 DEF IsColumn, daily, k, order

(* The days of a ledger are the index of all its columns. *)
LEMMA WalkedDaysAreAnIndex ==
  ASSUME NEW rows, AreBooked(rows)
  PROVE  /\ WalkedDays(rows) \subseteq Nat /\ IsFiniteSet(WalkedDays(rows))
         /\ \A i \in DOMAIN rows : rows[i].day \in WalkedDays(rows)
BY DEF AreBooked, IsBooked, WalkedDays

Column(rows, at) == DailyPnlOver(rows, at, WalkedDays(rows))

LEMMA MetricsAre ==
  ASSUME NEW rows, NEW at, NEW opening, NEW index
  PROVE  LET daily == DailyPnlOver(rows, at, index)
             equity == EquityFrom(daily, opening)
             figures == Metrics(rows, at, opening, index)
         IN /\ figures.trades = Cardinality(at) /\ figures.net = SumAt(Nets(rows), at)
            /\ figures.final = equity[Len(daily)] /\ figures.days = Len(daily)
            /\ figures.fall = WorstFall(equity).amount /\ figures.rise = BestRise(equity).amount
BY DEF Metrics

AreShared(rows, a, b) ==
    LET k == Cardinality(WalkedDays(rows))
        equity(at) == EquityFrom(Column(rows, at), Capital)
    IN /\ k \in Nat /\ Len(Column(rows, a \cup b)) = k
       /\ Len(Column(rows, a)) = k /\ Len(Column(rows, b)) = k
       /\ IsCurve(equity(a \cup b), k) /\ IsCurve(equity(a), k) /\ IsCurve(equity(b), k)
       /\ \A n \in 0 .. k : equity(a \cup b)[n] + Capital = equity(a)[n] + equity(b)[n]

(* Two columns that share the trades of a third add up to it. *)
LEMMA ColumnsShare ==
  ASSUME NEW rows, AreBooked(rows), NEW a, NEW b, a \cup b \subseteq DOMAIN rows, a \cap b = {}
  PROVE  AreShared(rows, a, b)
<1> DEFINE k == Cardinality(WalkedDays(rows))
           all == Column(rows, a \cup b)
           one == Column(rows, a)
           other == Column(rows, b)
           order == InOrder(WalkedDays(rows))
<1>1. /\ IsColumn(rows, a \cup b, WalkedDays(rows), all) /\ IsColumn(rows, a, WalkedDays(rows), one)
      /\ IsColumn(rows, b, WalkedDays(rows), other)
  <2>1. ASSUME NEW at, at \subseteq DOMAIN rows PROVE IsColumn(rows, at, WalkedDays(rows), Column(rows, at))
    BY <2>1, WalkedDaysAreAnIndex, ColumnIs DEF Column
  <2> QED
    BY <2>1
<1> HIDE DEF all, one, other, order
<1>2. /\ k \in Nat /\ Len(all) = k /\ Len(one) = k /\ Len(other) = k
      /\ \A n \in 1 .. k : all[n].net \in Int /\ one[n].net \in Int /\ other[n].net \in Int
  BY <1>1 DEF IsColumn
<1>3. ASSUME NEW n \in 1 .. k PROVE all[n].net = one[n].net + other[n].net
  <2> DEFINE A == OnDay(rows, a, order[n])
             B == OnDay(rows, b, order[n])
  <2>1. OnDay(rows, a \cup b, order[n]) = A \cup B /\ A \cap B = {}
    BY DEF OnDay
  <2>2. /\ all[n].net = SumAt(Nets(rows), OnDay(rows, a \cup b, order[n]))
        /\ one[n].net = SumAt(Nets(rows), A) /\ other[n].net = SumAt(Nets(rows), B)
    BY <1>1, <1>2 DEF IsColumn, order
  <2> HIDE DEF A, B
  <2>3. SumAt(Nets(rows), A \cup B) = SumAt(Nets(rows), A) + SumAt(Nets(rows), B)
    BY <2>1, NetsAreNumbers, SumAtAdds
  <2> QED
    BY <2>1, <2>2, <2>3
<1>4. AddUp(MadeOn(one), MadeOn(other), MadeOn(all), k)
  BY <1>2, <1>3 DEF AddUp, MadeOn
<1> DEFINE eAll == EquityFrom(all, Capital)
           eOne == EquityFrom(one, Capital)
           eOther == EquityFrom(other, Capital)
<1>5. IsCurve(eAll, k) /\ \A n \in 0 .. k : eAll[n] = Capital + SumTo(MadeOn(all), n)
  BY <1>2, CapitalAssumption, EquityIs
<1>6. IsCurve(eOne, k) /\ \A n \in 0 .. k : eOne[n] = Capital + SumTo(MadeOn(one), n)
  BY <1>2, CapitalAssumption, EquityIs
<1>7. IsCurve(eOther, k) /\ \A n \in 0 .. k : eOther[n] = Capital + SumTo(MadeOn(other), n)
  BY <1>2, CapitalAssumption, EquityIs
<1> HIDE DEF eAll, eOne, eOther, k
<1>8. ASSUME NEW n \in 0 .. k PROVE eAll[n] + Capital = eOne[n] + eOther[n]
  <2>1. n \in Nat /\ AddUp(MadeOn(one), MadeOn(other), MadeOn(all), n)
    BY <1>2, <1>4 DEF AddUp
  <2>2. SumTo(MadeOn(all), n) = SumTo(MadeOn(one), n) + SumTo(MadeOn(other), n)
    BY <2>1, SumAdds
  <2>3. n \in 0 .. n
    BY <2>1
  <2>4. SumTo(MadeOn(one), n) \in Int
    BY <2>1, <2>3, SumIsInt DEF AddUp
  <2>5. SumTo(MadeOn(other), n) \in Int
    BY <2>1, <2>3, SumIsInt DEF AddUp
  <2>6. /\ eAll[n] = Capital + SumTo(MadeOn(all), n) /\ eOne[n] = Capital + SumTo(MadeOn(one), n)
        /\ eOther[n] = Capital + SumTo(MadeOn(other), n)
    BY <1>5, <1>6, <1>7
  <2> QED
    BY <2>2, <2>4, <2>5, <2>6, CapitalAssumption
<1> QED
  BY <1>2, <1>5, <1>6, <1>7, <1>8 DEF AreShared, k, all, one, other, eAll, eOne, eOther

LEMMA SidesPartTheTrades ==
  ASSUME NEW rows, AreBooked(rows)
  PROVE  LET long == ForSide(rows, "long")
             short == ForSide(rows, "short")
         IN /\ Trades(rows) = long \cup short /\ long \cap short = {}
            /\ long \cup short \subseteq DOMAIN rows
            /\ IsFiniteSet(long) /\ IsFiniteSet(short)
<1>1. \A i \in Trades(rows) : rows[i].side \in {"long", "short"}
  BY DEF AreBooked, IsBooked, Trades, Sides
<1>2. IsFiniteSet(DOMAIN rows)
  BY FS_Interval DEF AreBooked
<1>3. ForSide(rows, "long") \subseteq DOMAIN rows /\ ForSide(rows, "short") \subseteq DOMAIN rows
  BY DEF ForSide, Trades
<1>4. IsFiniteSet(ForSide(rows, "long")) /\ IsFiniteSet(ForSide(rows, "short"))
  BY <1>2, <1>3, FS_Subset
<1> QED
  BY <1>1, <1>3, <1>4 DEF ForSide

(* The columns of the sides add up to that of the whole, and it falls and  *)
(* rises no further than they do together.                                 *)
LEMMA BookedSidesAddUp ==
  ASSUME NEW rows, AreBooked(rows)
  PROVE  SidesAddUp(SideSplit(rows))
<1> DEFINE long == ForSide(rows, "long")
           short == ForSide(rows, "short")
           days == WalkedDays(rows)
           all == Metrics(rows, long \cup short, Capital, days)
           one == Metrics(rows, long, Capital, days)
           other == Metrics(rows, short, Capital, days)
           k == Cardinality(days)
           equity(at) == EquityFrom(Column(rows, at), Capital)
           eAll == equity(long \cup short)
           eOne == equity(long)
           eOther == equity(short)
<1>1. /\ Trades(rows) = long \cup short /\ long \cap short = {} /\ long \cup short \subseteq DOMAIN rows
      /\ IsFiniteSet(long) /\ IsFiniteSet(short)
  BY SidesPartTheTrades
<1>2. SideSplit(rows) = [all |-> all, long |-> one, short |-> other]
  BY <1>1, Zenon DEF SideSplit
<1>3. /\ k \in Nat /\ Len(Column(rows, long \cup short)) = k /\ Len(Column(rows, long)) = k
      /\ Len(Column(rows, short)) = k
      /\ IsCurve(eAll, k) /\ IsCurve(eOne, k) /\ IsCurve(eOther, k)
      /\ \A n \in 0 .. k : eAll[n] + Capital = eOne[n] + eOther[n]
  <2> HIDE DEF long, short, k
  <2>1. AreShared(rows, long, short)
    BY <1>1, ColumnsShare
  <2> QED
    BY <2>1, Zenon DEF AreShared, k
<1>4. /\ all.trades = Cardinality(long \cup short) /\ all.net = SumAt(Nets(rows), long \cup short)
      /\ all.days = Len(Column(rows, long \cup short))
      /\ all.fall = WorstFall(eAll).amount /\ all.rise = BestRise(eAll).amount
  BY MetricsAre DEF Column
<1>5. /\ one.trades = Cardinality(long) /\ one.net = SumAt(Nets(rows), long)
      /\ one.days = Len(Column(rows, long))
      /\ one.fall = WorstFall(eOne).amount /\ one.rise = BestRise(eOne).amount
  BY MetricsAre DEF Column
<1>6. /\ other.trades = Cardinality(short) /\ other.net = SumAt(Nets(rows), short)
      /\ other.days = Len(Column(rows, short))
      /\ other.fall = WorstFall(eOther).amount /\ other.rise = BestRise(eOther).amount
  BY MetricsAre DEF Column
<1> HIDE DEF long, short, all, one, other, k, eAll, eOne, eOther
<1>7. all.net = one.net + other.net
  BY <1>1, <1>4, <1>5, <1>6, NetsAreNumbers, SumAtAdds
<1>8. all.trades = one.trades + other.trades
  <2>1. Cardinality(long \cup short) = Cardinality(long) + Cardinality(short) - Cardinality(long \cap short)
    BY <1>1, FS_Union
  <2>2. Cardinality(long) \in Nat /\ Cardinality(short) \in Nat /\ Cardinality(long \cap short) = 0
    BY <1>1, FS_CardinalityType, FS_EmptySet
  <2> QED
    BY <1>4, <1>5, <1>6, <2>1, <2>2
<1>9. Capital \in Int
  BY CapitalAssumption
<1>10. all.fall <= one.fall + other.fall
  BY <1>3, <1>4, <1>5, <1>6, <1>9, FallsShare
<1>11. all.rise <= one.rise + other.rise
  BY <1>3, <1>4, <1>5, <1>6, <1>9, RisesShare
<1> QED
  BY <1>2, <1>3, <1>4, <1>5, <1>6, <1>7, <1>8, <1>10, <1>11 DEF SidesAddUp

-----------------------------------------------------------------------------
(* Where the parts of a sequence are that was put together of sequences.   *)
Lengths(seqs) == [i \in 1 .. Len(seqs) |-> Len(seqs[i])]

(* The length of the first i of them. *)
Till(seqs, i) == SumTo(Lengths(seqs), i)

LEMMA TillSteps ==
  ASSUME NEW R, NEW seqs \in Seq(Seq(R))
  PROVE  /\ Till(seqs, 0) = 0
         /\ \A i \in 0 .. Len(seqs) : Till(seqs, i) \in Nat
         /\ \A i \in 1 .. Len(seqs) : Till(seqs, i) = Till(seqs, i - 1) + Len(seqs[i])
<1> DEFINE n == Len(seqs)
<1>1. n \in Nat /\ \A i \in 1 .. n : Len(seqs[i]) \in Nat /\ Lengths(seqs)[i] = Len(seqs[i])
  BY DEF Lengths
<1>2. Till(seqs, 0) = 0
  BY SumSteps DEF Till
<1> HIDE DEF n
<1>3. ASSUME NEW i \in 1 .. n PROVE Till(seqs, i) = Till(seqs, i - 1) + Len(seqs[i])
  <2>1. i \in Nat /\ i # 0
    BY <1>1
  <2> QED
    BY <1>1, <2>1, SumSteps DEF Till
<1> DEFINE S == {i \in 0 .. n : Till(seqs, i) \in Nat}
<1>4. 0 \in S
  BY <1>1, <1>2
<1>5. ASSUME NEW i \in 1 .. n, i - 1 \in S PROVE i \in S
  <2>1. Till(seqs, i - 1) \in Nat /\ i \in 0 .. n
    BY <1>1, <1>5
  <2>2. Till(seqs, i) \in Nat
    <3>1. Len(seqs[i]) \in Nat
      BY <1>1
    <3>2. Till(seqs, i) = Till(seqs, i - 1) + Len(seqs[i])
      BY <1>3
    <3>3. Till(seqs, i - 1) \in Nat
      BY <1>5 DEF S
    <3> QED
      BY <3>1, <3>2, <3>3
  <2> QED
    BY <2>1, <2>2
<1> HIDE DEF S
<1>6. \A i \in 0 .. n : i \in S
  BY <1>1, <1>4, <1>5, Climbs
<1>7. \A i \in 0 .. n : Till(seqs, i) \in Nat
  BY <1>6 DEF S
<1> QED
  BY <1>2, <1>3, <1>7 DEF n

LEMMA TillGrows ==
  ASSUME NEW R, NEW seqs \in Seq(Seq(R)), NEW i \in 0 .. Len(seqs), NEW j \in 0 .. Len(seqs), i <= j
  PROVE  Till(seqs, i) <= Till(seqs, j)
<1> DEFINE n == Len(seqs)
           S == {m \in 0 .. n : i <= m => Till(seqs, i) <= Till(seqs, m)}
<1>1. n \in Nat /\ \A m \in 1 .. n : Len(seqs[m]) \in Nat
  OBVIOUS
<1>2. /\ \A m \in 0 .. n : Till(seqs, m) \in Nat
      /\ \A m \in 1 .. n : Till(seqs, m) = Till(seqs, m - 1) + Len(seqs[m])
  BY TillSteps
<1> HIDE DEF n
<1>3. 0 \in S
  <2>1. i <= 0 => i = 0
    BY <1>1 DEF n
  <2> QED
    BY <1>1, <1>2, <2>1
<1>4. ASSUME NEW m \in 1 .. n, m - 1 \in S PROVE m \in S
  <2>1. m - 1 \in 0 .. n /\ m \in 0 .. n /\ i \in 0 .. n
    BY <1>1 DEF n
  <2>2. Till(seqs, m) = Till(seqs, m - 1) + Len(seqs[m]) /\ Len(seqs[m]) \in Nat
        /\ Till(seqs, m - 1) \in Nat /\ Till(seqs, m) \in Nat /\ Till(seqs, i) \in Nat
    BY <1>1, <1>2, <2>1
  <2>3. i <= m - 1 => Till(seqs, i) <= Till(seqs, m - 1)
    BY <1>4
  <2>4. i <= m => i = m \/ i <= m - 1
    BY <2>1
  <2> QED
    BY <2>1, <2>2, <2>3, <2>4
<1> HIDE DEF S
<1>5. \A m \in 0 .. n : m \in S
  BY <1>1, <1>3, <1>4, Climbs
<1> QED
  BY <1>5 DEF S, n

IsJoin(st, s, t) ==
    /\ Len(st) = Len(s) + Len(t)
    /\ \A p \in 1 .. Len(s) : st[p] = s[p]
    /\ \A p \in 1 .. Len(t) : st[Len(s) + p] = t[p]

LEMMA TwoParts ==
  ASSUME NEW R, NEW s \in Seq(R), NEW t \in Seq(R)
  PROVE  s \o t \in Seq(R) /\ IsJoin(s \o t, s, t)
BY DEF IsJoin

(* The parts of the first m of the sequences are where they are. *)
Placed(seqs, flat, m) ==
    /\ Len(flat) = Till(seqs, m)
    /\ \A i \in 1 .. m : \A p \in 1 .. Len(seqs[i]) : flat[Till(seqs, i - 1) + p] = seqs[i][p]

LEMMA FlatIsPlaced ==
  ASSUME NEW R, NEW seqs \in Seq(Seq(R)), seqs # <<>>
  PROVE  FlattenSeq(seqs) \in Seq(R) /\ Placed(seqs, FlattenSeq(seqs), Len(seqs))
<1> DEFINE n == Len(seqs)
           f == CHOOSE g : g = [i \in 1 .. n |-> IF i = 1 THEN seqs[i] ELSE g[i - 1] \o seqs[i]]
<1>1. n \in Nat \ {0} /\ \A i \in 1 .. n : seqs[i] \in Seq(R) /\ Len(seqs[i]) \in Nat
  OBVIOUS
<1>2. \E g : g = [i \in 1 .. n |-> IF i = 1 THEN seqs[i] ELSE g[i - 1] \o seqs[i]]
  <2>1. PICK g : IsFlat(seqs, n, g)
    BY <1>1, FlatExists
  <2> QED
    BY <2>1, Zenon DEF IsFlat, FlatStep
<1>3. f = [i \in 1 .. n |-> IF i = 1 THEN seqs[i] ELSE f[i - 1] \o seqs[i]]
  BY <1>2, Zenon
<1>4. Len(seqs) # 0
  BY <1>1
<1>5. FlattenSeq(seqs) = f[n]
  BY <1>4, Zenon DEF FlattenSeq
<1> HIDE DEF f
<1>6. \A i \in 1 .. n : f[i] = IF i = 1 THEN seqs[i] ELSE f[i - 1] \o seqs[i]
  BY <1>3
<1>7. /\ Till(seqs, 0) = 0 /\ \A i \in 0 .. n : Till(seqs, i) \in Nat
      /\ \A i \in 1 .. n : Till(seqs, i) = Till(seqs, i - 1) + Len(seqs[i])
  BY TillSteps
<1>8. \A i, j \in 0 .. n : i <= j => Till(seqs, i) <= Till(seqs, j)
  BY TillGrows
<1> HIDE DEF n
<1> DEFINE S == {m \in 0 .. n : m = 0 \/ (f[m] \in Seq(R) /\ Placed(seqs, f[m], m))}
<1>9. 0 \in S
  BY <1>1
<1>10. ASSUME NEW m \in 1 .. n, m - 1 \in S PROVE m \in S
  <2>1. /\ m - 1 \in 0 .. n /\ m \in 0 .. n /\ seqs[m] \in Seq(R) /\ Len(seqs[m]) \in Nat
        /\ Till(seqs, m) = Till(seqs, m - 1) + Len(seqs[m])
    BY <1>1, <1>7
  <2>2. CASE m = 1
    <3>1. f[m] = seqs[m]
      BY <1>6, <2>2
    <3>2. Len(f[m]) = Till(seqs, m)
      BY <1>7, <2>1, <2>2, <3>1
    <3>3. ASSUME NEW i \in 1 .. m, NEW p \in 1 .. Len(seqs[i]) PROVE f[m][Till(seqs, i - 1) + p] = seqs[i][p]
      <4>1. i = 1 /\ i - 1 = 0
        BY <2>2
      <4>2. Till(seqs, i - 1) + p = p
        BY <1>7, <4>1
      <4> QED
        BY <2>2, <3>1, <4>1, <4>2
    <3>4. Placed(seqs, f[m], m)
      BY <3>2, <3>3 DEF Placed
    <3> QED
      BY <2>1, <3>1, <3>4
  <2>3. CASE m # 1
    <3>1. f[m - 1] \in Seq(R) /\ Placed(seqs, f[m - 1], m - 1)
      BY <1>1, <1>10, <2>3
    <3>2. f[m] = f[m - 1] \o seqs[m]
      BY <1>6, <2>3
    <3> DEFINE s == f[m - 1]
               t == seqs[m]
    <3>3. s \in Seq(R) /\ t \in Seq(R) /\ Len(s) = Till(seqs, m - 1)
      BY <2>1, <3>1 DEF Placed
    <3> HIDE DEF s, t
    <3>4. /\ s \o t \in Seq(R) /\ Len(s \o t) = Len(s) + Len(t)
          /\ \A p \in 1 .. Len(s) : (s \o t)[p] = s[p]
          /\ \A p \in 1 .. Len(t) : (s \o t)[Len(s) + p] = t[p]
      <4>1. s \o t \in Seq(R) /\ IsJoin(s \o t, s, t)
        BY <3>3, TwoParts
      <4> QED
        BY <4>1 DEF IsJoin
    <3>5. ASSUME NEW i \in 1 .. m, NEW p \in 1 .. Len(seqs[i])
          PROVE  (s \o t)[Till(seqs, i - 1) + p] = seqs[i][p]
      <4>1. CASE i = m
        BY <3>3, <3>4, <4>1 DEF t
      <4>2. CASE i # m
        <5>1. i \in 1 .. m - 1 /\ i - 1 \in 0 .. n /\ i \in 1 .. n /\ i \in 0 .. n /\ i <= m - 1
          BY <1>1, <4>2
        <5>2. /\ Till(seqs, i) = Till(seqs, i - 1) + Len(seqs[i]) /\ Till(seqs, i) <= Till(seqs, m - 1)
              /\ Till(seqs, i - 1) \in Nat /\ Till(seqs, m - 1) \in Nat /\ Len(seqs[i]) \in Nat
          BY <1>1, <1>7, <1>8, <2>1, <5>1
        <5>3. Till(seqs, i - 1) + p \in 1 .. Len(s)
          BY <3>3, <5>2
        <5>4. s[Till(seqs, i - 1) + p] = seqs[i][p]
          BY <3>1, <5>1 DEF Placed, s
        <5> QED
          BY <3>4, <5>3, <5>4
      <4> QED
        BY <4>1, <4>2
    <3>6. Len(s \o t) = Till(seqs, m)
      BY <2>1, <3>3, <3>4 DEF t
    <3>7. Placed(seqs, s \o t, m)
      BY <3>5, <3>6 DEF Placed
    <3>8. f[m] = s \o t
      BY <3>2 DEF s, t
    <3> QED
      BY <2>1, <3>4, <3>7, <3>8
  <2> QED
    BY <2>2, <2>3
<1> HIDE DEF S
<1>11. n \in S
  <2>1. n \in Nat /\ n \in 0 .. n
    BY <1>1
  <2>2. \A m \in 0 .. n : m \in S
    BY <1>9, <1>10, <2>1, Climbs
  <2> QED
    BY <2>1, <2>2
<1> QED
  BY <1>1, <1>5, <1>11 DEF S, n

(* Every place is in one of the parts. *)
LEMMA EveryPlaceIsOfAPart ==
  ASSUME NEW R, NEW seqs \in Seq(Seq(R)), NEW k \in 1 .. Till(seqs, Len(seqs))
  PROVE  \E i \in 1 .. Len(seqs) : \E p \in 1 .. Len(seqs[i]) : k = Till(seqs, i - 1) + p
<1> DEFINE n == Len(seqs)
           T == {i \in 0 .. n : k <= Till(seqs, i)}
<1>1. n \in Nat
  OBVIOUS
<1>2. /\ Till(seqs, 0) = 0 /\ \A i \in 0 .. n : Till(seqs, i) \in Nat
      /\ \A i \in 1 .. n : Till(seqs, i) = Till(seqs, i - 1) + Len(seqs[i])
  BY TillSteps
<1>3. k \in Nat \ {0} /\ n \in T
  BY <1>1, <1>2
<1>4. T \subseteq Nat
  BY <1>1
<1> HIDE DEF n
<1>5. PICK i \in T : \A j \in T : i <= j
  <2> HIDE DEF T
  <2> QED
    BY <1>3, <1>4, HasLeastNat
<1>6. i \in 1 .. n /\ i - 1 \in 0 .. n /\ i \in 0 .. n /\ k <= Till(seqs, i)
  <2>1. i \in 0 .. n /\ k <= Till(seqs, i)
    BY <1>5
  <2>2. i # 0
    BY <1>2, <1>3, <2>1
  <2> QED
    BY <1>1, <2>1, <2>2
<1>7. ~(k <= Till(seqs, i - 1))
  <2>1. ASSUME k <= Till(seqs, i - 1) PROVE FALSE
    <3>1. i - 1 \in T
      BY <1>6, <2>1
    <3> QED
      BY <1>5, <1>6, <3>1
  <2> QED
    BY <2>1
<1>8. /\ Till(seqs, i) = Till(seqs, i - 1) + Len(seqs[i]) /\ Till(seqs, i - 1) \in Nat
      /\ Till(seqs, i) \in Nat
  BY <1>2, <1>6
<1>9. Len(seqs[i]) \in Nat
  BY <1>6 DEF n
<1>10. k - Till(seqs, i - 1) \in 1 .. Len(seqs[i]) /\ k = Till(seqs, i - 1) + (k - Till(seqs, i - 1))
  BY <1>3, <1>6, <1>7, <1>8, <1>9
<1> QED
  BY <1>6, <1>10 DEF n

-----------------------------------------------------------------------------
(* The path of a day, candle by candle.                                    *)
Moments(rows, at) ==
    UNION {{rows[i].trade.path[k].at : k \in DOMAIN rows[i].trade.path} : i \in at}

LEMMA MomentsAreMoments ==
  ASSUME NEW rows, AreBooked(rows), NEW at, at \subseteq Trades(rows)
  PROVE  /\ Moments(rows, at) \subseteq Nat /\ IsFiniteSet(Moments(rows, at))
         /\ \A i \in at : \A k \in DOMAIN rows[i].trade.path : rows[i].trade.path[k].at \in Moments(rows, at)
<1>1. IsFiniteSet(Ordinals) /\ Ordinals \subseteq Nat
  BY FS_Interval, GridAssumption DEF Ordinals
<1>2. \A i \in at : IsMarked(rows[i].trade.path)
  BY DEF AreBooked, IsBooked, Trades
<1>3. Moments(rows, at) \in SUBSET Ordinals
  BY <1>2 DEF Moments, IsMarked
<1>4. \A i \in at : \A k \in DOMAIN rows[i].trade.path : rows[i].trade.path[k].at \in Moments(rows, at)
  BY DEF Moments
<1> QED
  BY <1>1, <1>3, <1>4, FS_Subset

(* What a trade is worth at a moment, and once it is closed. *)
LEMMA ContributionIs ==
  ASSUME NEW r, IsBooked(r), r.trade.qty > 0, NEW t \in Nat
  PROVE  LET path == r.trade.path
         IN /\ Contribution(r, t).pnl \in Int /\ Contribution(r, t).live \in {0, 1}
            /\ Last(path).at <= t => Contribution(r, t) = [pnl |-> r.trade.net, live |-> 0]
<1> DEFINE path == r.trade.path
           n == Len(path)
           seen == {i \in DOMAIN path : path[i].at <= t}
           here == Contribution(r, t)
<1>1. IsMarked(path) /\ r.trade.qty \in Nat /\ MarkPnl(r, Last(path).price) = r.trade.net
  BY DEF IsBooked
<1>2. n \in Nat \ {0} /\ DOMAIN path = 1 .. n /\ Last(path) = path[n]
  BY <1>1 DEF IsMarked, Last
<1>3. \A i \in 1 .. n : path[i].at \in Nat /\ path[i].price \in Int
  <2>1. Ordinals \subseteq Nat
    BY GridAssumption DEF Ordinals
  <2> QED
    BY <1>1, <1>2, <2>1 DEF IsMarked
<1>4. here = IF seen = {} THEN [pnl |-> 0, live |-> 0]
             ELSE [pnl |-> MarkPnl(r, path[Max(seen)].price), live |-> IF t >= Last(path).at THEN 0 ELSE 1]
  BY Zenon DEF Contribution
<1>5. ASSUME NEW i \in 1 .. n PROVE MarkPnl(r, path[i].price) \in Int
  <2> DEFINE a == path[1].price
             b == path[i].price
             q == r.trade.qty
  <2>1. a \in Int /\ b \in Int /\ q \in Int
    BY <1>1, <1>2, <1>3
  <2>2. MarkPnl(r, b) = (IF r.side = "long" THEN q * (b - a) ELSE q * (a - b)) - Cost
    BY DEF MarkPnl, GrossPnl
  <2> HIDE DEF a, b, q
  <2>3. b - a \in Int /\ a - b \in Int /\ Cost \in Int
    BY <2>1, CostAssumption
  <2>4. q * (b - a) \in Int /\ q * (a - b) \in Int
    BY <2>1, <2>3
  <2> QED
    BY <2>2, <2>3, <2>4 DEF b
<1>6. seen \in SUBSET (1 .. n)
  BY <1>2
<1> HIDE DEF path, n, here
<1>7. ASSUME seen # {} PROVE Max(seen) \in seen /\ \A i \in seen : i <= Max(seen)
  <2> HIDE DEF seen
  <2>1. IsFiniteSet(1 .. n) /\ 1 .. n \subseteq Nat
    BY <1>2, FS_Interval
  <2>2. seen \subseteq Nat /\ IsFiniteSet(seen)
    BY <1>6, <2>1, FS_Subset
  <2> QED
    BY <1>7, <2>2, GreatestOf
<1>8. here.pnl \in Int /\ here.live \in {0, 1}
  <2>1. CASE seen = {}
    BY <1>4, <2>1
  <2>2. CASE seen # {}
    <3>1. Max(seen) \in 1 .. n
      <4> HIDE DEF seen
      <4> QED
        BY <1>6, <1>7, <2>2
    <3> HIDE DEF seen
    <3> QED
      BY <1>4, <1>5, <2>2, <3>1
  <2> QED
    BY <2>1, <2>2
<1>9. ASSUME Last(path).at <= t PROVE here = [pnl |-> r.trade.net, live |-> 0]
  <2>1. n \in seen
    BY <1>2, <1>9
  <2>2. Max(seen) = n
    <3>1. Max(seen) \in seen /\ n <= Max(seen)
      BY <1>7, <2>1
    <3> HIDE DEF seen
    <3>2. Max(seen) \in 1 .. n
      BY <1>6, <3>1
    <3> QED
      BY <1>2, <3>1, <3>2
  <2>3. t >= Last(path).at
    BY <1>2, <1>3, <1>9
  <2> HIDE DEF seen
  <2> QED
    BY <1>1, <1>2, <1>4, <2>1, <2>2, <2>3
<1> QED
  BY <1>8, <1>9 DEF here, path

(* Sums over positions depend on nothing else. *)
HasPlaces(f, n) == DOMAIN f = 1 .. n /\ Len(f) = n

AgreeAt(f, g, at) == \A i \in at : f[i] = g[i]

LEMMA SumAtSame ==
  ASSUME NEW n \in Nat, NEW f, NEW g, HasPlaces(f, n), HasPlaces(g, n), NEW at, AgreeAt(f, g, at)
  PROVE  SumAt(f, at) = SumAt(g, at)
<1>1. Agree(Kept(f, at), Kept(g, at), n)
  BY DEF Agree, Kept, AgreeAt, HasPlaces
<1>2. SumAt(f, at) = SumTo(Kept(f, at), n) /\ SumAt(g, at) = SumTo(Kept(g, at), n)
  BY Zenon DEF SumAt, Kept, HasPlaces
<1> QED
  BY <1>1, <1>2, SumSame

LEMMA SumAtOfInts ==
  ASSUME NEW n \in Nat, NEW f, DOMAIN f = 1 .. n, Len(f) = n, NEW at, \A i \in at : f[i] \in Int
  PROVE  SumAt(f, at) \in Int
<1>1. \A i \in 1 .. n : Kept(f, at)[i] \in Int
  BY DEF Kept
<1>2. SumAt(f, at) = SumTo(Kept(f, at), n)
  BY Zenon DEF SumAt, Kept
<1>3. n \in 0 .. n
  OBVIOUS
<1> QED
  BY <1>1, <1>2, <1>3, SumIsInt

LEMMA SumAtOfNothing ==
  ASSUME NEW n \in Nat, NEW f, DOMAIN f = 1 .. n, Len(f) = n, NEW at, \A i \in at : f[i] = 0
  PROVE  SumAt(f, at) = 0
<1> DEFINE level == [i \in 0 .. n |-> 0]
<1>1. \A i \in 1 .. n : Kept(f, at)[i] = 0
  BY DEF Kept
<1>2. SumAt(f, at) = SumTo(Kept(f, at), n)
  BY Zenon DEF SumAt, Kept
<1>3. level[0] = 0 /\ level[n] = 0 /\ \A i \in 1 .. n : level[i] = level[i - 1] + Kept(f, at)[i]
  BY <1>1
<1> HIDE DEF level
<1> QED
  BY <1>2, <1>3, SumFollows

PathPoints == [day : Nat, at : Nat \cup {NoRow}, equity : Int, open : Int]

(* What the points of a day are: they end with its close, and at the last  *)
(* moment before it the day has made what its trades made.                 *)
IsDayOfPoints(rows, at, d, opening, closing, points) ==
    LET k == Len(points)
    IN /\ points \in Seq(PathPoints) /\ k \in Nat \ {0}
       /\ points[k] = [day |-> d, at |-> NoRow, equity |-> closing, open |-> 0]
       /\ \A j \in 1 .. k - 1 : points[j].at # NoRow
       /\ k # 1 => points[k - 1].open = 0 /\ points[k - 1].equity = opening + SumAt(Nets(rows), at)

LEMMA PointsAre ==
  ASSUME NEW rows, AreBooked(rows), NEW at, at \subseteq Trades(rows),
         NEW d \in Nat, NEW opening \in Int, NEW closing \in Int
  PROVE  IsDayOfPoints(rows, at, d, opening, closing, PointsOfDay(rows, at, d, opening, closing))
<1> DEFINE moments == Moments(rows, at)
           stamps == InOrder(moments)
           m == Cardinality(moments)
           n == Len(rows)
           pnl(t) == [i \in DOMAIN rows |-> Contribution(rows[i], t).pnl]
           live(t) == [i \in DOMAIN rows |-> Contribution(rows[i], t).live]
           point(t) == [day |-> d, at |-> t, equity |-> opening + SumAt(pnl(t), at),
                        open |-> SumAt(live(t), at)]
           close == [day |-> d, at |-> NoRow, equity |-> closing, open |-> 0]
           marks == [j \in 1 .. m |-> point(stamps[j])]
           points == PointsOfDay(rows, at, d, opening, closing)
<1>1. moments \subseteq Nat /\ IsFiniteSet(moments) /\ m \in Nat
  BY MomentsAreMoments, FS_CardinalityType
<1>2. DOMAIN stamps = 1 .. m
  BY DEF InOrder
<1>3. \A j \in 1 .. m : stamps[j] \in moments
  BY <1>1, <1>2, InOrderIsOfThem
<1>4. n \in Nat /\ DOMAIN rows = 1 .. n /\ at \subseteq 1 .. n
  BY DEF AreBooked, Trades
<1>5. \A i \in at : IsBooked(rows[i]) /\ rows[i].trade.qty > 0
  BY DEF AreBooked, Trades
<1>6. points = [j \in DOMAIN stamps |-> point(stamps[j])] \o <<close>>
  BY Zenon DEF PointsOfDay, Stamps, Moments
<1> HIDE DEF moments, stamps, m, n
<1>7. ASSUME NEW t \in Nat
      PROVE  /\ DOMAIN pnl(t) = 1 .. n /\ Len(pnl(t)) = n /\ DOMAIN live(t) = 1 .. n /\ Len(live(t)) = n
             /\ \A i \in at : /\ pnl(t)[i] = Contribution(rows[i], t).pnl /\ pnl(t)[i] \in Int
                              /\ live(t)[i] = Contribution(rows[i], t).live /\ live(t)[i] \in {0, 1}
  <2>1. pnl(t) = [i \in 1 .. n |-> Contribution(rows[i], t).pnl]
    BY <1>4
  <2>2. live(t) = [i \in 1 .. n |-> Contribution(rows[i], t).live]
    BY <1>4
  <2>3. \A i \in at : Contribution(rows[i], t).pnl \in Int /\ Contribution(rows[i], t).live \in {0, 1}
    BY <1>5, ContributionIs
  <2> HIDE DEF pnl, live
  <2> QED
    BY <1>4, <2>1, <2>2, <2>3
<1>8. ASSUME NEW t \in Nat PROVE SumAt(pnl(t), at) \in Int /\ SumAt(live(t), at) \in Int
  <2> DEFINE p == pnl(t)
             l == live(t)
  <2>1. DOMAIN p = 1 .. n /\ Len(p) = n /\ \A i \in at : p[i] \in Int
    BY <1>7
  <2>5. DOMAIN l = 1 .. n /\ Len(l) = n /\ \A i \in at : l[i] \in {0, 1}
    BY <1>7
  <2> HIDE DEF p, l
  <2>2. DOMAIN l = 1 .. n /\ Len(l) = n /\ \A i \in at : l[i] \in Int
    BY <2>5
  <2>3. SumAt(p, at) \in Int
    BY <1>4, <2>1, SumAtOfInts
  <2>4. SumAt(l, at) \in Int
    BY <1>4, <2>2, SumAtOfInts
  <2> QED
    BY <2>3, <2>4 DEF p, l
<1>9. ASSUME NEW t \in Nat, \A i \in at : Last(rows[i].trade.path).at <= t
      PROVE  SumAt(pnl(t), at) = SumAt(Nets(rows), at) /\ SumAt(live(t), at) = 0
  <2> DEFINE p == pnl(t)
             l == live(t)
  <2>1. DOMAIN p = 1 .. n /\ Len(p) = n /\ \A i \in at : p[i] = Contribution(rows[i], t).pnl
    BY <1>7
  <2>2. DOMAIN l = 1 .. n /\ Len(l) = n /\ \A i \in at : l[i] = Contribution(rows[i], t).live
    BY <1>7
  <2> HIDE DEF p, l
  <2>3. \A i \in at : Contribution(rows[i], t) = [pnl |-> rows[i].trade.net, live |-> 0]
    BY <1>5, <1>9, ContributionIs
  <2>4. DOMAIN Nets(rows) = 1 .. n /\ Len(Nets(rows)) = n
    BY <1>4, NetsAreNumbers DEF IsNumbers, n
  <2>5. \A i \in at : Nets(rows)[i] = rows[i].trade.net
    BY <1>4 DEF Nets
  <2>6. ASSUME NEW i \in at PROVE p[i] = Nets(rows)[i] /\ l[i] = 0
    <3> DEFINE c == Contribution(rows[i], t)
    <3>2. c = [pnl |-> rows[i].trade.net, live |-> 0]
      BY <2>3
    <3> HIDE DEF c
    <3>1. c.pnl = rows[i].trade.net /\ c.live = 0
      BY <3>2
    <3> USE DEF c
    <3> QED
      BY <2>1, <2>2, <2>5, <3>1
  <2>7. SumAt(p, at) = SumAt(Nets(rows), at)
    <3> DEFINE nets == Nets(rows)
    <3>1. HasPlaces(p, n) /\ HasPlaces(nets, n) /\ AgreeAt(p, nets, at)
      BY <2>1, <2>4, <2>6 DEF HasPlaces, AgreeAt
    <3> HIDE DEF nets
    <3>2. SumAt(p, at) = SumAt(nets, at)
      BY <1>4, <3>1, SumAtSame
    <3> QED
      BY <3>2 DEF nets
  <2>8. SumAt(l, at) = 0
    BY <1>4, <2>2, <2>6, SumAtOfNothing
  <2> QED
    BY <2>7, <2>8 DEF p, l
<1> HIDE DEF pnl, live
<1>10. ASSUME NEW t \in Nat PROVE point(t) \in PathPoints /\ point(t).at # NoRow
  <2>1. SumAt(pnl(t), at) \in Int /\ SumAt(live(t), at) \in Int
    BY <1>8
  <2>2. NoRow \notin Nat
    BY GatesAssumption
  <2> QED
    BY <2>1, <2>2 DEF PathPoints
<1>11. close \in PathPoints
  BY DEF PathPoints
<1>12. points = marks \o <<close>>
  <2>1. marks = [j \in DOMAIN stamps |-> point(stamps[j])]
    BY <1>2
  <2> QED
    BY <1>6, <2>1
<1>13. marks \in Seq(PathPoints) /\ Len(marks) = m /\ \A j \in 1 .. m : marks[j] = point(stamps[j])
  <2>1. ASSUME NEW j \in 1 .. m PROVE point(stamps[j]) \in PathPoints
    BY <1>1, <1>3, <1>10
  <2> HIDE DEF point
  <2> QED
    BY <1>1, <2>1
<1>14. /\ points \in Seq(PathPoints) /\ Len(points) = m + 1 /\ points[m + 1] = close
       /\ \A j \in 1 .. m : points[j] = point(stamps[j])
  <2> HIDE DEF marks, close, point, points
  <2>1. <<close>> \in Seq(PathPoints) /\ Len(<<close>>) = 1 /\ <<close>>[1] = close
    BY <1>11
  <2> DEFINE last == <<close>>
  <2>2. marks \o last \in Seq(PathPoints) /\ IsJoin(marks \o last, marks, last)
    <3> HIDE DEF last
    <3> QED
      BY <1>13, <2>1, TwoParts DEF last
  <2>3. /\ Len(points) = m + 1 /\ \A j \in 1 .. m : points[j] = marks[j]
        /\ points[m + 1] = close
    BY <1>1, <1>12, <1>13, <2>1, <2>2 DEF IsJoin
  <2> QED
    BY <1>12, <1>13, <2>2, <2>3
<1>15. \A j \in 1 .. m : points[j].at # NoRow
  <2>1. ASSUME NEW j \in 1 .. m PROVE points[j].at # NoRow
    <3>1. stamps[j] \in Nat
      BY <1>1, <1>3
    <3> HIDE DEF point, points
    <3> QED
      BY <1>10, <1>14, <3>1
  <2> QED
    BY <2>1
<1>16. ASSUME m # 0
       PROVE  points[m].open = 0 /\ points[m].equity = opening + SumAt(Nets(rows), at)
  <2>1. moments # {}
    BY <1>16, FS_EmptySet DEF m
  <2>2. PICK lo \in moments : \A t \in moments : lo <= t
    BY <1>1, <2>1, HasLeastNat
  <2>3. Max(moments) \in moments /\ \A t \in moments : t <= Max(moments)
    BY <1>1, <2>1, GreatestOf
  <2> DEFINE hi == Max(moments)
  <2>4. hi \in moments /\ \A t \in moments : lo <= t /\ t <= hi
    BY <2>2, <2>3
  <2> HIDE DEF hi
  <2>5. stamps[m] = hi
    BY <1>1, <2>2, <2>4, InOrderRises DEF stamps, m
  <2>6. hi \in Nat /\ \A i \in at : Last(rows[i].trade.path).at <= hi
    <3>1. hi \in Nat
      BY <1>1, <2>4
    <3>2. ASSUME NEW i \in at PROVE Last(rows[i].trade.path).at \in moments
      <4> DEFINE path == rows[i].trade.path
      <4>1. IsMarked(path)
        BY <1>5 DEF IsBooked
      <4>2. Last(path) = path[Len(path)] /\ Len(path) \in DOMAIN path
        BY <4>1 DEF IsMarked, Last
      <4> QED
        BY <4>2, MomentsAreMoments DEF moments
    <3> QED
      BY <2>4, <3>1, <3>2
  <2>7. SumAt(pnl(hi), at) = SumAt(Nets(rows), at) /\ SumAt(live(hi), at) = 0
    BY <1>9, <2>6
  <2>8. points[m] = point(hi)
    BY <1>1, <1>14, <1>16, <2>5
  <2>9. point(hi).open = 0 /\ point(hi).equity = opening + SumAt(Nets(rows), at)
    BY <2>7
  <2> QED
    BY <2>8, <2>9
<1> HIDE DEF points, close
<1>17. Len(points) - 1 = m /\ Len(points) \in Nat \ {0}
  BY <1>1, <1>14
<1>18. IsDayOfPoints(rows, at, d, opening, closing, points)
  BY <1>1, <1>14, <1>15, <1>16, <1>17 DEF IsDayOfPoints, close
<1> QED
  BY <1>18 DEF points

(* A curve falls as far as any curve it meets, in its order. *)
Meets(a, k, b, m, place) ==
    /\ \A i \in 0 .. k : place[i] \in 0 .. m /\ b[place[i]] = a[i]
    /\ \A i, j \in 0 .. k : i <= j => place[i] <= place[j]

LEMMA FallsAsFar ==
  ASSUME NEW k \in Nat, NEW m \in Nat, NEW a, NEW b, IsCurve(a, k), IsCurve(b, m),
         NEW place, Meets(a, k, b, m, place)
  PROVE  WorstFall(a).amount <= WorstFall(b).amount
<1>1. PICK p, q \in 0 .. k : p <= q /\ a[p] - a[q] = WorstFall(a).amount
  BY WorstFallIsWorst
<1>2. /\ place[p] \in 0 .. m /\ b[place[p]] = a[p] /\ place[q] \in 0 .. m /\ b[place[q]] = a[q]
      /\ place[p] <= place[q]
  BY <1>1 DEF Meets
<1>3. b[place[p]] - b[place[q]] <= WorstFall(b).amount
  BY <1>2, WorstFallIsWorst
<1> QED
  BY <1>1, <1>2, <1>3

LEMMA RisesAsFar ==
  ASSUME NEW k \in Nat, NEW m \in Nat, NEW a, NEW b, IsCurve(a, k), IsCurve(b, m),
         NEW place, Meets(a, k, b, m, place)
  PROVE  BestRise(a).amount <= BestRise(b).amount
<1> DEFINE c == Turned(a)
           d == Turned(b)
<1>1. IsCurve(c, k) /\ BestRise(a) = WorstFall(c) /\ \A i \in 0 .. k : c[i] = -a[i]
  BY TurnedIsCurve
<1>2. IsCurve(d, m) /\ BestRise(b) = WorstFall(d) /\ \A i \in 0 .. m : d[i] = -b[i]
  BY TurnedIsCurve
<1> HIDE DEF c, d
<1>3. Meets(c, k, d, m, place)
  BY <1>1, <1>2 DEF Meets
<1> QED
  BY <1>1, <1>2, <1>3, FallsAsFar

(* The days of a ledger, put together. *)
Parts(rows) ==
    LET daily == DailyPnl(rows)
        equity == EquityCurve(daily)
    IN [n \in DOMAIN daily |->
           PointsOfDay(rows, OnDay(rows, Trades(rows), daily[n].day), daily[n].day, equity[n - 1], equity[n])]

IsWholePath(days, k, parts, points) ==
    /\ k \in Nat \ {0} /\ IsCurve(days, k)
    /\ parts \in Seq(Seq(PathPoints)) /\ Len(parts) = k /\ Till(parts, k) = Len(points)
    /\ points \in Seq(PathPoints) /\ Placed(parts, points, k)
    /\ \A n \in 1 .. k :
         LET last == Len(parts[n])
         IN /\ last \in Nat \ {0} /\ parts[n][last].at = NoRow /\ parts[n][last].equity = days[n]
            /\ \A j \in 1 .. last - 1 : parts[n][j].at # NoRow
            /\ last # 1 => parts[n][last - 1].open = 0 /\ parts[n][last - 1].equity = days[n]

LEMMA PathIsWhole ==
  ASSUME NEW rows, AreBooked(rows), WalkedDays(rows) # {}
  PROVE  LET days == EquityCurve(DailyPnl(rows))
         IN IsWholePath(days, Len(DailyPnl(rows)), Parts(rows), IntradayPath(rows)) /\ days[0] = Capital
<1> DEFINE daily == DailyPnl(rows)
           days == EquityCurve(daily)
           k == Len(daily)
           parts == Parts(rows)
           points == IntradayPath(rows)
           traded == Trades(rows)
           order == InOrder(WalkedDays(rows))
<1>1. IsColumn(rows, traded, WalkedDays(rows), daily)
  <2>1. traded \subseteq DOMAIN rows
    BY DEF Trades
  <2> QED
    BY <2>1, WalkedDaysAreAnIndex, ColumnIs DEF DailyPnl
<1> HIDE DEF daily, traded, order
<1>2. /\ k \in Nat /\ DOMAIN daily = 1 .. k /\ k = Cardinality(WalkedDays(rows))
      /\ \A n \in 1 .. k : /\ daily[n].day = order[n] /\ daily[n].net \in Int
                           /\ daily[n].net = SumAt(Nets(rows), OnDay(rows, traded, order[n]))
  BY <1>1 DEF IsColumn, order
<1>3. k # 0 /\ \A n \in 1 .. k : order[n] \in Nat
  <2>1. WalkedDays(rows) \subseteq Nat /\ IsFiniteSet(WalkedDays(rows))
    BY WalkedDaysAreAnIndex
  <2>2. k # 0
    BY <1>2, <2>1, FS_EmptySet
  <2>3. ASSUME NEW n \in 1 .. k PROVE order[n] \in WalkedDays(rows)
    <3>1. n \in DOMAIN order
      BY <1>2 DEF order, InOrder
    <3> QED
      BY <2>1, <3>1, InOrderIsOfThem DEF order
  <2> QED
    BY <2>1, <2>2, <2>3
<1>4. /\ IsCurve(days, k) /\ days[0] = Capital
      /\ \A n \in 1 .. k : days[n] = days[n - 1] + daily[n].net
  BY <1>2, CapitalAssumption, EquityIs DEF EquityCurve
<1>5. parts = [n \in 1 .. k |->
                 PointsOfDay(rows, OnDay(rows, traded, daily[n].day), daily[n].day, days[n - 1], days[n])]
  BY <1>2, Zenon DEF Parts, daily, traded
<1> HIDE DEF days, parts, k
<1>6. ASSUME NEW n \in 1 .. k
      PROVE  IsDayOfPoints(rows, OnDay(rows, traded, daily[n].day), daily[n].day, days[n - 1], days[n], parts[n])
  <2> DEFINE d == daily[n].day
             at == OnDay(rows, traded, d)
  <2>1. d \in Nat
    BY <1>2, <1>3
  <2>2. n \in 0 .. k /\ n - 1 \in 0 .. k
    BY <1>2
  <2>3. days[n - 1] \in Int /\ days[n] \in Int
    BY <1>4, <2>2 DEF IsCurve
  <2>4. at \subseteq Trades(rows)
    BY DEF OnDay, traded
  <2>5. parts[n] = PointsOfDay(rows, at, d, days[n - 1], days[n])
    BY <1>5
  <2> HIDE DEF d, at
  <2>6. IsDayOfPoints(rows, at, d, days[n - 1], days[n], PointsOfDay(rows, at, d, days[n - 1], days[n]))
    BY <2>1, <2>3, <2>4, PointsAre
  <2> QED
    BY <2>5, <2>6 DEF d, at
<1>7. parts \in Seq(Seq(PathPoints)) /\ Len(parts) = k /\ parts # <<>>
  <2>1. \A n \in 1 .. k : parts[n] \in Seq(PathPoints)
    BY <1>6 DEF IsDayOfPoints
  <2>2. parts = [n \in 1 .. k |-> parts[n]]
    BY <1>5
  <2>3. parts \in Seq(Seq(PathPoints)) /\ Len(parts) = k
    BY <1>2, <2>1, <2>2
  <2> QED
    BY <1>3, <2>3
<1>8. points = FlattenSeq(parts)
  BY Zenon DEF IntradayPath, Parts, parts
<1> HIDE DEF points
<1>9. points \in Seq(PathPoints) /\ Placed(parts, points, k)
  BY <1>7, <1>8, FlatIsPlaced
<1>10. Till(parts, k) = Len(points)
  BY <1>9 DEF Placed
<1>11. ASSUME NEW n \in 1 .. k
       PROVE  LET last == Len(parts[n])
              IN /\ last \in Nat \ {0} /\ parts[n][last].at = NoRow /\ parts[n][last].equity = days[n]
                 /\ \A j \in 1 .. last - 1 : parts[n][j].at # NoRow
                 /\ last # 1 => parts[n][last - 1].open = 0 /\ parts[n][last - 1].equity = days[n]
  <2> DEFINE last == Len(parts[n])
  <2>1. days[n] = days[n - 1] + SumAt(Nets(rows), OnDay(rows, traded, daily[n].day))
    BY <1>2, <1>4
  <2>2. /\ last \in Nat \ {0}
        /\ parts[n][last] = [day |-> daily[n].day, at |-> NoRow, equity |-> days[n], open |-> 0]
        /\ \A j \in 1 .. last - 1 : parts[n][j].at # NoRow
        /\ last # 1 => /\ parts[n][last - 1].open = 0
                       /\ parts[n][last - 1].equity = days[n - 1] + SumAt(Nets(rows), OnDay(rows, traded, daily[n].day))
    BY <1>6, Zenon DEF IsDayOfPoints
  <2> HIDE DEF last
  <2>3. parts[n][last].at = NoRow /\ parts[n][last].equity = days[n]
    BY <2>2
  <2> QED
    BY <2>1, <2>2, <2>3, Zenon DEF last
<1>12. IsWholePath(days, k, parts, points)
  BY <1>2, <1>3, <1>4, <1>7, <1>9, <1>10, <1>11, Zenon DEF IsWholePath
<1> QED
  BY <1>4, <1>12 DEF days, k, parts, points, daily

LEMMA WholePathMeets ==
  ASSUME NEW days, NEW k, NEW parts, NEW points, IsWholePath(days, k, parts, points), days[0] = Capital
  PROVE  /\ Len(points) \in Nat /\ IsCurve(PathCurve(points), Len(points))
         /\ \E place : Meets(days, k, PathCurve(points), Len(points), place)
<1> DEFINE m == Len(points)
           path == PathCurve(points)
           place == [i \in 0 .. k |-> Till(parts, i)]
<1>1. /\ k \in Nat \ {0} /\ parts \in Seq(Seq(PathPoints)) /\ Len(parts) = k /\ Till(parts, k) = m
      /\ points \in Seq(PathPoints) /\ Placed(parts, points, k)
  BY DEF IsWholePath
<1>2. m \in Nat /\ \A i \in 1 .. m : points[i].equity \in Int
  <2>1. m \in Nat /\ \A i \in 1 .. m : points[i] \in PathPoints
    BY <1>1
  <2>2. \A x \in PathPoints : x.equity \in Int
    BY DEF PathPoints
  <2> QED
    BY <2>1, <2>2
<1>3. path = [n \in 0 .. m |-> IF n = 0 THEN Capital ELSE points[n].equity]
  BY Zenon DEF PathCurve
<1> HIDE DEF m, path
<1>4. IsCurve(path, m)
  BY <1>2, <1>3, CapitalAssumption DEF IsCurve
<1>5. /\ Till(parts, 0) = 0 /\ \A i \in 0 .. k : Till(parts, i) \in Nat
      /\ \A i \in 1 .. k : Till(parts, i) = Till(parts, i - 1) + Len(parts[i])
  BY <1>1, TillSteps
<1>6. \A i, j \in 0 .. k : i <= j => Till(parts, i) <= Till(parts, j)
  BY <1>1, TillGrows
<1>7. ASSUME NEW i \in 0 .. k PROVE Till(parts, i) \in 0 .. m /\ path[Till(parts, i)] = days[i]
  <2>1. Till(parts, i) \in 0 .. m
    <3>1. k \in 0 .. k /\ i <= k
      BY <1>1
    <3>2. Till(parts, i) <= Till(parts, k) /\ Till(parts, i) \in Nat
      BY <1>5, <1>6, <3>1
    <3> QED
      BY <1>1, <1>2, <3>2
  <2>2. CASE i = 0
    BY <1>2, <1>3, <1>5, <2>2
  <2>3. CASE i # 0
    <3>1. i \in 1 .. k /\ i - 1 \in 0 .. k
      BY <1>1, <2>3
    <3> DEFINE last == Len(parts[i])
    <3>2. last \in Nat \ {0} /\ parts[i][last].equity = days[i]
      BY <3>1 DEF IsWholePath
    <3> HIDE DEF last
    <3>3. Till(parts, i) = Till(parts, i - 1) + last /\ Till(parts, i - 1) \in Nat
      BY <1>5, <3>1 DEF last
    <3>4. last \in 1 .. Len(parts[i])
      BY <3>2 DEF last
    <3>5. points[Till(parts, i - 1) + last] = parts[i][last]
      BY <1>1, <3>1, <3>4 DEF Placed
    <3>6. Till(parts, i) # 0
      BY <3>2, <3>3
    <3> QED
      BY <1>3, <2>1, <3>2, <3>3, <3>5, <3>6
  <2> QED
    BY <2>1, <2>2, <2>3
<1>8. Meets(days, k, path, m, place)
  BY <1>6, <1>7 DEF Meets
<1> QED
  BY <1>2, <1>4, <1>8 DEF path, m

(* At the last mark before a close nothing is open, and the money is that  *)
(* of the close.                                                           *)
LEMMA WholePathCloses ==
  ASSUME NEW days, NEW k, NEW parts, NEW points, IsWholePath(days, k, parts, points),
         NEW i \in 1 .. Len(points) - 1, points[i].at # NoRow, points[i + 1].at = NoRow
  PROVE  points[i].open = 0 /\ points[i].equity = points[i + 1].equity
<1> DEFINE m == Len(points)
<1>1. /\ k \in Nat \ {0} /\ parts \in Seq(Seq(PathPoints)) /\ Len(parts) = k /\ Till(parts, k) = m
      /\ points \in Seq(PathPoints) /\ Placed(parts, points, k)
  BY DEF IsWholePath
<1>2. m \in Nat /\ i + 1 \in 1 .. Till(parts, Len(parts)) /\ i \in Nat \ {0}
  BY <1>1
<1>3. /\ Till(parts, 0) = 0 /\ \A j \in 0 .. k : Till(parts, j) \in Nat
      /\ \A j \in 1 .. k : Till(parts, j) = Till(parts, j - 1) + Len(parts[j])
  BY <1>1, TillSteps
<1>4. PICK n \in 1 .. k : \E p \in 1 .. Len(parts[n]) : i + 1 = Till(parts, n - 1) + p
  BY <1>1, <1>2, EveryPlaceIsOfAPart
<1>5. PICK p \in 1 .. Len(parts[n]) : i + 1 = Till(parts, n - 1) + p
  BY <1>4
<1> HIDE DEF m
<1> DEFINE last == Len(parts[n])
<1>6. /\ last \in Nat \ {0} /\ parts[n][last].equity = days[n]
      /\ \A j \in 1 .. last - 1 : parts[n][j].at # NoRow
      /\ last # 1 => parts[n][last - 1].open = 0 /\ parts[n][last - 1].equity = days[n]
  BY <1>4 DEF IsWholePath
<1>7. \A j \in 1 .. last : points[Till(parts, n - 1) + j] = parts[n][j]
  BY <1>1, <1>4 DEF Placed
<1> HIDE DEF last
<1>8. p \in 1 .. last /\ points[i + 1] = parts[n][p]
  BY <1>5, <1>7 DEF last
<1>9. p = last
  <2>1. p \in 1 .. last - 1 => parts[n][p].at # NoRow
    BY <1>6
  <2> QED
    BY <1>6, <1>8, <2>1
<1>10. n \in Nat /\ n - 1 \in 0 .. k /\ Till(parts, n - 1) \in Nat
  BY <1>1, <1>3, <1>4
<1>11. p # 1
  <2>1. ASSUME p = 1 PROVE FALSE
    <3>1. i = Till(parts, n - 1)
      BY <1>2, <1>5, <1>10, <2>1
    <3>2. n - 1 # 0
      BY <1>2, <1>3, <3>1
    <3> DEFINE before == n - 1
               end == Len(parts[before])
    <3>3. before \in 1 .. k
      BY <1>1, <1>4, <3>2
    <3>4. end \in Nat \ {0} /\ parts[before][end].at = NoRow
      BY <3>3 DEF IsWholePath
    <3>5. Till(parts, before) = Till(parts, before - 1) + end
      BY <1>3, <3>3
    <3>6. end \in 1 .. Len(parts[before])
      BY <3>4
    <3> HIDE DEF end
    <3>7. points[Till(parts, before - 1) + end] = parts[before][end]
      BY <1>1, <3>3, <3>6 DEF Placed
    <3>8. points[i].at = NoRow
      BY <3>1, <3>4, <3>5, <3>7
    <3> QED
      BY <3>8
  <2> QED
    BY <2>1
<1>12. i = Till(parts, n - 1) + (last - 1) /\ last - 1 \in 1 .. last
  BY <1>2, <1>5, <1>6, <1>9, <1>10, <1>11
<1>13. points[i] = parts[n][last - 1]
  BY <1>7, <1>12
<1> QED
  BY <1>6, <1>8, <1>9, <1>11, <1>13

LEMMA BookedFallsAreWorst ==
  ASSUME NEW rows, AreBooked(rows), WalkedDays(rows) # {}
  PROVE  FallsAreWorst(rows) /\ PathMeetsCloses(rows)
<1> DEFINE days == EquityCurve(DailyPnl(rows))
           k == Len(DailyPnl(rows))
           parts == Parts(rows)
           points == IntradayPath(rows)
           path == PathCurve(points)
           m == Len(points)
<1>1. IsWholePath(days, k, parts, points) /\ days[0] = Capital
  BY PathIsWhole
<1> HIDE DEF days, k, parts, points
<1>2. k \in Nat /\ IsCurve(days, k)
  BY <1>1 DEF IsWholePath
<1>3. /\ m \in Nat /\ IsCurve(path, m) /\ \E place : Meets(days, k, path, m, place)
  BY <1>1, WholePathMeets
<1> HIDE DEF path, m
<1>4. PICK place : Meets(days, k, path, m, place)
  BY <1>3
<1>5. IsWorstFall(days, WorstFall(days))
  BY <1>2, WorstFallIsWorst
<1>6. IsWorstFall(path, WorstFall(path))
  BY <1>3, WorstFallIsWorst
<1>7. WorstFall(days).amount <= WorstFall(path).amount
  BY <1>2, <1>3, <1>4, FallsAsFar
<1>8. BestRise(days).amount <= BestRise(path).amount
  BY <1>2, <1>3, <1>4, RisesAsFar
<1>9. FallsAreWorst(rows)
  BY <1>5, <1>6, <1>7, <1>8, Zenon DEF FallsAreWorst, days, path, points
<1>10. PathMeetsCloses(rows)
  <2>1. ASSUME NEW i \in 1 .. Len(points) - 1, points[i].at # NoRow /\ points[i + 1].at = NoRow
        PROVE  points[i].open = 0 /\ points[i].equity = points[i + 1].equity
    BY <1>1, <2>1, WholePathCloses
  <2> QED
    BY <2>1, Zenon DEF PathMeetsCloses, points
<1> QED
  BY <1>9, <1>10

(* Of every finished ledger, in any run: the worst fall and the best rise  *)
(* that the books report of the curve of days and of the path of candles   *)
(* are the greatest there are between any two moments, and over where they *)
(* say; the path falls and rises at least as far as the days do, and meets *)
(* the curve of days at every close with nothing open.                     *)
THEOREM FallsAreTheWorst ==
  Spec => [](WalkedLedger # <<>> => FallsAreWorst(WalkedLedger) /\ PathMeetsCloses(WalkedLedger))
<1>1. RunInv => (WalkedLedger # <<>> => FallsAreWorst(WalkedLedger) /\ PathMeetsCloses(WalkedLedger))
  BY LedgerIsBooked, BookedFallsAreWorst
<1> QED
  BY RunAlways, <1>1, PTL

-----------------------------------------------------------------------------
(* The net of a column is that of its days.                                *)

(* A member of a set is where its rank says. *)
RankIn(days, d) == Cardinality({e \in days : e <= d})

LEMMA RanksRise ==
  ASSUME NEW days, days \subseteq Nat, IsFiniteSet(days), NEW c \in days, NEW d \in days, c < d
  PROVE  RankIn(days, c) < RankIn(days, d)
<1> DEFINE low == {e \in days : e <= c}
           high == {e \in days : e <= d}
<1>1. c \in Nat /\ d \in Nat
  OBVIOUS
<1>2. low \in SUBSET (high \ {d}) /\ d \in high /\ high \in SUBSET days
  <2>1. ASSUME NEW e \in low PROVE e \in high \ {d}
    <3>1. e \in days /\ e <= c /\ e \in Nat
      OBVIOUS
    <3>2. e <= d /\ e # d
      BY <1>1, <3>1
    <3> QED
      BY <3>1, <3>2
  <2>2. d \in high
    BY <1>1
  <2> QED
    BY <2>1, <2>2
<1> HIDE DEF low, high
<1>3. IsFiniteSet(high)
  BY <1>2, FS_Subset
<1>4. IsFiniteSet(high \ {d}) /\ Cardinality(high \ {d}) = Cardinality(high) - 1
  BY <1>2, <1>3, FS_RemoveElement
<1>5. Cardinality(low) <= Cardinality(high \ {d}) /\ Cardinality(low) \in Nat /\ Cardinality(high) \in Nat
  BY <1>2, <1>3, <1>4, FS_Subset, FS_CardinalityType
<1>6. Cardinality(low) < Cardinality(high)
  BY <1>4, <1>5
<1> QED
  BY <1>6 DEF RankIn, low, high

LEMMA RanksAreDays ==
  ASSUME NEW days, days \subseteq Nat, IsFiniteSet(days)
  PROVE  LET order == InOrder(days)
             k == Cardinality(days)
         IN /\ k \in Nat /\ DOMAIN order = 1 .. k
            /\ \A i \in 1 .. k : order[i] \in days /\ RankIn(days, order[i]) = i
            /\ \A d \in days : RankIn(days, d) \in 1 .. k /\ order[RankIn(days, d)] = d
<1> DEFINE order == InOrder(days)
           k == Cardinality(days)
<1>1. k \in Nat
  BY FS_CardinalityType
<1>2. DOMAIN order = 1 .. k /\ \A i \in 1 .. k : order[i] = CHOOSE d \in days : RankIn(days, d) = i
  BY DEF InOrder, RankIn
<1> HIDE DEF order, k
<1>3. ASSUME NEW i \in 1 .. k PROVE order[i] \in days /\ RankIn(days, order[i]) = i
  <2>1. \E d \in days : RankIn(days, d) = i
    BY RankIsTaken DEF RankIn, k
  <2> QED
    BY <1>2, <2>1, Zenon
<1>4. ASSUME NEW d \in days PROVE RankIn(days, d) \in 1 .. k
  <2> DEFINE till == {e \in days : e <= d}
  <2>1. till \in SUBSET days /\ d \in till
    <3>1. d \in Nat
      OBVIOUS
    <3>2. d <= d
      BY <3>1
    <3> QED
      BY <3>2
  <2> HIDE DEF till
  <2>2. IsFiniteSet(till) /\ Cardinality(till) <= k
    BY <2>1, FS_Subset DEF k
  <2>3. Cardinality(till) \in Nat /\ Cardinality(till) # 0
    BY <2>1, <2>2, FS_CardinalityType, FS_EmptySet
  <2>4. Cardinality(till) \in 1 .. k
    BY <1>1, <2>2, <2>3
  <2> QED
    BY <2>4 DEF RankIn, till
<1>5. ASSUME NEW d \in days PROVE order[RankIn(days, d)] = d
  <2> DEFINE r == RankIn(days, d)
             x == order[r]
  <2>1. r \in 1 .. k
    BY <1>4
  <2>2. x \in days /\ RankIn(days, x) = r
    BY <1>3, <2>1
  <2> HIDE DEF x
  <2>3. ~(x < d) /\ ~(d < x)
    <3>1. x < d => RankIn(days, x) < RankIn(days, d)
      BY <2>2, RanksRise
    <3>2. d < x => RankIn(days, d) < RankIn(days, x)
      BY <2>2, RanksRise
    <3> HIDE DEF r
    <3>3. r \in Int
      BY <2>1
    <3> QED
      BY <2>2, <3>1, <3>2, <3>3 DEF r
  <2>4. x \in Nat /\ d \in Nat
    BY <2>2
  <2>5. x = d
    BY <2>3, <2>4
  <2> QED
    BY <2>5 DEF x
<1> QED
  BY <1>1, <1>2, <1>3, <1>4, <1>5 DEF order, k

LEMMA DaysHoldTheNet ==
  ASSUME NEW rows, AreBooked(rows), NEW at, at \subseteq DOMAIN rows,
         NEW index, index \subseteq Nat, IsFiniteSet(index), \A i \in at : rows[i].day \in index,
         NEW daily, IsColumn(rows, at, index, daily)
  PROVE  SumTo(MadeOn(daily), Len(daily)) = SumAt(Nets(rows), at)
<1> DEFINE k == Len(daily)
           order == InOrder(index)
           nets == Nets(rows)
           Within(n) == {i \in at : RankIn(index, rows[i].day) <= n}
           S == {n \in 0 .. k : SumTo(MadeOn(daily), n) = SumAt(nets, Within(n))}
<1>1. /\ k \in Nat /\ k = Cardinality(index)
      /\ \A n \in 1 .. k : MadeOn(daily)[n] = SumAt(nets, OnDay(rows, at, order[n]))
  BY DEF IsColumn, MadeOn
<1>2. \A i \in 1 .. k : order[i] \in index /\ RankIn(index, order[i]) = i
  BY <1>1, RanksAreDays
<1>3. \A d \in index : RankIn(index, d) \in 1 .. k /\ order[RankIn(index, d)] = d
  BY <1>1, RanksAreDays
<1>4. IsNumbers(nets)
  BY NetsAreNumbers
<1> HIDE DEF k, order, nets
<1>5. ASSUME NEW i \in at
       PROVE  RankIn(index, rows[i].day) \in Nat \ {0} /\ RankIn(index, rows[i].day) <= k
  <2>1. rows[i].day \in index
    OBVIOUS
  <2>2. RankIn(index, rows[i].day) \in 1 .. k
    BY <1>3, <2>1
  <2> QED
    BY <1>1, <2>2
<1>6. 0 \in S
  <2>1. Within(0) = {}
    <3>1. ASSUME NEW i \in at PROVE ~(RankIn(index, rows[i].day) <= 0)
      BY <1>5
    <3> QED
      BY <3>1
  <2> HIDE DEF Within
  <2>2. SumAt(nets, {}) = 0
    <3>1. Len(nets) \in Nat /\ DOMAIN nets = 1 .. Len(nets)
      BY <1>4 DEF IsNumbers
    <3> QED
      BY <3>1, SumAtOfNothing
  <2>3. SumTo(MadeOn(daily), 0) = 0
    BY <1>1, SumSteps
  <2>4. 0 \in 0 .. k
    BY <1>1
  <2>5. SumTo(MadeOn(daily), 0) = SumAt(nets, Within(0))
    BY <2>1, <2>2, <2>3
  <2> QED
    BY <2>4, <2>5, Zenon
<1>7. ASSUME NEW n \in 1 .. k, n - 1 \in S PROVE n \in S
  <2> DEFINE A == Within(n - 1)
             B == OnDay(rows, at, order[n])
  <2>1. n \in Nat /\ n # 0 /\ n - 1 \in 0 .. k /\ n \in 0 .. k
    BY <1>1
  <2>2. Within(n) = A \cup B /\ A \cap B = {}
    <3>1. ASSUME NEW i \in at
          PROVE  /\ RankIn(index, rows[i].day) \in 1 .. k
                 /\ RankIn(index, rows[i].day) = n <=> rows[i].day = order[n]
      BY <1>2, <1>3
    <3>2. ASSUME NEW i \in at
          PROVE  /\ i \in Within(n) <=> i \in A \cup B
                 /\ ~(i \in A /\ i \in B)
      <4>1. /\ RankIn(index, rows[i].day) \in 1 .. k
            /\ RankIn(index, rows[i].day) = n <=> rows[i].day = order[n]
        BY <3>1
      <4> DEFINE r == RankIn(index, rows[i].day)
      <4>2. (i \in A <=> r <= n - 1) /\ (i \in B <=> r = n) /\ (i \in Within(n) <=> r <= n)
        BY <4>1 DEF OnDay
      <4> HIDE DEF A, B, Within, r
      <4>3. r \in Int
        BY <1>1, <4>1 DEF r
      <4> QED
        BY <2>1, <4>2, <4>3
    <3>3. A \subseteq at /\ B \subseteq at /\ Within(n) \subseteq at
      BY DEF OnDay
    <3> HIDE DEF A, B, Within
    <3> QED
      BY <3>2, <3>3
  <2>3. SumTo(MadeOn(daily), n - 1) = SumAt(nets, A)
    BY <1>7
  <2> HIDE DEF A, B, Within
  <2>4. SumAt(nets, A \cup B) = SumAt(nets, A) + SumAt(nets, B)
    BY <1>4, <2>2, SumAtAdds
  <2>5. SumTo(MadeOn(daily), n) = SumTo(MadeOn(daily), n - 1) + MadeOn(daily)[n]
    BY <2>1, SumSteps
  <2>6. MadeOn(daily)[n] = SumAt(nets, B)
    BY <1>1 DEF B
  <2> QED
    BY <2>1, <2>2, <2>3, <2>4, <2>5, <2>6
<1>8. Within(k) = at
  <2>1. ASSUME NEW i \in at PROVE RankIn(index, rows[i].day) <= k
    BY <1>5
  <2> QED
    BY <2>1
<1> HIDE DEF S, Within
<1>9. \A n \in 0 .. k : n \in S
  BY <1>1, <1>6, <1>7, Climbs
<1>10. k \in S
  BY <1>1, <1>9
<1> QED
  BY <1>8, <1>10 DEF S, k, nets

-----------------------------------------------------------------------------
(* The years of a ledger are its days, cut where the years end.            *)
YearsOf(rows) == {YearOf(d) : d \in WalkedDays(rows)}

InYear(rows, y) == {i \in Trades(rows) : YearOf(rows[i].day) = y}

DaysOfYear(rows, y) == {d \in WalkedDays(rows) : YearOf(d) = y}

(* The days of the first n years. *)
DaysTill(rows, n) == {d \in WalkedDays(rows) : RankIn(YearsOf(rows), YearOf(d)) <= n}

LEMMA YearsFollowDays ==
  ASSUME NEW c \in Nat, NEW d \in Nat
  PROVE  YearOf(c) \in Nat /\ (c <= d => YearOf(c) <= YearOf(d))
<1> DEFINE a == c \div DaysPerYear
           b == d \div DaysPerYear
           k == DaysPerYear
<1>1. k \in Nat \ {0}
  BY ReportAssumption
<1>2. a \in Int /\ k * a <= c /\ c < k * a + k
  BY <1>1, DivisionIs
<1>3. b \in Int /\ k * b <= d /\ d < k * b + k
  BY <1>1, DivisionIs
<1>4. a \in Nat
  BY <1>1, QuotientOfNat
<1> HIDE DEF a, b, k
<1>5. ASSUME c <= d, ~(a <= b) PROVE FALSE
  <2>1. a - b \in Int /\ a - b >= 1
    BY <1>2, <1>3, <1>5
  <2>2. k * (a - b) = k * a - k * b /\ k * a \in Int /\ k * b \in Int
    BY <1>1, <1>2, <1>3, Distributes
  <2>3. k * (a - b) >= k
    BY <1>1, <2>1, ProductAtLeast
  <2> QED
    BY <1>1, <1>2, <1>3, <1>5, <2>2, <2>3
<1> QED
  BY <1>4, <1>5 DEF YearOf, a, b, k

LEMMA YearsAreYears ==
  ASSUME NEW rows, AreBooked(rows)
  PROVE  /\ YearsOf(rows) \subseteq Nat /\ IsFiniteSet(YearsOf(rows))
         /\ \A d \in WalkedDays(rows) : YearOf(d) \in YearsOf(rows)
         /\ \A y : DaysOfYear(rows, y) \subseteq Nat /\ IsFiniteSet(DaysOfYear(rows, y))
         /\ \A n : IsFiniteSet(DaysTill(rows, n))
<1> DEFINE days == WalkedDays(rows)
<1>1. days \subseteq Nat /\ IsFiniteSet(days)
  BY WalkedDaysAreAnIndex
<1>2. YearsOf(rows) = {YearOf(d) : d \in days} /\ \A d \in days : YearOf(d) \in YearsOf(rows)
  BY DEF YearsOf
<1>3. \A y : DaysOfYear(rows, y) \in SUBSET days
  BY DEF DaysOfYear
<1>4. \A n : DaysTill(rows, n) \in SUBSET days
  BY DEF DaysTill
<1> HIDE DEF days
<1>5. YearsOf(rows) \subseteq Nat
  BY <1>1, <1>2, YearsFollowDays
<1>6. IsFiniteSet(YearsOf(rows))
  <2> DEFINE year == [d \in days |-> YearOf(d)]
  <2>1. \A d \in days : year[d] = YearOf(d)
    OBVIOUS
  <2> HIDE DEF year
  <2>2. {year[d] : d \in days} = YearsOf(rows)
    BY <1>2, <2>1
  <2>3. IsFiniteSet({year[d] : d \in days})
    BY <1>1, ImageIsFinite
  <2> QED
    BY <2>2, <2>3
<1>7. \A y : DaysOfYear(rows, y) \subseteq Nat /\ IsFiniteSet(DaysOfYear(rows, y))
  BY <1>1, <1>3, FS_Subset
<1>8. \A n : IsFiniteSet(DaysTill(rows, n))
  BY <1>1, <1>4, FS_Subset
<1> QED
  BY <1>2, <1>5, <1>6, <1>7, <1>8 DEF days

(* The days of the n-th year come right after those of the years before.   *)
CutAt(rows, n) == Cardinality(DaysTill(rows, n))

LEMMA YearsAreSegments ==
  ASSUME NEW rows, AreBooked(rows), NEW n \in 1 .. Cardinality(YearsOf(rows))
  PROVE  LET y == InOrder(YearsOf(rows))[n]
             days == DaysOfYear(rows, y)
         IN /\ CutAt(rows, n) = CutAt(rows, n - 1) + Cardinality(days)
            /\ \A d \in days : RankIn(WalkedDays(rows), d) = CutAt(rows, n - 1) + RankIn(days, d)
<1> DEFINE years == YearsOf(rows)
           walked == WalkedDays(rows)
           y == InOrder(years)[n]
           days == DaysOfYear(rows, y)
           before == DaysTill(rows, n - 1)
<1>1. years \subseteq Nat /\ IsFiniteSet(years) /\ walked \subseteq Nat /\ IsFiniteSet(walked)
      /\ \A d \in walked : YearOf(d) \in years
  BY YearsAreYears, WalkedDaysAreAnIndex
<1>2. Cardinality(years) \in Nat /\ y \in years /\ RankIn(years, y) = n
  BY <1>1, RanksAreDays
<1>3. \A z \in years : /\ RankIn(years, z) \in 1 .. Cardinality(years)
                       /\ InOrder(years)[RankIn(years, z)] = z
  BY <1>1, RanksAreDays
<1>4. n \in Nat \ {0}
  BY <1>2
<1> HIDE DEF y, years, walked
<1>5. ASSUME NEW d \in walked
      PROVE  /\ YearOf(d) = y <=> RankIn(years, YearOf(d)) = n
             /\ RankIn(years, YearOf(d)) \in Int
  <2>1. /\ RankIn(years, YearOf(d)) \in 1 .. Cardinality(years)
        /\ InOrder(years)[RankIn(years, YearOf(d))] = YearOf(d)
    BY <1>1, <1>3
  <2>2. RankIn(years, YearOf(d)) = n => YearOf(d) = y
    BY <2>1 DEF y
  <2> QED
    BY <1>2, <2>1, <2>2
<1>6. /\ \A d : d \in days <=> d \in walked /\ YearOf(d) = y
      /\ \A d : d \in before <=> d \in walked /\ RankIn(years, YearOf(d)) <= n - 1
      /\ \A d : d \in DaysTill(rows, n) <=> d \in walked /\ RankIn(years, YearOf(d)) <= n
  BY DEF DaysOfYear, DaysTill, walked, years
<1>7. IsFiniteSet(days) /\ days \subseteq Nat /\ IsFiniteSet(before)
  BY YearsAreYears
<1> HIDE DEF days, before
<1>8. DaysTill(rows, n) = before \cup days /\ before \cap days = {}
  <2>1. ASSUME NEW d PROVE (d \in DaysTill(rows, n) <=> d \in before \/ d \in days) /\ ~(d \in before /\ d \in days)
    <3>1. CASE d \notin walked
      BY <1>6, <3>1
    <3>2. CASE d \in walked
      BY <1>4, <1>5, <1>6, <3>2
    <3> QED
      BY <3>1, <3>2
  <2> QED
    BY <2>1
<1>9. CutAt(rows, n) = CutAt(rows, n - 1) + Cardinality(days)
  <2>1. Cardinality(before \cup days) = Cardinality(before) + Cardinality(days) - Cardinality(before \cap days)
    BY <1>7, FS_Union
  <2>2. Cardinality(before) \in Nat /\ Cardinality(days) \in Nat /\ Cardinality(before \cap days) = 0
    BY <1>7, <1>8, FS_CardinalityType, FS_EmptySet
  <2>3. CutAt(rows, n) = Cardinality(before \cup days) /\ CutAt(rows, n - 1) = Cardinality(before)
    BY <1>8 DEF CutAt, before
  <2> QED
    BY <2>1, <2>2, <2>3
<1>10. ASSUME NEW d \in days PROVE RankIn(walked, d) = CutAt(rows, n - 1) + RankIn(days, d)
  <2> DEFINE low == {e \in walked : e <= d}
             mine == {e \in days : e <= d}
  <2>1. d \in walked /\ YearOf(d) = y /\ d \in Nat
    BY <1>1, <1>6
  <2>2. ASSUME NEW e PROVE (e \in low <=> e \in before \/ e \in mine) /\ ~(e \in before /\ e \in mine)
    <3>1. CASE e \notin walked
      BY <1>6, <3>1
    <3>2. CASE e \in walked
      <4>1. e \in Nat /\ YearOf(e) \in years /\ YearOf(e) \in Nat /\ y \in Nat
        BY <1>1, <1>2, <3>2
      <4> DEFINE r == RankIn(years, YearOf(e))
      <4>2. r \in Int /\ (YearOf(e) = y <=> r = n)
        BY <1>5, <3>2
      <4>3. YearOf(e) < y => r < n
        BY <1>1, <1>2, <4>1, RanksRise
      <4>4. y < YearOf(e) => n < r
        BY <1>1, <1>2, <4>1, RanksRise
      <4>5. (e <= d => YearOf(e) <= y) /\ (d <= e => y <= YearOf(e))
        BY <2>1, <4>1, YearsFollowDays
      <4>6. (e \in before <=> r <= n - 1) /\ (e \in days <=> r = n)
        BY <1>6, <3>2, <4>2
      <4>7. (e \in low <=> e <= d) /\ (e \in mine <=> e \in days /\ e <= d)
        BY <3>2
      <4> HIDE DEF r, low, mine
      <4>8. YearOf(e) = y \/ YearOf(e) < y \/ y < YearOf(e)
        BY <4>1
      <4>9. CASE r = n
        BY <1>4, <4>6, <4>7, <4>9
      <4>10. CASE r < n
        <5>1. e <= d
          BY <1>4, <2>1, <4>1, <4>2, <4>4, <4>5, <4>8, <4>10
        <5>2. r <= n - 1 /\ r # n
          BY <1>4, <4>2, <4>10
        <5> QED
          BY <4>6, <4>7, <5>1, <5>2
      <4>11. CASE n < r
        <5>1. ~(e <= d)
          BY <1>4, <2>1, <4>1, <4>2, <4>3, <4>5, <4>8, <4>11
        <5>2. ~(r <= n - 1) /\ r # n
          BY <1>4, <4>2, <4>11
        <5> QED
          BY <4>6, <4>7, <5>1, <5>2
      <4> QED
        BY <1>4, <4>2, <4>9, <4>10, <4>11
    <3> QED
      BY <3>1, <3>2
  <2>3. low = before \cup mine /\ before \cap mine = {}
    <3> HIDE DEF low, mine
    <3> QED
      BY <2>2
  <2>4. mine \in SUBSET days
    OBVIOUS
  <2>5. RankIn(walked, d) = Cardinality(low) /\ RankIn(days, d) = Cardinality(mine)
    BY DEF RankIn
  <2> HIDE DEF low, mine
  <2>6. IsFiniteSet(mine)
    BY <1>7, <2>4, FS_Subset
  <2>7. Cardinality(before \cup mine) = Cardinality(before) + Cardinality(mine) - Cardinality(before \cap mine)
    BY <1>7, <2>6, FS_Union
  <2>8. Cardinality(before) \in Nat /\ Cardinality(mine) \in Nat /\ Cardinality(before \cap mine) = 0
    BY <1>7, <2>3, <2>6, FS_CardinalityType, FS_EmptySet
  <2> QED
    BY <2>3, <2>5, <2>7, <2>8 DEF CutAt, before
<1> QED
  BY <1>9, <1>10 DEF days, y, years, walked

LEMMA CutsAreTheDays ==
  ASSUME NEW rows, AreBooked(rows), WalkedDays(rows) # {}
  PROVE  LET k == Cardinality(YearsOf(rows))
         IN /\ k \in Nat \ {0} /\ CutAt(rows, 0) = 0
            /\ CutAt(rows, k) = Cardinality(WalkedDays(rows))
            /\ \A n \in 0 .. k : CutAt(rows, n) \in Nat /\ CutAt(rows, n) <= Cardinality(WalkedDays(rows))
<1> DEFINE years == YearsOf(rows)
           walked == WalkedDays(rows)
           k == Cardinality(years)
<1>1. years \subseteq Nat /\ IsFiniteSet(years) /\ IsFiniteSet(walked)
      /\ \A d \in walked : YearOf(d) \in years
  BY YearsAreYears, WalkedDaysAreAnIndex
<1>2. \A d \in walked : RankIn(years, YearOf(d)) \in 1 .. k
  BY <1>1, RanksAreDays
<1>3. k \in Nat \ {0}
  <2>1. years # {}
    BY <1>1
  <2> HIDE DEF years
  <2> QED
    BY <1>1, <2>1, FS_CardinalityType, FS_EmptySet
<1>4. \A n : DaysTill(rows, n) = {d \in walked : RankIn(years, YearOf(d)) <= n}
  BY DEF DaysTill
<1> HIDE DEF years, walked, k
<1>5. DaysTill(rows, 0) = {}
  <2>1. \A d \in walked : ~(RankIn(years, YearOf(d)) <= 0)
    BY <1>2, <1>3
  <2> QED
    BY <1>4, <2>1
<1>6. DaysTill(rows, k) = walked
  <2>1. \A d \in walked : RankIn(years, YearOf(d)) <= k
    BY <1>2, <1>3
  <2> QED
    BY <1>4, <2>1
<1>7. ASSUME NEW n PROVE CutAt(rows, n) \in Nat /\ CutAt(rows, n) <= Cardinality(walked)
  <2>1. DaysTill(rows, n) \in SUBSET walked
    BY <1>4
  <2> QED
    BY <1>1, <2>1, FS_Subset, FS_CardinalityType DEF CutAt
<1> QED
  BY <1>3, <1>5, <1>6, <1>7, FS_EmptySet DEF CutAt, k, walked, years

-----------------------------------------------------------------------------
(* The figures of the years, one after another.                            *)
NthYear(rows, n) == InOrder(YearsOf(rows))[n]

YearFigures(rows, n, opening) ==
    Metrics(rows, InYear(rows, NthYear(rows, n)), opening, DaysOfYear(rows, NthYear(rows, n)))

YearStep(rows, f, n) == YearFigures(rows, n, IF n = 1 THEN Capital ELSE f[n - 1].final)

AreYears(rows, m, f) == f = [n \in 1 .. m |-> YearStep(rows, f, n)]

LEMMA YearsExist ==
  ASSUME NEW rows, NEW k \in Nat
  PROVE  \E f : AreYears(rows, k, f)
<1> DEFINE S == {m \in 0 .. k : \E f : AreYears(rows, m, f)}
<1>1. 0 \in S
  <2> DEFINE none == [n \in 1 .. 0 |-> 0]
  <2>1. none = [n \in 1 .. 0 |-> YearStep(rows, none, n)]
    OBVIOUS
  <2> HIDE DEF none
  <2>2. AreYears(rows, 0, none)
    BY <2>1 DEF AreYears
  <2> QED
    BY <2>2
<1>2. ASSUME NEW m \in 1 .. k, m - 1 \in S PROVE m \in S
  <2>1. PICK f : AreYears(rows, m - 1, f)
    BY <1>2
  <2> DEFINE more == [n \in 1 .. m |-> IF n = m THEN YearStep(rows, f, m) ELSE f[n]]
  <2>2. ASSUME NEW n \in 1 .. m PROVE more[n] = YearStep(rows, more, n)
    <3>1. n # 1 => more[n - 1] = f[n - 1]
      OBVIOUS
    <3>2. YearStep(rows, more, n) = YearStep(rows, f, n)
      BY <3>1 DEF YearStep
    <3>3. n # m => f[n] = YearStep(rows, f, n)
      <4>1. n # m => n \in 1 .. m - 1
        OBVIOUS
      <4> QED
        BY <2>1, <4>1 DEF AreYears
    <3> QED
      BY <3>2, <3>3
  <2>3. more = [n \in 1 .. m |-> YearStep(rows, more, n)]
    BY <2>2
  <2> HIDE DEF more
  <2>4. AreYears(rows, m, more)
    BY <2>3 DEF AreYears
  <2> QED
    BY <2>4
<1> HIDE DEF S
<1>3. k \in S
  BY <1>1, <1>2, Climbs
<1> QED
  BY <1>3 DEF S

LEMMA YearsAre ==
  ASSUME NEW rows, AreBooked(rows)
  PROVE  LET years == PerYear(rows)
             k == Cardinality(YearsOf(rows))
         IN /\ k \in Nat /\ Len(years) = k /\ DOMAIN years = 1 .. k
            /\ \A n \in 1 .. k : years[n] = YearStep(rows, years, n)
<1> DEFINE k == Cardinality(YearsOf(rows))
           order == InOrder(YearsOf(rows))
           figures == CHOOSE f : f = [n \in DOMAIN order |-> YearStep(rows, f, n)]
<1>1. k \in Nat /\ DOMAIN order = 1 .. k
  BY YearsAreYears, FS_CardinalityType DEF InOrder
<1>2. PerYear(rows) = figures
  BY Zenon DEF PerYear, YearStep, YearFigures, NthYear, YearsOf, InYear, DaysOfYear
<1> HIDE DEF k, order
<1>3. \E f : f = [n \in DOMAIN order |-> YearStep(rows, f, n)]
  <2>1. PICK f : AreYears(rows, k, f)
    BY <1>1, YearsExist
  <2>2. f = [n \in 1 .. k |-> YearStep(rows, f, n)]
    BY <2>1, Zenon DEF AreYears
  <2> QED
    BY <1>1, <2>2, Zenon
<1>4. figures = [n \in DOMAIN order |-> YearStep(rows, figures, n)]
  BY <1>3, Zenon
<1> HIDE DEF figures
<1>5. figures = [n \in 1 .. k |-> YearStep(rows, figures, n)]
  BY <1>1, <1>4
<1>6. DOMAIN figures = 1 .. k /\ \A n \in 1 .. k : figures[n] = YearStep(rows, figures, n)
  BY <1>5, Zenon
<1>7. Len(figures) = k
  BY <1>1, <1>5
<1> QED
  BY <1>1, <1>2, <1>6, <1>7 DEF k

(* The days of a year are a stretch of all the days, with the same trades. *)
IsStretch(daily, all, cut) ==
    \A j \in 1 .. Len(daily) : cut + j \in 1 .. Len(all) /\ daily[j].net = all[cut + j].net

LEMMA YearIsStretch ==
  ASSUME NEW rows, AreBooked(rows), NEW n \in 1 .. Cardinality(YearsOf(rows))
  PROVE  LET y == NthYear(rows, n)
             days == DaysOfYear(rows, y)
             daily == DailyPnlOver(rows, InYear(rows, y), days)
         IN /\ IsColumn(rows, InYear(rows, y), days, daily)
            /\ IsColumn(rows, Trades(rows), WalkedDays(rows), DailyPnl(rows))
            /\ InYear(rows, y) \subseteq DOMAIN rows
            /\ \A i \in InYear(rows, y) : rows[i].day \in days
            /\ IsStretch(daily, DailyPnl(rows), CutAt(rows, n - 1))
<1> DEFINE y == NthYear(rows, n)
           days == DaysOfYear(rows, y)
           mine == InYear(rows, y)
           daily == DailyPnlOver(rows, mine, days)
           all == DailyPnl(rows)
           walked == WalkedDays(rows)
           traded == Trades(rows)
           cut == CutAt(rows, n - 1)
<1>1. /\ mine \subseteq traded /\ traded \subseteq DOMAIN rows
      /\ \A i \in mine : rows[i].day \in days
      /\ \A i \in traded : rows[i].day \in days => i \in mine
      /\ \A d \in days : d \in walked
  BY WalkedDaysAreAnIndex DEF InYear, Trades, DaysOfYear
<1>2. days \subseteq Nat /\ IsFiniteSet(days)
  BY YearsAreYears
<1>3. walked \subseteq Nat /\ IsFiniteSet(walked) /\ \A i \in DOMAIN rows : rows[i].day \in walked
  BY WalkedDaysAreAnIndex
<1>4. \A d \in days : RankIn(walked, d) = cut + RankIn(days, d)
  BY YearsAreSegments DEF NthYear
<1> HIDE DEF days, mine, walked, traded, y
<1>5. IsColumn(rows, mine, days, daily)
  BY <1>1, <1>2, ColumnIs
<1>6. IsColumn(rows, traded, walked, all)
  <2>1. IsColumn(rows, traded, walked, DailyPnlOver(rows, traded, walked))
    BY <1>1, <1>3, ColumnIs
  <2> QED
    BY <2>1, Zenon DEF DailyPnl, traded, walked
<1> HIDE DEF daily, all, cut
<1>7. ASSUME NEW j \in 1 .. Len(daily) PROVE cut + j \in 1 .. Len(all) /\ daily[j].net = all[cut + j].net
  <2> DEFINE d == InOrder(days)[j]
             r == cut + j
  <2>1. Len(daily) = Cardinality(days) /\ Len(all) = Cardinality(walked)
    BY <1>5, <1>6 DEF IsColumn
  <2>2. d \in days /\ RankIn(days, d) = j
    BY <1>2, <2>1, RanksAreDays
  <2>3. d \in walked /\ RankIn(walked, d) = r
    BY <1>1, <1>4, <2>2
  <2>4. RankIn(walked, d) \in 1 .. Cardinality(walked) /\ InOrder(walked)[RankIn(walked, d)] = d
    BY <1>3, <2>3, RanksAreDays
  <2>5. daily[j].net = SumAt(Nets(rows), OnDay(rows, mine, d))
    BY <1>5 DEF IsColumn
  <2> HIDE DEF d, r
  <2>6. all[r].net = SumAt(Nets(rows), OnDay(rows, traded, InOrder(walked)[r]))
    BY <1>6, <2>1, <2>3, <2>4 DEF IsColumn
  <2>7. OnDay(rows, mine, d) = OnDay(rows, traded, d)
    BY <1>1, <2>2 DEF OnDay
  <2> QED
    BY <2>1, <2>3, <2>4, <2>5, <2>6, <2>7 DEF r
<1>8. IsStretch(daily, all, cut)
  BY <1>7 DEF IsStretch
<1>9. mine \subseteq DOMAIN rows
  BY <1>1
<1> QED
  BY <1>1, <1>5, <1>6, <1>8, <1>9 DEF y, days, mine, daily, all, walked, traded, cut

(* A year that opens with the equity of the run follows it to its end.     *)
LEMMA StretchFollows ==
  ASSUME NEW daily, NEW all, NEW cut \in Nat, Len(daily) \in Nat, Len(all) \in Nat,
         cut + Len(daily) <= Len(all), IsStretch(daily, all, cut),
         \A j \in 1 .. Len(daily) : daily[j].net \in Int,
         \A j \in 1 .. Len(all) : all[j].net \in Int,
         NEW opening, opening = EquityFrom(all, Capital)[cut]
  PROVE  LET mine == EquityFrom(daily, opening)
             whole == EquityFrom(all, Capital)
         IN /\ opening \in Int /\ IsCurve(mine, Len(daily)) /\ IsCurve(whole, Len(all))
            /\ \A j \in 0 .. Len(daily) : mine[j] = whole[cut + j]
            /\ mine[Len(daily)] = opening + SumTo(MadeOn(daily), Len(daily))
            /\ WorstFall(mine).amount <= WorstFall(whole).amount
<1> DEFINE k == Len(daily)
           m == Len(all)
           mine == EquityFrom(daily, opening)
           whole == EquityFrom(all, Capital)
           S == {j \in 0 .. k : mine[j] = whole[cut + j]}
           place == [j \in 0 .. k |-> cut + j]
<1>1. IsCurve(whole, m) /\ \A j \in 1 .. m : whole[j] = whole[j - 1] + all[j].net
  BY CapitalAssumption, EquityIs
<1>2. opening \in Int
  <2>1. cut \in 0 .. m
    OBVIOUS
  <2> QED
    BY <1>1, <2>1 DEF IsCurve
<1>3. /\ IsCurve(mine, k) /\ mine[0] = opening
      /\ \A j \in 1 .. k : mine[j] = mine[j - 1] + daily[j].net
      /\ \A j \in 0 .. k : mine[j] = opening + SumTo(MadeOn(daily), j)
  BY <1>2, EquityIs
<1>4. \A j \in 1 .. k : cut + j \in 1 .. m /\ daily[j].net = all[cut + j].net
  BY DEF IsStretch
<1> HIDE DEF mine, whole
<1>5. 0 \in S
  BY <1>3 DEF whole
<1>6. ASSUME NEW j \in 1 .. k, j - 1 \in S PROVE j \in S
  <2>1. cut + j \in 1 .. m /\ daily[j].net = all[cut + j].net
    BY <1>4
  <2>2. mine[j - 1] = whole[cut + (j - 1)] /\ cut + (j - 1) = (cut + j) - 1
    BY <1>6
  <2>3. mine[j] = mine[j - 1] + daily[j].net
    BY <1>3
  <2>4. whole[cut + j] = whole[(cut + j) - 1] + all[cut + j].net
    BY <1>1, <2>1
  <2>5. mine[j] = whole[cut + j] /\ j \in 0 .. k
    BY <2>1, <2>2, <2>3, <2>4
  <2> QED
    BY <2>5
<1> HIDE DEF S
<1>7. \A j \in 0 .. k : j \in S
  BY <1>5, <1>6, Climbs
<1>8. \A j \in 0 .. k : mine[j] = whole[cut + j]
  BY <1>7 DEF S
<1>9. Meets(mine, k, whole, m, place)
  <2>1. \A j \in 0 .. k : place[j] = cut + j /\ place[j] \in 0 .. m
    OBVIOUS
  <2> HIDE DEF place
  <2>2. \A j \in 0 .. k : place[j] \in 0 .. m /\ whole[place[j]] = mine[j]
    BY <1>8, <2>1
  <2>3. \A i, j \in 0 .. k : i <= j => place[i] <= place[j]
    BY <2>1
  <2> QED
    BY <2>2, <2>3 DEF Meets
<1> HIDE DEF place
<1>10. WorstFall(mine).amount <= WorstFall(whole).amount
  BY <1>1, <1>3, <1>9, FallsAsFar
<1>11. mine[k] = opening + SumTo(MadeOn(daily), k)
  BY <1>3
<1> QED
  BY <1>1, <1>2, <1>3, <1>8, <1>10, <1>11 DEF mine, whole

IsYear(rows, n, opening, figures) ==
    LET whole == EquityCurve(DailyPnl(rows))
    IN /\ figures.final = whole[CutAt(rows, n)] /\ figures.final \in Int /\ figures.net \in Int
       /\ figures.final = opening + figures.net
       /\ figures.fall <= WorstFall(whole).amount

LEMMA YearFollowsTheRun ==
  ASSUME NEW rows, AreBooked(rows), WalkedDays(rows) # {},
         NEW n \in 1 .. Cardinality(YearsOf(rows)),
         NEW opening, opening = EquityCurve(DailyPnl(rows))[CutAt(rows, n - 1)]
  PROVE  IsYear(rows, n, opening, YearFigures(rows, n, opening))
<1> DEFINE y == NthYear(rows, n)
           days == DaysOfYear(rows, y)
           at == InYear(rows, y)
           daily == DailyPnlOver(rows, at, days)
           all == DailyPnl(rows)
           cut == CutAt(rows, n - 1)
           k == Len(daily)
           mine == EquityFrom(daily, opening)
           whole == EquityFrom(all, Capital)
           figures == YearFigures(rows, n, opening)
<1>1. /\ IsColumn(rows, at, days, daily) /\ IsColumn(rows, Trades(rows), WalkedDays(rows), all)
      /\ at \subseteq DOMAIN rows /\ \A i \in at : rows[i].day \in days
      /\ IsStretch(daily, all, cut)
  BY YearIsStretch
<1>2. CutAt(rows, n) = cut + Cardinality(days)
  BY YearsAreSegments DEF NthYear
<1>3. days \subseteq Nat /\ IsFiniteSet(days)
  BY YearsAreYears
<1>4. /\ figures.net = SumAt(Nets(rows), at)
      /\ figures.final = mine[k] /\ figures.fall = WorstFall(mine).amount
  BY MetricsAre DEF YearFigures
<1>5. /\ n \in 0 .. Cardinality(YearsOf(rows)) /\ n - 1 \in 0 .. Cardinality(YearsOf(rows))
  BY CutsAreTheDays
<1>6. cut \in Nat /\ CutAt(rows, n) <= Cardinality(WalkedDays(rows))
  BY <1>5, CutsAreTheDays
<1> HIDE DEF y, days, at, daily, all, cut, figures
<1>7. /\ k = Cardinality(days) /\ k \in Nat /\ \A j \in 1 .. k : daily[j].net \in Int
      /\ Len(all) = Cardinality(WalkedDays(rows)) /\ Len(all) \in Nat
      /\ \A j \in 1 .. Len(all) : all[j].net \in Int
  BY <1>1 DEF IsColumn
<1>8. opening = EquityFrom(all, Capital)[cut] /\ EquityCurve(DailyPnl(rows)) = whole
  BY Zenon DEF EquityCurve, all, cut
<1>9. cut + k <= Len(all)
  BY <1>2, <1>6, <1>7
<1>10. /\ opening \in Int /\ IsCurve(mine, k) /\ IsCurve(whole, Len(all))
       /\ \A j \in 0 .. k : mine[j] = whole[cut + j]
       /\ mine[k] = opening + SumTo(MadeOn(daily), k)
       /\ WorstFall(mine).amount <= WorstFall(whole).amount
  <2> HIDE DEF mine, whole
  <2> QED
    BY <1>1, <1>6, <1>7, <1>8, <1>9, StretchFollows, Zenon DEF mine, whole
<1> HIDE DEF mine, whole
<1>11. SumTo(MadeOn(daily), k) = SumAt(Nets(rows), at)
  BY <1>1, <1>3, DaysHoldTheNet
<1>12. figures.net \in Int
  BY <1>4, NetsAreNumbers, SumAtIsInt
<1> HIDE DEF k
<1>13. mine[k] = whole[CutAt(rows, n)] /\ mine[k] \in Int
  <2>1. k \in 0 .. k
    BY <1>7
  <2> QED
    BY <1>2, <1>7, <1>10, <2>1 DEF IsCurve
<1>14. figures.final = opening + figures.net
  BY <1>4, <1>10, <1>11
<1> QED
  BY <1>4, <1>8, <1>10, <1>12, <1>13, <1>14 DEF IsYear, figures

(* The years hand the equity on from the capital to the end, and none      *)
(* falls further than the run.                                             *)
LEMMA BookedYearsChain ==
  ASSUME NEW rows, AreBooked(rows), WalkedDays(rows) # {}
  PROVE  YearsChain(PerYear(rows), Metrics(rows, Trades(rows), Capital, WalkedDays(rows)))
<1> DEFINE years == PerYear(rows)
           k == Cardinality(YearsOf(rows))
           whole == EquityCurve(DailyPnl(rows))
           all == Metrics(rows, Trades(rows), Capital, WalkedDays(rows))
           opening(n) == IF n = 1 THEN Capital ELSE years[n - 1].final
           S == {n \in 0 .. k : n # 0 => IsYear(rows, n, opening(n), years[n])}
<1>1. /\ k \in Nat /\ Len(years) = k /\ DOMAIN years = 1 .. k
      /\ \A n \in 1 .. k : years[n] = YearStep(rows, years, n)
  BY YearsAre
<1>2. /\ k # 0 /\ CutAt(rows, 0) = 0 /\ CutAt(rows, k) = Cardinality(WalkedDays(rows))
  BY CutsAreTheDays
<1>3. IsColumn(rows, Trades(rows), WalkedDays(rows), DailyPnl(rows))
  BY <1>1, <1>2, YearIsStretch
<1>4. whole[0] = Capital
  <2>1. Len(DailyPnl(rows)) \in Nat /\ \A j \in 1 .. Len(DailyPnl(rows)) : DailyPnl(rows)[j].net \in Int
    BY <1>3 DEF IsColumn
  <2> QED
    BY <2>1, CapitalAssumption, EquityIs DEF EquityCurve
<1>5. all.final = whole[Cardinality(WalkedDays(rows))] /\ all.fall = WorstFall(whole).amount
  <2>1. /\ all.final = EquityFrom(Column(rows, Trades(rows)), Capital)[Len(Column(rows, Trades(rows)))]
        /\ all.fall = WorstFall(EquityFrom(Column(rows, Trades(rows)), Capital)).amount
    BY MetricsAre DEF Column
  <2>2. Column(rows, Trades(rows)) = DailyPnl(rows)
    BY Zenon DEF Column, DailyPnl
  <2>3. Len(DailyPnl(rows)) = Cardinality(WalkedDays(rows))
    BY <1>3 DEF IsColumn
  <2> HIDE DEF all
  <2> QED
    BY <2>1, <2>2, <2>3 DEF EquityCurve
<1> HIDE DEF years, k, whole, all
<1>6. 0 \in S
  BY <1>1
<1>7. ASSUME NEW n \in 1 .. k, n - 1 \in S PROVE n \in S
  <2>1. opening(n) = whole[CutAt(rows, n - 1)]
    <3>1. CASE n = 1
      BY <1>2, <1>4, <3>1
    <3>2. CASE n # 1
      <4>1. n - 1 # 0
        BY <1>1, <3>2
      <4>2. IsYear(rows, n - 1, opening(n - 1), years[n - 1])
        BY <1>7, <4>1
      <4>3. years[n - 1].final = whole[CutAt(rows, n - 1)]
        BY <4>2, Zenon DEF IsYear, whole
      <4> QED
        BY <3>2, <4>3
    <3> QED
      BY <3>1, <3>2
  <2>2. years[n] = YearFigures(rows, n, opening(n))
    BY <1>1, Zenon DEF YearStep
  <2> HIDE DEF opening
  <2>3. IsYear(rows, n, opening(n), YearFigures(rows, n, opening(n)))
    BY <2>1, YearFollowsTheRun DEF whole, k
  <2>4. n \in 0 .. k
    BY <1>1
  <2> QED
    BY <2>2, <2>3, <2>4
<1> HIDE DEF S
<1>8. \A n \in 0 .. k : n \in S
  BY <1>1, <1>6, <1>7, Climbs
<1>9. ASSUME NEW n \in 1 .. k
      PROVE  /\ years[n].final = whole[CutAt(rows, n)] /\ years[n].final \in Int /\ years[n].net \in Int
             /\ years[n].final = opening(n) + years[n].net
             /\ years[n].fall <= WorstFall(whole).amount
  <2>1. n \in 0 .. k /\ n # 0
    BY <1>1
  <2> HIDE DEF opening
  <2>2. IsYear(rows, n, opening(n), years[n])
    BY <1>8, <2>1 DEF S
  <2> QED
    BY <2>2, Zenon DEF IsYear, whole
<1>10. years[k].final = all.final /\ all.final \in Int
  <2>1. k \in 1 .. k
    BY <1>1, <1>2
  <2> QED
    BY <1>2, <1>5, <1>9, <2>1
<1>11. all.final = Capital + SumTo([i \in DOMAIN years |-> years[i].net], Len(years))
  <2> DEFINE nets == [i \in 1 .. k |-> years[i].net]
             level == [i \in 0 .. k |-> IF i = 0 THEN 0 ELSE years[i].final - Capital]
  <2>1. level[0] = 0
    BY <1>1
  <2>2. ASSUME NEW i \in 1 .. k PROVE level[i] = level[i - 1] + nets[i]
    <3>1. level[i] = years[i].final - Capital /\ nets[i] = years[i].net
      BY <1>1
    <3>2. CASE i = 1
      BY <1>9, <2>1, <3>1, <3>2, CapitalAssumption
    <3>3. CASE i # 1
      <4>1. i - 1 \in 1 .. k
        BY <1>1, <3>3
      <4>2. level[i - 1] = years[i - 1].final - Capital /\ years[i - 1].final \in Int
        BY <1>9, <4>1
      <4>3. years[i].final = years[i - 1].final + years[i].net /\ years[i].net \in Int
        BY <1>9, <3>3
      <4> HIDE DEF level, nets
      <4> QED
        BY <3>1, <4>2, <4>3, CapitalAssumption
    <3> QED
      BY <3>2, <3>3
  <2>3. level[k] = years[k].final - Capital
    BY <1>1, <1>2
  <2> HIDE DEF level, nets
  <2>4. SumTo(nets, k) = level[k]
    BY <1>1, <2>1, <2>2, SumFollows
  <2>5. [i \in DOMAIN years |-> years[i].net] = nets
    BY <1>1 DEF nets
  <2> QED
    BY <1>1, <1>10, <2>3, <2>4, <2>5, CapitalAssumption
<1>12. \A i \in DOMAIN years : years[i].fall <= all.fall
  BY <1>1, <1>5, <1>9
<1> QED
  BY <1>1, <1>10, <1>11, <1>12 DEF YearsChain, years, all

(* The curve of days ends with the capital and the net of the trades.      *)
LEMMA CurveEndsWithTheNet ==
  ASSUME NEW rows, AreBooked(rows), WalkedDays(rows) # {}
  PROVE  LedgerHolds(rows).curve
<1> DEFINE all == DailyPnl(rows)
           curve == EquityCurve(all)
           k == Len(all)
           n == Cardinality(YearsOf(rows))
           traded == Trades(rows)
<1>1. n \in 1 .. n
  BY CutsAreTheDays
<1> HIDE DEF n
<1>2. IsColumn(rows, traded, WalkedDays(rows), all)
  BY <1>1, YearIsStretch DEF n
<1>3. traded \subseteq DOMAIN rows
  BY DEF Trades
<1>4. /\ WalkedDays(rows) \subseteq Nat /\ IsFiniteSet(WalkedDays(rows))
      /\ \A i \in DOMAIN rows : rows[i].day \in WalkedDays(rows)
  BY WalkedDaysAreAnIndex
<1> HIDE DEF all, traded
<1>5. k \in Nat /\ \A j \in 1 .. k : all[j].net \in Int
  BY <1>2 DEF IsColumn
<1>6. SumTo(MadeOn(all), k) = SumAt(Nets(rows), traded)
  BY <1>2, <1>3, <1>4, DaysHoldTheNet
<1>7. /\ IsCurve(curve, k)
      /\ \A j \in 0 .. k : curve[j] = Capital + SumTo(MadeOn(all), j)
  BY <1>5, CapitalAssumption, EquityIs DEF EquityCurve
<1>8. SumAt(Nets(rows), traded) \in Int
  BY NetsAreNumbers, SumAtIsInt
<1> HIDE DEF curve
<1>9. Max(DOMAIN curve) = k
  <2>1. DOMAIN curve = 0 .. k
    BY <1>7 DEF IsCurve
  <2> HIDE DEF k
  <2> QED
    BY <1>5, <2>1, LastOf
<1>10. curve[k] - Capital = SumAt(Nets(rows), traded)
  <2>1. k \in 0 .. k
    BY <1>5
  <2> HIDE DEF k
  <2>2. curve[k] = Capital + SumAt(Nets(rows), traded)
    BY <1>6, <1>7, <2>1
  <2> QED
    BY <1>8, <2>2, CapitalAssumption
<1>11. curve[Max(DOMAIN curve)] - Capital = SumAt(Nets(rows), traded)
  BY <1>9, <1>10
<1>12. LedgerHolds(rows).curve <=> curve[Max(DOMAIN curve)] - Capital = SumAt(Nets(rows), traded)
  BY DEF LedgerHolds, curve, all, traded
<1> QED
  BY <1>11, <1>12

LEMMA BookedColumnsAddUp ==
  ASSUME NEW rows, AreBooked(rows), WalkedDays(rows) # {}
  PROVE  ColumnsAddUp(rows)
BY BookedSidesAddUp, BookedYearsChain DEF ColumnsAddUp

(* And the columns of the report belong to one run: those of the two sides *)
(* add up to the one for both, profits, trades and days exactly, falls and *)
(* rises at most, and the years hand the equity on from the capital to the *)
(* end, none falling further than the run.  The curve of days ends with    *)
(* what all the trades have made.                                          *)
THEOREM ColumnsAreOfOneRun ==
  Spec => [](WalkedLedger # <<>> => ColumnsAddUp(WalkedLedger) /\ LedgerHolds(WalkedLedger).curve)
<1>1. RunInv => (WalkedLedger # <<>> => ColumnsAddUp(WalkedLedger) /\ LedgerHolds(WalkedLedger).curve)
  BY LedgerIsBooked, BookedColumnsAddUp, CurveEndsWithTheNet
<1> QED
  BY RunAlways, <1>1, PTL
=============================================================================
