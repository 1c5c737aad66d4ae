------------------------ MODULE VideoLifecycleProofs ------------------------
(***************************************************************************)
(* Proofs about VideoLifecycle, for any set of videos and any bounds.      *)
(* What is claimed of a row is claimed, and proved, for histories in which *)
(* only one of the writers runs: with two of them it is false.             *)
(***************************************************************************)
EXTENDS VideoLifecycle, TLAPS

-------------------------------------------------------------------------------
(* The type invariant.                                                     *)

LEMMA TypeInit == Init => TypeOK
<1> SUFFICES ASSUME Init
             PROVE  TypeOK
  OBVIOUS
<1>1. 1 \in 1..LastAttempt
  BY LifecycleAssumption
<1> QED
  BY <1>1 DEF Init, TypeOK, Terminal, Categories, Places, InHand, Verdicts, Causes

\* Discovery, snapshots and the loop keep the types.
LEMMA TypeDiscovery ==
    ASSUME TypeOK, NEW w \in Writers,
           Discovery(w) \/ StartCycle(w) \/ StartRun(w)
    PROVE  TypeOK'
<1> USE LifecycleAssumption DEF TypeOK, Places, InHand, Verdicts, Causes, Terminal,
                                videoVars, diskVars, retryVars, Goto
<1>1. CASE StartCycle(w) \/ StartRun(w)
  BY <1>1 DEF StartCycle, StartRun
<1>2. ASSUME NEW v \in Ids, DiscoverRead(w, v) \/ NextPending(w, v) \/ UpsertRead(w, v)
      PROVE  TypeOK'
  <2>1. CASE DiscoverRead(w, v)
    BY <2>1 DEF DiscoverRead
  <2>2. CASE NextPending(w, v)
    BY <2>2 DEF NextPending
  <2>3. CASE UpsertRead(w, v)
    BY <2>3 DEF UpsertRead
  <2> QED
    BY <1>2, <2>1, <2>2, <2>3
<1>3. CASE DiscoverInsert(w)
  BY <1>3 DEF DiscoverInsert, End
<1>4. CASE UpsertInsert(w)
  BY <1>4 DEF UpsertInsert, End
<1>5. CASE SnapshotPending(w)
  BY <1>5 DEF SnapshotPending
<1>6. CASE SnapshotPaused(w) \/ EndWork(w)
  BY <1>6 DEF SnapshotPaused, EndWork, End
<1> QED
  BY <1>1, <1>2, <1>3, <1>4, <1>5, <1>6 DEF Discovery

\* What a finished thread leaves at the final path is a file.
LEMMA FinishedType ==
    ASSUME TypeOK, NEW v \in Ids, Finished(v)
    PROVE  /\ file' \in [Ids -> {"none", "video", "novideo"}]
           /\ spent' \in [Kinds -> Nat]
BY DEF Finished, Good, Spend, TypeOK

\* Downloads and faults keep the types.
LEMMA TypeDownload ==
    ASSUME TypeOK, NEW w \in Writers, Download(w) \/ Fault(w)
    PROVE  TypeOK'
<1> USE LifecycleAssumption DEF TypeOK, Places, InHand, Verdicts, Causes, Kinds,
                                videoVars, diskVars, retryVars, Goto
<1>1. CASE Pace(w) \/ BeginDownload(w) \/ Adopt(w) \/ AlreadyDownloaded(w)
  BY <1>1 DEF Pace, BeginDownload, Adopt, AlreadyDownloaded
<1>2. CASE FinishDownload(w)
  <2>1. at[w] \in Ids
    BY <1>2 DEF FinishDownload
  <2> QED
    BY <1>2, <2>1, FinishedType DEF FinishDownload
<1>3. CASE RecordArchive(w)
  BY <1>3 DEF RecordArchive
<1>4. CASE TryFallback(w)
  BY <1>4 DEF TryFallback, Spend
<1>5. ASSUME NEW c \in {"transient", "definitive", "local"}, DownloadRaises(w, c)
      PROVE  TypeOK'
  BY <1>5 DEF DownloadRaises, Spend
<1>6. CASE Timeout(w)
  BY <1>6 DEF Timeout, Spend
<1>7. CASE ProbeMissing(w)
  BY <1>7 DEF ProbeMissing, Spend
<1>8. CASE Interrupt(w)
  BY <1>8 DEF Interrupt, Spend, End
<1>9. CASE Kill(w)
  BY <1>9 DEF Kill, Spend, End
<1> QED
  BY <1>1, <1>2, <1>3, <1>4, <1>5, <1>6, <1>7, <1>8, <1>9 DEF Download, Fault

\* Outcomes keep the types.
LEMMA TypeOutcome ==
    ASSUME TypeOK, NEW w \in Writers, Outcome(w)
    PROVE  TypeOK'
<1> USE LifecycleAssumption DEF TypeOK, Places, InHand, Verdicts, Causes, Terminal,
                                Categories, Retriable, videoVars, diskVars, retryVars, Goto
<1>1. CASE Judge(w)
  BY <1>1 DEF Judge
<1>2. CASE PauseForDisk(w)
  BY <1>2 DEF PauseForDisk, writerVars
<1>3. CASE PersistDownloaded(w)
  BY <1>3 DEF PersistDownloaded, Settle
<1>4. CASE PersistSkipped(w)
  BY <1>4 DEF PersistSkipped, Settle
<1>5. CASE PersistIntegrity(w)
  BY <1>5 DEF PersistIntegrity, Settle
<1>6. CASE PersistFailure(w)
  <2>1. CategoryOf(cause[w]) \in Categories
    BY DEF CategoryOf
  <2> QED
    BY <1>6, <2>1 DEF PersistFailure, Settle
<1> QED
  BY <1>1, <1>2, <1>3, <1>4, <1>5, <1>6 DEF Outcome

\* So do the retry command and the outside.
LEMMA TypeOthers ==
    ASSUME TypeOK, Retry \/ Outside
    PROVE  TypeOK'
<1> USE DEF TypeOK, Terminal, Kinds, videoVars, diskVars, writerVars, retryVars
<1>1. CASE RetrySelect
  BY <1>1 DEF RetrySelect
<1>2. CASE RetryKilled
  BY <1>2 DEF RetryKilled, Spend
<1>3. ASSUME NEW v \in Ids, RetryDiscard(v) \/ RetryReset(v)
      PROVE  TypeOK'
  BY <1>3 DEF RetryDiscard, RetryReset
<1>4. CASE DiskFull
  BY <1>4 DEF DiskFull, Spend
<1>5. ASSUME NEW v \in Ids, FileLost(v)
      PROVE  TypeOK'
  BY <1>5 DEF FileLost, Spend
<1>6. ASSUME NEW z \in zombies, ZombieEnds(z)
      PROVE  TypeOK'
  <2>1. z[2] \in Ids
    OBVIOUS
  <2> QED
    BY <1>6, <2>1, FinishedType DEF ZombieEnds
<1>7. CASE DiskRecovers
  <2>1. paused' \in BOOLEAN
    BY <1>7 DEF DiskRecovers
  <2> QED
    BY <1>7, <2>1 DEF DiskRecovers
<1> QED
  BY <1>1, <1>2, <1>3, <1>4, <1>5, <1>6, <1>7 DEF Retry, Outside

LEMMA TypeStep ==
    ASSUME TypeOK, [Next]_vars
    PROVE  TypeOK'
<1>1. CASE UNCHANGED vars
  BY <1>1 DEF TypeOK, vars, videoVars, diskVars, writerVars, retryVars
<1>2. CASE Next
  BY <1>2, TypeDiscovery, TypeDownload, TypeOutcome, TypeOthers DEF Next, Work
<1> QED
  BY <1>1, <1>2

\* Every variable keeps its type, and a writer past the discovery of a video
\* has one in hand.
THEOREM TypeCorrect == Spec => []TypeOK
BY TypeInit, TypeStep, PTL DEF Spec

-------------------------------------------------------------------------------
(* One writer: the monitor cycle or a backfill run, never both.            *)

\* What the video that a writer has in hand is known to be: still pending, and
\* in the archive once it was judged a slideshow.
HandOK(w) ==
    /\ pc[w] \in InHand => row[at[w]] = "pending"
    /\ pc[w] = "skipped" => at[w] \in archived

\* The snapshot of pending rows does not go stale.
SnapshotOK(w) ==
    w = "monitor" /\ pc[w] \in InHand \cup {"next"} => \A v \in todo[w] : row[v] = "pending"

\* What row says of the other records of a video.
RowOK(v) ==
    /\ credited[v] = IF row[v] = "downloaded" THEN 1 ELSE 0
    /\ v \in retries => row[v] = "failed" /\ category[v] \in Retriable
    /\ row[v] = "skipped" => v \in archived

Inv ==
    /\ TypeOK
    /\ \A w \in Writers : HandOK(w) /\ SnapshotOK(w)
    /\ \A v \in Ids : RowOK(v)

\* What the preservation of Inv has left to prove once the types are known.
Kept ==
    /\ \A w \in Writers : HandOK(w)' /\ SnapshotOK(w)'
    /\ \A v \in Ids : RowOK(v)'

LEMMA InvInit == Init => Inv
BY TypeInit DEF Init, Inv, HandOK, SnapshotOK, RowOK, InHand, Verdicts

\* A row that becomes pending in the writer's hand, or that it finds pending.
LEMMA InvDiscovery ==
    ASSUME Inv, OneWriter, NEW w \in Writers,
           Discovery(w) \/ StartCycle(w) \/ StartRun(w)
    PROVE  Kept
<1> USE DEF Inv, TypeOK, OneWriter, Kept, HandOK, SnapshotOK, RowOK, InHand, Verdicts,
            videoVars, diskVars, retryVars, Goto
<1>1. CASE StartCycle(w)
  BY <1>1 DEF StartCycle
<1>2. CASE StartRun(w)
  BY <1>2 DEF StartRun
<1>3. ASSUME NEW v \in Ids, DiscoverRead(w, v)
      PROVE  Kept
  BY <1>3 DEF DiscoverRead
<1>4. ASSUME NEW v \in Ids, NextPending(w, v)
      PROVE  Kept
  BY <1>4 DEF NextPending
<1>5. ASSUME NEW v \in Ids, UpsertRead(w, v)
      PROVE  Kept
  BY <1>5 DEF UpsertRead, Terminal
<1>6. CASE DiscoverInsert(w)
  BY <1>6 DEF DiscoverInsert, End
<1>7. CASE UpsertInsert(w)
  BY <1>7 DEF UpsertInsert, End
<1>8. CASE SnapshotPending(w)
  BY <1>8 DEF SnapshotPending
<1>9. CASE SnapshotPaused(w) \/ EndWork(w)
  BY <1>9 DEF SnapshotPaused, EndWork, End
<1> QED
  BY <1>1, <1>2, <1>3, <1>4, <1>5, <1>6, <1>7, <1>8, <1>9 DEF Discovery

\* A download and its faults leave the rows alone; the only archive entry they
\* discard is that of a pending video.
LEMMA InvDownload ==
    ASSUME Inv, OneWriter, NEW w \in Writers, Download(w) \/ Fault(w)
    PROVE  Kept
<1> USE DEF Inv, TypeOK, OneWriter, Kept, HandOK, SnapshotOK, RowOK, InHand, Verdicts,
            videoVars, diskVars, retryVars, Goto
<1>1. CASE Pace(w) \/ BeginDownload(w) \/ Adopt(w) \/ AlreadyDownloaded(w)
  BY <1>1 DEF Pace, BeginDownload, Adopt, AlreadyDownloaded
<1>2. CASE FinishDownload(w)
  BY <1>2 DEF FinishDownload
<1>3. CASE RecordArchive(w)
  BY <1>3 DEF RecordArchive
<1>4. CASE TryFallback(w)
  BY <1>4 DEF TryFallback
<1>5. ASSUME NEW c \in {"transient", "definitive", "local"}, DownloadRaises(w, c)
      PROVE  Kept
  BY <1>5 DEF DownloadRaises
<1>6. CASE Timeout(w) \/ ProbeMissing(w)
  BY <1>6 DEF Timeout, ProbeMissing
<1>7. CASE Interrupt(w) \/ Kill(w)
  BY <1>7 DEF Interrupt, Kill, End
<1> QED
  BY <1>1, <1>2, <1>3, <1>4, <1>5, <1>6, <1>7 DEF Download, Fault

\* A verdict is written to a row that is still pending.
LEMMA InvOutcome ==
    ASSUME Inv, OneWriter, NEW w \in Writers, Outcome(w)
    PROVE  Kept
<1> USE DEF Inv, TypeOK, OneWriter, Kept, HandOK, SnapshotOK, RowOK, InHand, Verdicts,
            videoVars, diskVars, retryVars, Goto
<1>1. CASE Judge(w)
  BY <1>1 DEF Judge
<1>2. CASE PauseForDisk(w)
  BY <1>2 DEF PauseForDisk, writerVars
<1>3. CASE PersistDownloaded(w)
  BY <1>3 DEF PersistDownloaded, Settle
<1>4. CASE PersistSkipped(w)
  BY <1>4 DEF PersistSkipped, Settle
<1>5. CASE PersistIntegrity(w)
  BY <1>5 DEF PersistIntegrity, Settle
<1>6. CASE PersistFailure(w)
  BY <1>6 DEF PersistFailure, Settle
<1> QED
  BY <1>1, <1>2, <1>3, <1>4, <1>5, <1>6 DEF Outcome

\* The retry command resets only what is failed and retriable.
LEMMA InvOthers ==
    ASSUME Inv, OneWriter, Retry \/ Outside
    PROVE  Kept
<1> USE DEF Inv, TypeOK, Kept, HandOK, SnapshotOK, RowOK, InHand, Verdicts,
            videoVars, diskVars, writerVars, retryVars
<1>1. CASE RetrySelect
  BY <1>1 DEF RetrySelect
<1>2. CASE RetryKilled
  BY <1>2 DEF RetryKilled
<1>3. ASSUME NEW v \in Ids, RetryDiscard(v)
      PROVE  Kept
  BY <1>3 DEF RetryDiscard
<1>4. ASSUME NEW v \in Ids, RetryReset(v)
      PROVE  Kept
  BY <1>4 DEF RetryReset
<1>5. CASE DiskFull \/ DiskRecovers
  BY <1>5 DEF DiskFull, DiskRecovers
<1>6. ASSUME NEW v \in Ids, FileLost(v)
      PROVE  Kept
  BY <1>6 DEF FileLost
<1>7. ASSUME NEW z \in zombies, ZombieEnds(z)
      PROVE  Kept
  BY <1>7 DEF ZombieEnds
<1> QED
  BY <1>1, <1>2, <1>3, <1>4, <1>5, <1>6, <1>7 DEF Retry, Outside

LEMMA InvStep ==
    ASSUME OneWriter, Inv, [Next]_vars
    PROVE  Inv'
<1>1. TypeOK'
  BY TypeStep DEF Inv
<1>2. CASE UNCHANGED vars
  BY <1>1, <1>2 DEF Inv, HandOK, SnapshotOK, RowOK,
                    vars, videoVars, diskVars, writerVars, retryVars
<1>3. CASE Next
  BY <1>1, <1>3, InvDiscovery, InvDownload, InvOutcome, InvOthers DEF Next, Work, Inv, Kept
<1> QED
  BY <1>2, <1>3

\* Who is off stays off: no step makes one writer of two, or two of one.
LEMMA SameWriters ==
    ASSUME TypeOK, [Next]_vars
    PROVE  \A w \in Writers : pc'[w] = "off" => pc[w] = "off"
<1> USE DEF TypeOK, Goto
<1>1. CASE UNCHANGED vars
  BY <1>1 DEF vars, writerVars
<1>2. ASSUME NEW w \in Writers, StartCycle(w) \/ StartRun(w)
      PROVE  \A u \in Writers : pc'[u] = "off" => pc[u] = "off"
  BY <1>2 DEF StartCycle, StartRun
<1>3. ASSUME NEW w \in Writers, Discovery(w)
      PROVE  \A u \in Writers : pc'[u] = "off" => pc[u] = "off"
  BY <1>3 DEF Discovery, DiscoverRead, NextPending, UpsertRead, DiscoverInsert, SnapshotPending,
              SnapshotPaused, UpsertInsert, EndWork, End
<1>4. ASSUME NEW w \in Writers, Download(w)
      PROVE  \A u \in Writers : pc'[u] = "off" => pc[u] = "off"
  BY <1>4 DEF Download, Pace, BeginDownload, Adopt, AlreadyDownloaded, FinishDownload,
              RecordArchive
<1>5. ASSUME NEW w \in Writers, Outcome(w)
      PROVE  \A u \in Writers : pc'[u] = "off" => pc[u] = "off"
  BY <1>5 DEF Outcome, Judge, PauseForDisk, PersistDownloaded, PersistSkipped, PersistIntegrity,
              PersistFailure, Settle, writerVars
<1>6. ASSUME NEW w \in Writers, Fault(w)
      PROVE  \A u \in Writers : pc'[u] = "off" => pc[u] = "off"
  BY <1>6 DEF Fault, TryFallback, DownloadRaises, Timeout, ProbeMissing, Interrupt, Kill, End
<1>7. CASE Retry \/ Outside
  BY <1>7 DEF Retry, Outside, RetrySelect, RetryKilled, RetryDiscard, RetryReset, DiskFull,
              DiskRecovers, FileLost, ZombieEnds, writerVars
<1> QED
  BY <1>1, <1>2, <1>3, <1>4, <1>5, <1>6, <1>7 DEF Next, Work

\* Inv, for the histories it is claimed of.
SoleInv == TypeOK /\ (OneWriter => Inv)

LEMMA Invariance == Spec => []SoleInv
<1>1. Init => SoleInv
  BY InvInit, TypeInit DEF SoleInv
<1>2. SoleInv /\ [Next]_vars => SoleInv'
  <2> SUFFICES ASSUME SoleInv, [Next]_vars
               PROVE  SoleInv'
    OBVIOUS
  <2>1. TypeOK'
    BY TypeStep DEF SoleInv
  <2>2. OneWriter' => OneWriter
    BY SameWriters DEF SoleInv, OneWriter
  <2> QED
    BY <2>1, <2>2, InvStep DEF SoleInv
<1> QED
  BY <1>1, <1>2, PTL DEF Spec

\* With one writer the account's bytes are those of its downloaded videos.
THEOREM OneWriterBytes == Spec => []BytesMatch
<1>1. SoleInv => BytesMatch
  BY DEF SoleInv, Inv, RowOK, BytesMatch, BytesAreTheSum
<1> QED
  BY <1>1, Invariance, PTL

\* With one writer a skipped slideshow is never taken out of the archive.
THEOREM OneWriterArchive == Spec => []SkippedStaysArchived
<1>1. SoleInv => SkippedStaysArchived
  BY DEF SoleInv, Inv, RowOK, SkippedStaysArchived
<1> QED
  BY <1>1, Invariance, PTL

Final(v) ==
    \/ row[v] \in {"downloaded", "skipped"}
    \/ row[v] = "failed" /\ category[v] = "definitive"

KeepsFinal == \A v \in Ids : Final(v) => row'[v] = row[v]

\* A writer changes a row only where there is none or where it is pending.
LEMMA WriterKeepsFinal ==
    ASSUME Inv, NEW w \in Writers,
           StartCycle(w) \/ StartRun(w) \/ Work(w) \/ Fault(w),
           NEW v \in Ids, Final(v)
    PROVE  row'[v] = row[v]
<1> USE DEF Inv, TypeOK, HandOK, Final, InHand, Verdicts, videoVars
<1>1. CASE PersistDownloaded(w) \/ PersistSkipped(w) \/ PersistIntegrity(w) \/ PersistFailure(w)
  BY <1>1 DEF PersistDownloaded, PersistSkipped, PersistIntegrity, PersistFailure, Settle
<1>2. CASE DiscoverInsert(w) \/ UpsertInsert(w)
  BY <1>2 DEF DiscoverInsert, UpsertInsert
<1>3. CASE StartCycle(w) \/ StartRun(w) \/ Download(w) \/ Fault(w)
  BY <1>3 DEF StartCycle, StartRun, Download, Pace, BeginDownload, Adopt, AlreadyDownloaded,
              FinishDownload, RecordArchive, Fault, TryFallback, DownloadRaises, Timeout,
              ProbeMissing, Interrupt, Kill
<1>4. CASE Judge(w) \/ PauseForDisk(w) \/ SnapshotPending(w) \/ SnapshotPaused(w) \/ EndWork(w)
  BY <1>4 DEF Judge, PauseForDisk, SnapshotPending, SnapshotPaused, EndWork
<1>5. ASSUME NEW u \in Ids, DiscoverRead(w, u) \/ NextPending(w, u) \/ UpsertRead(w, u)
      PROVE  row'[v] = row[v]
  BY <1>5 DEF DiscoverRead, NextPending, UpsertRead
<1> QED
  BY <1>1, <1>2, <1>3, <1>4, <1>5 DEF Work, Discovery, Outcome

\* The retry command has selected nothing that is final.
LEMMA OthersKeepFinal ==
    ASSUME Inv, Retry \/ Outside, NEW v \in Ids, Final(v)
    PROVE  row'[v] = row[v]
<1> USE DEF Inv, TypeOK, RowOK, Final, Retriable, videoVars
<1>1. ASSUME NEW u \in Ids, RetryReset(u)
      PROVE  row'[v] = row[v]
  BY <1>1 DEF RetryReset
<1>2. ASSUME NEW u \in Ids, RetryDiscard(u) \/ FileLost(u)
      PROVE  row'[v] = row[v]
  BY <1>2 DEF RetryDiscard, FileLost
<1>3. CASE RetrySelect \/ RetryKilled \/ DiskFull \/ DiskRecovers
  BY <1>3 DEF RetrySelect, RetryKilled, DiskFull, DiskRecovers
<1>4. ASSUME NEW z \in zombies, ZombieEnds(z)
      PROVE  row'[v] = row[v]
  BY <1>4 DEF ZombieEnds
<1> QED
  BY <1>1, <1>2, <1>3, <1>4 DEF Retry, Outside

\* With one writer an outcome that is not retriable is for ever.
THEOREM OneWriterFinal == Spec => TerminalIsFinal
<1>1. SoleInv /\ [Next]_vars => [OneWriter => KeepsFinal]_vars
  BY WriterKeepsFinal, OthersKeepFinal DEF Next, KeepsFinal, SoleInv
<1>2. SoleInv /\ [Next]_vars
        => [OneWriter => \A v \in Ids :
              \/ row[v] \in {"downloaded", "skipped"}
              \/ row[v] = "failed" /\ category[v] = "definitive"
              => row'[v] = row[v]]_vars
  BY <1>1 DEF KeepsFinal, Final
<1> QED
  BY <1>2, Invariance, PTL DEF Spec, TerminalIsFinal

-------------------------------------------------------------------------------
(* Files, as long as no native thread was abandoned.                       *)

Unabandoned == spent["timeout"] = 0 /\ spent["interrupt"] = 0

\* Nobody writes behind the writer's back, and what it is about to mark
\* downloaded, or has marked, is not a file without a video stream.
FilesInv ==
    Unabandoned =>
        /\ zombies = {}
        /\ \A w \in Writers : pc[w] = "downloaded" => file[at[w]] # "novideo"
        /\ \A v \in Ids : row[v] = "downloaded" => file[v] # "novideo"

\* Once abandoned, always so: faults are only ever added.
LEMMA FaultsAdd ==
    ASSUME TypeOK, NEW k \in Kinds, Spend(k)
    PROVE  Unabandoned' => Unabandoned /\ k \notin {"timeout", "interrupt"}
BY DEF TypeOK, Spend, Unabandoned, Kinds

LEMMA FilesDiscovery ==
    ASSUME Inv, FilesInv, OneWriter, NEW w \in Writers,
           Discovery(w) \/ StartCycle(w) \/ StartRun(w)
    PROVE  FilesInv'
<1> USE DEF Inv, TypeOK, OneWriter, HandOK, InHand, Verdicts, FilesInv, Unabandoned,
            videoVars, diskVars, retryVars, Goto
<1>1. CASE StartCycle(w) \/ StartRun(w)
  BY <1>1 DEF StartCycle, StartRun
<1>2. ASSUME NEW v \in Ids, DiscoverRead(w, v) \/ NextPending(w, v) \/ UpsertRead(w, v)
      PROVE  FilesInv'
  BY <1>2 DEF DiscoverRead, NextPending, UpsertRead
<1>3. CASE DiscoverInsert(w) \/ UpsertInsert(w)
  BY <1>3 DEF DiscoverInsert, UpsertInsert, End
<1>4. CASE SnapshotPending(w) \/ SnapshotPaused(w) \/ EndWork(w)
  BY <1>4 DEF SnapshotPending, SnapshotPaused, EndWork, End
<1> QED
  BY <1>1, <1>2, <1>3, <1>4 DEF Discovery

\* A download changes the file of a video that is still pending.
LEMMA FilesDownload ==
    ASSUME Inv, FilesInv, OneWriter, NEW w \in Writers, Download(w) \/ Fault(w)
    PROVE  FilesInv'
<1> USE DEF Inv, TypeOK, OneWriter, HandOK, InHand, Verdicts, FilesInv,
            videoVars, diskVars, retryVars, Goto
<1>1. CASE Pace(w) \/ BeginDownload(w) \/ Adopt(w) \/ AlreadyDownloaded(w) \/ RecordArchive(w)
  BY <1>1 DEF Pace, BeginDownload, Adopt, AlreadyDownloaded, RecordArchive, Unabandoned
<1>2. CASE FinishDownload(w)
  <2>1. Unabandoned' => Unabandoned
    BY <1>2, FaultsAdd DEF FinishDownload, Finished, Unabandoned, Kinds
  <2>2. \A v \in Ids \ {at[w]} : file'[v] = file[v]
    BY <1>2 DEF FinishDownload, Finished
  <2> QED
    BY <1>2, <2>1, <2>2 DEF FinishDownload
<1>3. CASE TryFallback(w) \/ ProbeMissing(w)
  <2>1. Unabandoned' => Unabandoned
    BY <1>3, FaultsAdd DEF TryFallback, ProbeMissing, Kinds
  <2> QED
    BY <1>3, <2>1 DEF TryFallback, ProbeMissing
<1>4. ASSUME NEW c \in {"transient", "definitive", "local"}, DownloadRaises(w, c)
      PROVE  FilesInv'
  <2>1. Unabandoned' => Unabandoned
    BY <1>4, FaultsAdd DEF DownloadRaises, Kinds
  <2> QED
    BY <1>4, <2>1 DEF DownloadRaises
<1>5. CASE Timeout(w) \/ Interrupt(w)
  <2>1. ~Unabandoned'
    BY <1>5, FaultsAdd DEF Timeout, Interrupt, Kinds
  <2> QED
    BY <2>1
<1>6. CASE Kill(w)
  <2>1. Unabandoned' => Unabandoned
    BY <1>6, FaultsAdd DEF Kill, Kinds
  <2> QED
    BY <1>6, <2>1 DEF Kill, End
<1> QED
  BY <1>1, <1>2, <1>3, <1>4, <1>5, <1>6 DEF Download, Fault

\* Only a file with a video stream is judged downloaded.
LEMMA FilesOutcome ==
    ASSUME Inv, FilesInv, OneWriter, NEW w \in Writers, Outcome(w)
    PROVE  FilesInv'
<1> USE DEF Inv, TypeOK, OneWriter, HandOK, InHand, Verdicts, FilesInv, Unabandoned,
            videoVars, diskVars, retryVars, Goto
<1>1. CASE Judge(w)
  BY <1>1 DEF Judge
<1>2. CASE PauseForDisk(w)
  BY <1>2 DEF PauseForDisk
<1>3. CASE PersistDownloaded(w)
  BY <1>3 DEF PersistDownloaded, Settle
<1>4. CASE PersistSkipped(w) \/ PersistIntegrity(w) \/ PersistFailure(w)
  BY <1>4 DEF PersistSkipped, PersistIntegrity, PersistFailure, Settle
<1> QED
  BY <1>1, <1>2, <1>3, <1>4 DEF Outcome

LEMMA FilesOthers ==
    ASSUME Inv, FilesInv, Retry \/ Outside
    PROVE  FilesInv'
<1> USE DEF Inv, TypeOK, FilesInv, videoVars, diskVars, writerVars, retryVars
<1>1. CASE RetrySelect \/ DiskRecovers
  BY <1>1 DEF RetrySelect, DiskRecovers, Unabandoned
<1>2. CASE RetryKilled \/ DiskFull
  <2>1. Unabandoned' => Unabandoned
    BY <1>2, FaultsAdd DEF RetryKilled, DiskFull, Kinds
  <2> QED
    BY <1>2, <2>1 DEF RetryKilled, DiskFull
<1>3. ASSUME NEW v \in Ids, RetryDiscard(v) \/ RetryReset(v)
      PROVE  FilesInv'
  BY <1>3 DEF RetryDiscard, RetryReset, Unabandoned
<1>4. ASSUME NEW v \in Ids, FileLost(v)
      PROVE  FilesInv'
  <2>1. Unabandoned' => Unabandoned
    BY <1>4, FaultsAdd DEF FileLost, Kinds
  <2> QED
    BY <1>4, <2>1 DEF FileLost
<1>5. ASSUME NEW z \in zombies, ZombieEnds(z)
      PROVE  FilesInv'
  <2>1. ~Unabandoned
    OBVIOUS
  <2>2. Unabandoned' => Unabandoned
    BY <1>5, FaultsAdd DEF ZombieEnds, Finished, Unabandoned, Kinds
  <2> QED
    BY <2>1, <2>2
<1> QED
  BY <1>1, <1>2, <1>3, <1>4, <1>5 DEF Retry, Outside

\* With one writer, and no thread abandoned, no download is ever replaced by a
\* file without a video stream.
THEOREM OneWriterFiles == Spec => []DownloadedIsIntact
<1> DEFINE SoleFiles == OneWriter => FilesInv
<1>1. Init => SoleFiles
  BY DEF Init, FilesInv
<1>2. SoleInv /\ SoleFiles /\ [Next]_vars => SoleFiles'
  <2> SUFFICES ASSUME SoleInv, SoleFiles, [Next]_vars, OneWriter'
               PROVE  FilesInv'
    OBVIOUS
  <2>1. OneWriter
    BY SameWriters DEF SoleInv, OneWriter
  <2>2. Inv /\ FilesInv
    BY <2>1 DEF SoleInv
  <2>3. CASE UNCHANGED vars
    BY <2>2, <2>3 DEF FilesInv, Unabandoned, vars, videoVars, diskVars, writerVars
  <2>4. CASE Next
    BY <2>1, <2>2, <2>4, FilesDiscovery, FilesDownload, FilesOutcome, FilesOthers DEF Next, Work
  <2> QED
    BY <2>3, <2>4
<1>3. SoleFiles => DownloadedIsIntact
  BY DEF FilesInv, Unabandoned, DownloadedIsIntact
<1> QED
  BY <1>1, <1>2, <1>3, Invariance, PTL DEF Spec

=============================================================================
