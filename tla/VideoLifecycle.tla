--------------------------- MODULE VideoLifecycle ---------------------------
(***************************************************************************)
(* The rows of one account's videos, from discovery to a terminal state,   *)
(* with the file, the archive entry and the account's byte counter that    *)
(* have to agree with them.                                                *)
(*                                                                         *)
(* Two writers may work on the same rows: the monitor cycle                *)
(* (src/tikdown_rs/services/monitor.py) and a backfill run                 *)
(* (services/backfill.py), the latter possibly in a process of its own.    *)
(* Both download with core/download_engine/ytdlp_engine.py and settle a    *)
(* row with services/videos.py.  The retry-failed command of               *)
(* services/backfill_ops.py is the third.                                  *)
(*                                                                         *)
(* Abstracted: the pacer and the semaphore (a wait of any length), the     *)
(* order of a listing, the breaker and the state of the account (a run     *)
(* that stops early is interrupted here), titles, hashes and events.       *)
(***************************************************************************)
EXTENDS Naturals, FiniteSets

CONSTANTS
    Ids,          \* videos on the account's page
    PhotoPosts,   \* those listed without a duration
    Writers,      \* which of the two writers there are
    LastAttempt,  \* formats the engine tries: 1 with an override, else 2
    Limit         \* bounds: how often each kind of fault happens

Kinds == {"error", "degraded", "timeout", "kill", "interrupt", "disk", "ffprobe", "lost"}

ASSUME LifecycleAssumption ==
    /\ PhotoPosts \subseteq Ids
    /\ Writers \subseteq {"monitor", "backfill"}
    /\ LastAttempt \in {1, 2}
    /\ Limit \in [Kinds -> Nat]

VARIABLES
    row,        \* videos.status, "none" before the row exists
    category,   \* videos.error_category, "none" for NULL
    credited,   \* how often the video's size was added to total_disk_bytes
    archived,   \* ids in download_archive.txt
    file,       \* what is at the video's final path
    paused,     \* daemon_state.downloads_paused
    pc,         \* where each writer is; "off" if it never runs in this history
    todo,       \* its listing or its snapshot of pending rows, what is left
    at,         \* the video it has in hand
    attempt,    \* which format of the chain
    cause,      \* the exception on its way to persist_download_failure
    zombies,    \* <<w, v>>: a native thread of w that nobody waits for
    retries,    \* retry-failed: rows it selected and has not reset
    discarded,  \* those of them whose archive entry is discarded
    spent       \* faults so far, bounded by Limit

videoVars  == <<row, category, credited>>
diskVars   == <<archived, file, paused>>
writerVars == <<pc, todo, at, attempt, cause>>
retryVars  == <<retries, discarded>>
vars == <<videoVars, diskVars, writerVars, zombies, retryVars, spent>>

NoVideo == "-"
ASSUME NoVideoAssumption == NoVideo \notin Ids

Terminal   == {"downloaded", "skipped", "failed"}
Retriable  == {"transient", "integrity"}              \* _RETRIABLE_CATEGORIES
Categories == Retriable \cup {"none", "definitive"}
Causes     == {"none", "transient", "definitive", "local", "disk", "ffprobe"}
Verdicts   == {"downloaded", "skipped", "integrity", "failed"}
\* Places with a video in hand.
InHand == {"pace", "fetch", "thread", "record", "verify"} \cup Verdicts
Places == {"off", "idle", "discover", "insert", "next"} \cup InHand

TypeOK ==
    /\ row \in [Ids -> Terminal \cup {"none", "pending"}]
    /\ category \in [Ids -> Categories]
    /\ credited \in [Ids -> Nat]
    /\ archived \subseteq Ids
    /\ file \in [Ids -> {"none", "video", "novideo"}]
    /\ paused \in BOOLEAN
    /\ pc \in [Writers -> Places]
    /\ todo \in [Writers -> SUBSET Ids]
    /\ at \in [Writers -> Ids \cup {NoVideo}]
    /\ attempt \in [Writers -> 1..LastAttempt]
    /\ cause \in [Writers -> Causes]
    /\ zombies \subseteq Writers \X Ids
    /\ retries \subseteq Ids
    /\ discarded \subseteq retries
    /\ spent \in [Kinds -> Nat]
    /\ \A w \in Writers : pc[w] \in InHand \cup {"insert"} => at[w] \in Ids

Init ==
    /\ row = [v \in Ids |-> "none"]
    /\ category = [v \in Ids |-> "none"]
    /\ credited = [v \in Ids |-> 0]
    /\ archived = {}
    /\ file = [v \in Ids |-> "none"]
    /\ paused = FALSE
    /\ pc \in [Writers -> {"idle", "off"}]
    /\ todo = [w \in Writers |-> {}]
    /\ at = [w \in Writers |-> NoVideo]
    /\ attempt = [w \in Writers |-> 1]
    /\ cause = [w \in Writers |-> "none"]
    /\ zombies = {}
    /\ retries = {} /\ discarded = {}
    /\ spent = [k \in Kinds |-> 0]

Spend(k) ==
    /\ spent[k] < Limit[k]
    /\ spent' = [spent EXCEPT ![k] = @ + 1]

Goto(w, place) == pc' = [pc EXCEPT ![w] = place]

\* The writer's coroutine is over; its locals are gone.
End(w) ==
    /\ pc' = [pc EXCEPT ![w] = "idle"]
    /\ todo' = [todo EXCEPT ![w] = {}]
    /\ at' = [at EXCEPT ![w] = NoVideo]
    /\ attempt' = [attempt EXCEPT ![w] = 1]
    /\ cause' = [cause EXCEPT ![w] = "none"]

-------------------------------------------------------------------------------
(* The monitor cycle: discovery, then a snapshot of the pending rows.      *)

\* run_monitor_cycle_once up to the listing of the account.
StartCycle(w) ==
    /\ w = "monitor" /\ pc[w] = "idle" /\ ~paused
    /\ Goto(w, "discover")
    /\ todo' = [todo EXCEPT ![w] = Ids]
    /\ UNCHANGED <<videoVars, diskVars, at, attempt, cause, zombies, retryVars, spent>>

\* The SELECT of one entry of the listing.
DiscoverRead(w, v) ==
    /\ pc[w] = "discover" /\ v \in todo[w]
    /\ todo' = [todo EXCEPT ![w] = @ \ {v}]
    /\ \/ row[v] # "none" /\ UNCHANGED <<pc, at>>
       \/ row[v] = "none" /\ at' = [at EXCEPT ![w] = v] /\ Goto(w, "insert")
    /\ UNCHANGED <<videoVars, diskVars, attempt, cause, zombies, retryVars, spent>>

\* The INSERT in a session of its own.  If another process was faster the
\* UNIQUE constraint fails and the cycle gives the account up.
DiscoverInsert(w) ==
    /\ w = "monitor" /\ pc[w] = "insert"
    /\ \/ /\ row[at[w]] = "none"
          /\ row' = [row EXCEPT ![at[w]] = "pending"]
          /\ Goto(w, "discover") /\ at' = [at EXCEPT ![w] = NoVideo]
          /\ UNCHANGED <<todo, attempt, cause>>
       \/ /\ row[at[w]] # "none"
          /\ End(w)
          /\ UNCHANGED row
    /\ UNCHANGED <<category, credited, diskVars, zombies, retryVars, spent>>

\* Mutant: the query has lost its condition on the status.
SnapshotAll(w) ==
    /\ pc[w] = "discover" /\ todo[w] = {} /\ ~paused
    /\ todo' = [todo EXCEPT ![w] = {v \in Ids : row[v] # "none"}]
    /\ Goto(w, "next")
    /\ UNCHANGED <<videoVars, diskVars, at, attempt, cause, zombies, retryVars, spent>>

\* Mutant: videos in the archive are taken for settled.
SnapshotNotArchived(w) ==
    /\ pc[w] = "discover" /\ todo[w] = {} /\ ~paused
    /\ todo' = [todo EXCEPT ![w] = {v \in Ids \ archived : row[v] = "pending"}]
    /\ Goto(w, "next")
    /\ UNCHANGED <<videoVars, diskVars, at, attempt, cause, zombies, retryVars, spent>>

\* download_pendings reads all pending rows at once.
SnapshotPending(w) ==
    /\ pc[w] = "discover" /\ todo[w] = {} /\ ~paused
    /\ todo' = [todo EXCEPT ![w] = {v \in Ids : row[v] = "pending"}]
    /\ Goto(w, "next")
    /\ UNCHANGED <<videoVars, diskVars, at, attempt, cause, zombies, retryVars, spent>>

\* The same gate, closed since the cycle began.
SnapshotPaused(w) ==
    /\ pc[w] = "discover" /\ todo[w] = {} /\ paused
    /\ End(w)
    /\ UNCHANGED <<videoVars, diskVars, zombies, retryVars, spent>>

\* The next row of the snapshot, whatever has become of it since.
NextPending(w, v) ==
    /\ w = "monitor" /\ pc[w] = "next" /\ v \in todo[w]
    /\ at' = [at EXCEPT ![w] = v]
    /\ Goto(w, "pace")
    /\ UNCHANGED <<videoVars, diskVars, todo, attempt, cause, zombies, retryVars, spent>>

-------------------------------------------------------------------------------
(* The backfill run: one row at a time, read when its turn comes.  Neither *)
(* its gates nor its loop ask for a pause.                                 *)

StartRun(w) ==
    /\ w = "backfill" /\ pc[w] = "idle"
    /\ Goto(w, "next")
    /\ todo' = [todo EXCEPT ![w] = Ids]
    /\ UNCHANGED <<videoVars, diskVars, at, attempt, cause, zombies, retryVars, spent>>

\* The SELECT of _get_or_create_pending_video.
UpsertRead(w, v) ==
    /\ w = "backfill" /\ pc[w] = "next" /\ v \in todo[w]
    /\ \/ /\ row[v] \in Terminal
          /\ todo' = [todo EXCEPT ![w] = @ \ {v}]
          /\ UNCHANGED <<pc, at>>
       \/ /\ row[v] \notin Terminal
          /\ at' = [at EXCEPT ![w] = v]
          /\ Goto(w, IF row[v] = "none" THEN "insert" ELSE "pace")
          /\ UNCHANGED todo
    /\ UNCHANGED <<videoVars, diskVars, attempt, cause, zombies, retryVars, spent>>

\* Its INSERT; a failed UNIQUE constraint is outside the per-video try and
\* ends the run.
UpsertInsert(w) ==
    /\ w = "backfill" /\ pc[w] = "insert"
    /\ \/ /\ row[at[w]] = "none"
          /\ row' = [row EXCEPT ![at[w]] = "pending"]
          /\ Goto(w, "pace")
          /\ UNCHANGED <<todo, at, attempt, cause>>
       \/ /\ row[at[w]] # "none"
          /\ End(w)
          /\ UNCHANGED row
    /\ UNCHANGED <<category, credited, diskVars, zombies, retryVars, spent>>

-------------------------------------------------------------------------------
(* One download: YtDlpEngine.download around yt-dlp's native thread.       *)

\* pacer.acquire() and the semaphore, 40 s and more.
Pace(w) ==
    /\ pc[w] = "pace"
    /\ Goto(w, "fetch")
    /\ UNCHANGED <<videoVars, diskVars, todo, at, attempt, cause, zombies, retryVars, spent>>

\* external: yt-dlp skips what its archive names and what is on disk.
Skips(v) == v \in archived \/ file[v] # "none"

\* external: yt-dlp starts to write the file.
BeginDownload(w) ==
    /\ pc[w] = "fetch" /\ ~Skips(at[w])
    /\ Goto(w, "thread")
    /\ UNCHANGED <<videoVars, diskVars, todo, at, attempt, cause, zombies, retryVars, spent>>

\* Mutant (T-ENGINE-32): a skip is a failure, whatever is on disk.
AdoptNothing(w) ==
    /\ pc[w] = "fetch" /\ Skips(at[w]) /\ file[at[w]] # "none"
    /\ Goto(w, "failed")
    /\ cause' = [cause EXCEPT ![w] = "transient"]
    /\ UNCHANGED <<videoVars, diskVars, todo, at, attempt, zombies, retryVars, spent>>

\* _resolve_downloaded_path: the file on disk is adopted.
Adopt(w) ==
    /\ pc[w] = "fetch" /\ Skips(at[w]) /\ file[at[w]] # "none"
    /\ Goto(w, "verify")
    /\ UNCHANGED <<videoVars, diskVars, todo, at, attempt, cause, zombies, retryVars, spent>>

\* The same with nothing to adopt: a RuntimeError, past the funnel.
AlreadyDownloaded(w) ==
    /\ pc[w] = "fetch" /\ Skips(at[w]) /\ file[at[w]] = "none"
    /\ Goto(w, "failed")
    /\ cause' = [cause EXCEPT ![w] = "transient"]
    /\ UNCHANGED <<videoVars, diskVars, todo, at, attempt, zombies, retryVars, spent>>

Good(v) == IF v \in PhotoPosts THEN "novideo" ELSE "video"

\* Native threads at work on v; they all write the same outtmpl.
ThreadsOn(v) == {z \in zombies : z[2] = v}
                    \cup {<<w, v>> : w \in {u \in Writers : pc[u] = "thread" /\ at[u] = v}}

\* external: the finished file replaces what is at the final path.  It has no
\* video stream if TikTok exposed only audio, and may have none if another
\* thread wrote to the same partial file.
Finished(v) ==
    \/ file' = [file EXCEPT ![v] = Good(v)] /\ UNCHANGED spent
    \/ v \notin PhotoPosts /\ Spend("degraded") /\ file' = [file EXCEPT ![v] = "novideo"]
    \/ Cardinality(ThreadsOn(v)) > 1 /\ file' = [file EXCEPT ![v] = "novideo"] /\ UNCHANGED spent

\* external: the download is complete.
FinishDownload(w) ==
    /\ pc[w] = "thread"
    /\ Finished(at[w])
    /\ Goto(w, "record")
    /\ UNCHANGED <<videoVars, archived, paused, todo, at, attempt, cause, zombies, retryVars>>

\* external: yt-dlp appends to the archive and returns.
RecordArchive(w) ==
    /\ pc[w] = "record"
    /\ archived' = archived \cup {at[w]}
    /\ Goto(w, "verify")
    /\ UNCHANGED <<videoVars, file, paused, todo, at, attempt, cause, zombies, retryVars, spent>>

\* The attempt raises and there is another format: the archive entry is
\* discarded first.
TryFallback(w) ==
    /\ pc[w] = "thread" /\ attempt[w] < LastAttempt /\ Spend("error")
    /\ archived' = archived \ {at[w]}
    /\ attempt' = [attempt EXCEPT ![w] = @ + 1]
    /\ Goto(w, "fetch")
    /\ UNCHANGED <<videoVars, file, paused, todo, at, cause, zombies, retryVars>>

\* The last format raises.
DownloadRaises(w, c) ==
    /\ pc[w] = "thread" /\ attempt[w] = LastAttempt /\ Spend("error")
    /\ cause' = [cause EXCEPT ![w] = c]
    /\ Goto(w, "failed")
    /\ UNCHANGED <<videoVars, diskVars, todo, at, attempt, zombies, retryVars>>

\* wait_for gives up; the thread does not.
Timeout(w) ==
    /\ pc[w] \in {"thread", "record"} /\ Spend("timeout")
    /\ zombies' = zombies \cup {<<w, at[w]>>}
    /\ cause' = [cause EXCEPT ![w] = "transient"]
    /\ Goto(w, "failed")
    /\ UNCHANGED <<videoVars, diskVars, todo, at, attempt, retryVars>>

\* external: a thread nobody waits for finishes its file, or fails.
ZombieEnds(z) ==
    /\ z \in zombies
    /\ zombies' = zombies \ {z}
    /\ \/ Finished(z[2]) /\ archived' = archived \cup {z[2]}
       \/ UNCHANGED <<file, archived, spent>>
    /\ UNCHANGED <<videoVars, paused, writerVars, retryVars>>

-------------------------------------------------------------------------------
(* handle_download_result and persist_download_failure.                    *)

\* Mutant: a file is good enough.
JudgeByExistence(w) ==
    /\ pc[w] = "verify"
    /\ Goto(w, IF file[at[w]] = "none" THEN "integrity" ELSE "downloaded")
    /\ UNCHANGED <<videoVars, diskVars, todo, at, attempt, cause, zombies, retryVars, spent>>

\* Mutant: the slideshow is not added to the archive.
JudgeWithoutAdd(w) ==
    LET v == at[w] IN
    /\ pc[w] = "verify"
    /\ \/ file[v] = "video" /\ Goto(w, "downloaded") /\ UNCHANGED archived
       \/ /\ file[v] = "novideo" /\ v \in PhotoPosts
          /\ archived' = archived \ {v} /\ Goto(w, "skipped")
       \/ /\ file[v] = "novideo" /\ v \notin PhotoPosts
          /\ archived' = archived \ {v} /\ Goto(w, "integrity")
       \/ file[v] = "none" /\ Goto(w, "integrity") /\ UNCHANGED archived
    /\ UNCHANGED <<videoVars, file, paused, todo, at, attempt, cause, zombies, retryVars, spent>>

\* _verify_integrity, and what it means for the archive.
Judge(w) ==
    LET v == at[w] IN
    /\ pc[w] = "verify"
    /\ \/ file[v] = "video" /\ Goto(w, "downloaded") /\ UNCHANGED archived
       \/ /\ file[v] = "novideo" /\ v \in PhotoPosts
          /\ archived' = archived \cup {v} /\ Goto(w, "skipped")
       \/ /\ file[v] = "novideo" /\ v \notin PhotoPosts
          /\ archived' = archived \ {v} /\ Goto(w, "integrity")
       \/ file[v] = "none" /\ Goto(w, "integrity") /\ UNCHANGED archived
    /\ UNCHANGED <<videoVars, file, paused, todo, at, attempt, cause, zombies, retryVars, spent>>

\* There is no ffprobe binary: a ConfigurationError, which the callers catch.
ProbeMissing(w) ==
    /\ pc[w] = "verify" /\ file[at[w]] # "none" /\ Spend("ffprobe")
    /\ cause' = [cause EXCEPT ![w] = "ffprobe"]
    /\ Goto(w, "failed")
    /\ UNCHANGED <<videoVars, diskVars, todo, at, attempt, zombies, retryVars>>

\* persist_download_failure of a full disk pauses downloads first.
PauseForDisk(w) ==
    /\ pc[w] = "failed" /\ cause[w] = "local"
    /\ paused' = TRUE
    /\ cause' = [cause EXCEPT ![w] = "disk"]
    /\ UNCHANGED <<videoVars, archived, file, pc, todo, at, attempt, zombies, retryVars, spent>>

\* The error_category of a video that could not be downloaded: classify_error,
\* and NULL for what the column cannot hold.
CategoryOf(c) ==
    CASE c = "definitive" -> "definitive"
      [] c = "disk" -> "none"
      [] OTHER -> "transient"

\* _persist_terminal: the row by its id, whatever its status.
Settle(w, s, c) ==
    /\ row' = [row EXCEPT ![at[w]] = s]
    /\ category' = [category EXCEPT ![at[w]] = c]
    /\ todo' = [todo EXCEPT ![w] = @ \ {at[w]}]
    /\ at' = [at EXCEPT ![w] = NoVideo]
    /\ attempt' = [attempt EXCEPT ![w] = 1]
    /\ cause' = [cause EXCEPT ![w] = "none"]
    /\ Goto(w, "next")

\* The row and the account's bytes in one commit.
PersistDownloaded(w) ==
    /\ pc[w] = "downloaded"
    /\ Settle(w, "downloaded", "none")
    /\ credited' = [credited EXCEPT ![at[w]] = @ + 1]
    /\ UNCHANGED <<diskVars, zombies, retryVars, spent>>

PersistSkipped(w) ==
    /\ pc[w] = "skipped"
    /\ Settle(w, "skipped", "none")
    /\ UNCHANGED <<credited, diskVars, zombies, retryVars, spent>>

PersistIntegrity(w) ==
    /\ pc[w] = "integrity"
    /\ Settle(w, "failed", "integrity")
    /\ UNCHANGED <<credited, diskVars, zombies, retryVars, spent>>

PersistFailure(w) ==
    /\ pc[w] = "failed" /\ cause[w] # "local"
    /\ Settle(w, "failed", CategoryOf(cause[w]))
    /\ UNCHANGED <<credited, diskVars, zombies, retryVars, spent>>

\* The snapshot or the listing is done.
EndWork(w) ==
    /\ pc[w] = "next" /\ todo[w] = {}
    /\ End(w)
    /\ UNCHANGED <<videoVars, diskVars, zombies, retryVars, spent>>

-------------------------------------------------------------------------------
(* Interruptions, retry-failed, and the outside.                           *)

\* A drain, Ctrl-C, a cancelled backfill: the coroutine ends where it waits,
\* a native thread goes on until the process is gone.
Interrupt(w) ==
    /\ pc[w] \notin {"idle", "off"} /\ Spend("interrupt")
    /\ End(w)
    /\ zombies' = IF pc[w] \in {"thread", "record"} THEN zombies \cup {<<w, at[w]>>}
                                                    ELSE zombies
    /\ UNCHANGED <<videoVars, diskVars, retryVars>>

\* The process dies, and its threads with it.
Kill(w) ==
    /\ pc[w] \notin {"idle", "off"} /\ Spend("kill")
    /\ End(w)
    /\ zombies' = {z \in zombies : z[1] # w}
    /\ UNCHANGED <<videoVars, diskVars, retryVars>>

\* Mutant: the category is not looked at.
RetrySelectAll ==
    /\ retries = {}
    /\ retries' = {v \in Ids : row[v] = "failed"} /\ retries' # {}
    /\ UNCHANGED <<videoVars, diskVars, writerVars, zombies, discarded, spent>>

\* retry_failed selects its rows.
RetrySelect ==
    /\ retries = {}
    /\ retries' = {v \in Ids : row[v] = "failed" /\ category[v] \in Retriable} /\ retries' # {}
    /\ UNCHANGED <<videoVars, diskVars, writerVars, zombies, discarded, spent>>

\* archive.remove of one of them ...
RetryDiscard(v) ==
    /\ v \in retries \ discarded
    /\ archived' = archived \ {v}
    /\ discarded' = discarded \cup {v}
    /\ UNCHANGED <<videoVars, file, paused, writerVars, zombies, retries, spent>>

\* ... then its row, if it still is failed.
RetryReset(v) ==
    /\ v \in discarded
    /\ row' = IF row[v] = "failed" THEN [row EXCEPT ![v] = "pending"] ELSE row
    /\ retries' = retries \ {v} /\ discarded' = discarded \ {v}
    /\ UNCHANGED <<category, credited, diskVars, writerVars, zombies, spent>>

\* The command's process dies.
RetryKilled ==
    /\ retries # {} /\ Spend("kill")
    /\ retries' = {} /\ discarded' = {}
    /\ UNCHANGED <<videoVars, diskVars, writerVars, zombies>>

\* check_disk_pause finds the disk full, or with space again.
DiskFull ==
    /\ ~paused /\ Spend("disk")
    /\ paused' = TRUE
    /\ UNCHANGED <<videoVars, archived, file, writerVars, zombies, retryVars>>

DiskRecovers ==
    /\ paused
    /\ paused' = FALSE
    /\ UNCHANGED <<videoVars, archived, file, writerVars, zombies, retryVars, spent>>

\* external: somebody deletes a file.
FileLost(v) ==
    /\ file[v] # "none" /\ Spend("lost")
    /\ file' = [file EXCEPT ![v] = "none"]
    /\ UNCHANGED <<videoVars, archived, paused, writerVars, zombies, retryVars>>

-------------------------------------------------------------------------------
\* What a writer does by itself.
Discovery(w) ==
    \/ \E v \in Ids : DiscoverRead(w, v) \/ NextPending(w, v) \/ UpsertRead(w, v)
    \/ DiscoverInsert(w) \/ SnapshotPending(w) \/ SnapshotPaused(w)
    \/ UpsertInsert(w) \/ EndWork(w)

Download(w) ==
    \/ Pace(w) \/ BeginDownload(w) \/ Adopt(w) \/ AlreadyDownloaded(w)
    \/ FinishDownload(w) \/ RecordArchive(w)

Outcome(w) ==
    \/ Judge(w) \/ PauseForDisk(w)
    \/ PersistDownloaded(w) \/ PersistSkipped(w) \/ PersistIntegrity(w) \/ PersistFailure(w)

Work(w) == Discovery(w) \/ Download(w) \/ Outcome(w)

\* What happens to it.
Fault(w) ==
    \/ TryFallback(w) \/ \E c \in {"transient", "definitive", "local"} : DownloadRaises(w, c)
    \/ Timeout(w) \/ ProbeMissing(w) \/ Interrupt(w) \/ Kill(w)

Retry ==
    \/ RetrySelect \/ RetryKilled
    \/ \E v \in Ids : RetryDiscard(v) \/ RetryReset(v)

Outside ==
    \/ DiskFull \/ DiskRecovers
    \/ \E v \in Ids : FileLost(v)
    \/ \E z \in zombies : ZombieEnds(z)

Next ==
    \/ \E w \in Writers : StartCycle(w) \/ StartRun(w) \/ Work(w) \/ Fault(w)
    \/ Retry
    \/ Outside

Spec == Init /\ [][Next]_vars

\* The heartbeat starts cycles, asyncio resumes coroutines, a download ends or
\* times out, and a full disk is cleaned up.  Nothing makes an operator retry
\* or run a backfill.
Fairness ==
    /\ WF_vars(\E w \in Writers : StartCycle(w))
    /\ \A w \in Writers : WF_vars(Work(w))
    /\ WF_vars(DiskRecovers)

FairSpec == Spec /\ Fairness

-------------------------------------------------------------------------------
(* Properties.                                                             *)

\* The monitor runs or the backfill does, not both.
OneWriter == \A w, u \in Writers : pc[w] # "off" /\ pc[u] # "off" => w = u

\* "the sum over the downloaded videos".
BytesAreTheSum == \A v \in Ids : credited[v] = IF row[v] = "downloaded" THEN 1 ELSE 0

\* total_disk_bytes is that sum (plan 3.1) as long as one of them writes: each
\* downloaded video counts once and no other does, whatever was interrupted or
\* retried.
BytesMatch == OneWriter => BytesAreTheSum

\* A slideshow that was skipped stays in the archive: neither a fallback nor a
\* retry takes it out again, and a crash cannot lose it.
SkippedStaysArchived == OneWriter => \A v \in Ids : row[v] = "skipped" => v \in archived

\* What is downloaded, skipped or definitively failed stays so: no cycle, run
\* or retry processes it again.
TerminalIsFinal ==
    [][OneWriter => \A v \in Ids :
          \/ row[v] \in {"downloaded", "skipped"}
          \/ row[v] = "failed" /\ category[v] = "definitive"
          => row'[v] = row[v]]_vars

\* What is marked downloaded is a video, unless somebody deleted it: no later
\* attempt replaces it by a file without a video stream.  A thread that was
\* abandoned, by a timeout or an interruption, may.
DownloadedIsIntact ==
    OneWriter /\ spent["timeout"] = 0 /\ spent["interrupt"] = 0
        => \A v \in Ids : row[v] = "downloaded" => file[v] # "novideo"

Monitored == \E w \in Writers : w = "monitor" /\ pc[w] # "off"

\* Every video on a monitored page gets a row and an outcome, through crashes
\* between any two steps, lost races for the row and pauses.
EveryVideoSettles ==
    \A v \in Ids : (Monitored /\ row[v] \notin Terminal) ~> (row[v] \in Terminal)

Retried(v) == row[v] = "failed" /\ row'[v] = "pending"

\* Retrying converges: once faults have ceased nobody has to retry for ever.
RetryConverges == \A v \in Ids : <>[][~Retried(v)]_vars

\* "the engine funnel already exhausted DEFAULT_FORMAT and FALLBACK_FORMAT"
\* when a file without a video stream is declared degraded.
FunnelExhausted ==
    \A w \in Writers : pc[w] = "integrity" /\ file[at[w]] = "novideo" => attempt[w] = LastAttempt

\* "a still-writing zombie can never collide with the retry's file".
RetriesDoNotCollide ==
    \A w \in Writers : pc[w] = "thread" => <<w, at[w]>> \notin zombies

\* A missing ffprobe is "an infrastructure failure, not a video failure: it
\* raises ConfigurationError instead of marking the row".
ProbeFailureMarksNothing ==
    [][\A w \in Writers : pc[w] = "failed" /\ cause[w] = "ffprobe" => UNCHANGED row]_vars

=============================================================================
