# tikdown-rs in TLA+

TLA+ modules, TLC configurations and TLAPS proofs for tikdown-rs, the TikTok archiver of this
repository.  Paths without a prefix are below `src/tikdown_rs/`; "plan" is
`specs/Plan de implementacion tikdown-rs.md`; `T-…` are the traps that plan numbers.

## 1. The system

One SQLite database, written by one daemon (an asyncio process) and by any number of short-lived
command-line processes; a Telegram bot inside the daemon issues the same commands.  There are no
locks beyond the database's transactions: every rule about two processes is a conditional `UPDATE`
and its row count.

| component | state | operations | met by |
|---|---|---|---|
| backfill service (`services/backfill.py`) | `backfill_*` columns of `monitored_accounts`, `needs_review`, breaker per account in memory | run, collect, reconcile, pause, transition to monitor | slot, commands, engine, pacer, video outcomes |
| backfill commands (`services/backfill_ops.py`, `cli/backfill.py`) | the same rows | queue, cancel, retry-failed, view, run in the foreground | any process |
| backfill slot (`models/backfill_slot.py`) | one row with an owner | compare-and-set, release by owner | runs, collector |
| daemon (`daemon/run.py`, `core/daemon_state.py`, `core/tasks.py`) | `daemon_state` row, task registry, scheduler | start, reconcile, jobs, drain, stop | everything |
| video outcomes (`services/videos.py`) | `videos` rows, `total_disk_bytes` | verify, rename, persist one terminal state | backfill, monitor |
| monitor (`services/monitor.py`, `monitor_state.py`) | `last_check_at`, `needs_review`, `monitor_running`, new `videos` rows | gates, discover, review, download, start, stop | scheduler, commands |
| pacing (`core/pacing.py`) | `next_allowed_at`, a semaphore | reserve a slot, wait | backfill, monitor |
| archive (`core/archive.py`) | a text file and its staged copy | add, remove, recover | engine, retry-failed |
| engine (`core/download_engine/`) | none | list, download with fallback | backfill, monitor |
| classifier (`core/errors.py`) | none | exception → category | video outcomes, breaker, cookies |
| network monitor, disk guard (`core/network_monitor.py`, `core/disk.py`) | an event, `downloads_paused` | probe, check | collector, loop |
| cookies (`services/cookies.py`) | `cookies` rows | import, remove, validate, choose | gate of a run, engine of the jobs |
| bot (`bot/`) | message history, polling task | dispatch, limit, supervise | daemon |
| maintenance, selfcheck, integrity | backup files, `daemon_state` | back up, prune, probe | scheduler |
| accounts, status, static site, notifications, configuration | rows, pages, messages | edit, view, format | operators |

What is hard here: two processes on the same row with an `await` between the read and the write;
a coroutine cancelled at any `await` (Ctrl-C, drain, shutdown); a process that dies between two
commits; a row that has to be repaired at the next start by code that cannot know who is alive;
a walk of a feed that changes, is interrupted and is resumed from one date; counters and breakers
whose meaning spans several runs.  `PROJECT.json` lists these hazards at their lines with the
properties that watch them.

What makes the components correct, in a line each: at most one run at a time over all processes,
and no account stuck in a state nobody picks up (backfill, slot, daemon); a completed run has done
what it says (backfill, video outcomes); a gap between downloads (pacing); what was archived stays
so until it is removed, and what was removed does not come back (archive); nothing a feed showed is
lost, and a removal leaves no orphans (monitor, accounts); the engine is that of the best cookie,
and one is invalidated only on an answer about it (cookies); a blip stops nothing, and the pause follows the
disk (guards); a daemon stops when it is asked to and only then, cleanly (daemon); polling is
restarted, not doubled (bot supervision); what the bot reports is what happened (bot).

## 2. Modules

| module | what it is | code |
|---|---|---|
| `Backfill` | the life of an account's backfill with all processes that write it | `backfill.py`, `backfill_ops.py`, `backfill_slot.py`, parts of `daemon/run.py` |
| `BackfillQueue` | the abstract promise: a one-at-a-time server | plan 3.5, 9.1 |
| `BackfillProofs` | theorems about `Backfill` | |
| `BackfillFeed` | one account's walk of its feed | `_run_backfill_loop`, `_run_backfill_video`, `videos.py`, `retry_failed` |
| `BackfillFeedProofs` | theorems about `BackfillFeed` | |
| `VideoLifecycle` | the rows of one account's videos with their files, archive entries and bytes | `monitor.py`, `ytdlp_engine.py`, `videos.py`, `retry_failed`, the video part of `backfill.py`, `disk.py` |
| `VideoLifecycleProofs` | theorems about `VideoLifecycle` | |
| `Pacing`, `PacingGate`, `PacingProofs` | the reservation of a download's start; the promise; theorems | `pacing.py`, `download_pacing_state.py` |
| `Archive`, `ArchiveSet`, `ArchiveProofs` | the archive file under threads and processes; the promise; theorems | `archive.py` |
| `BotPolling` | start, supervision and stop of the bot's polling | `bot/supervision.py`, `_start_bot` |
| `Daemon`, `DaemonProofs` | the life of the daemon process, with `BotPolling` in it; theorems | `daemon/run.py`, `daemon_state.py`, `monitor_state.py`, `cli/daemon.py` |
| `Cookies` | rows, choice, validation, and the engine the jobs build | `cookies.py`, `maintenance.py`, `ensure_engine` |
| `Guards` | network monitor and disk check | `network_monitor.py`, `disk.py` |
| `Monitor`, `MonitorProofs` | cycle, profile refresh and account commands, on top of `Cookies` and `Guards`; theorems | `monitor.py`, `maintenance.py`, `accounts.py`, jobs of `daemon/run.py` |
| `Bot`, `BotProofs` | the handling of updates; theorems | `bot/dispatcher.py`, `security.py`, `pagination.py` |
| `MC…` | bounds and histories for TLC | |

Two compositions are made by `EXTENDS`: `Monitor` runs its cycle over the variables of `Cookies` and
`Guards`, and `Daemon` carries `BotPolling`.  The others meet in shared rows and do not include each
other.  `Backfill` treats a video as one step of a run; `BackfillFeed` opens the run: which videos it
comes to and in which order; `VideoLifecycle` opens the step: what happens to one video between
`pending` and its outcome, and adds the second writer, the monitor.  `Monitor` opens that writer, and
treats a download as one step in turn.  What one model keeps constant another one varies: `Monitor`
takes the running daemon for granted that `Daemon` starts and stops, and `Daemon` a cycle that ends.

### Backfill

One variable per column (`status`, `reason`, `review`, `mode`, `thenMonitor`, each a function of
the account), one for the slot's owner, the two `daemon_state` flags that backfills read or write,
the daemon's network flag, the phase of the daemon, the collect job's snapshot (`seen`,
`collected`), and per process `pc`, `on` (its account), `left` (entries not visited) and `cause`.

A step is one database transaction, or one suspension point where a process may be overtaken.
`queue` and `cancel` are two steps each because the code opens two sessions; what was read before
an `await` and is used after it is kept (`seen`, `cause`, `pc`).  The `pc` of a run names the place
in `run_backfill`: the gates before the `try`, the body, the handlers, the `finally`.
`Interrupted` says where a `CancelledError` goes from each of them; it is used by Ctrl-C and by
the drain alike.  A crash keeps the database and drops everything else.

| actions | code |
|---|---|
| `QueueRead/Write`, `CancelRead/Write` | `queue_backfill`, `cancel_backfill` |
| `NoCookie`, `AcquireSlot`, `EnterTry`, `CheckQueued`, `MarkBackfilling` | gates 1–3, `_mark_backfilling` |
| `ListFeed`, `PersistTotal`, `LoopHead`, `PauseForNetwork`, `RunVideo`, `BreakerTrips`, `PauseForBreaker`, `PersistProgress` | preparation and loop |
| `Finish`, `Transition` | the two transactions of `_finalize_backfill` |
| `RunCrashes`, `UnwedgeCrashed`, `ReadCause`, `Unwind`, `ReleaseSlot`, `Interrupt`, `Kill` | handlers, `finally`, signals |
| `Collect…` | `collect_queued_backfills`, `_backfill_collect_job` |
| `DaemonRegister`, `ReconcileTransitions`, `ReconcileStale`, `StopDaemon`, `DaemonStopped`, `CrashDaemon` | `start_daemon`, `shutdown_daemon` |

Left out: events and logs; pacing and downloads (a video is one step); `accounts.paused`, which
the breaker also sets and only the monitor reads; removal of accounts (a run whose row vanishes
raises a `ConfigurationError` that the handlers deliberately do not repair).

### BackfillFeed

One run at a time (justified by `Exclusion`, which is proved), so the run is one process.  Videos
are numbered by publication; `Day` gives each its `upload_date`, 0 for none; a listing is
`listed, …, 1` and `next` the entry the loop is at.  `scope` and `moving` are the two cursors of
9.2, `counted` the local counter, `fresh` the code's `new_transition`, `streak` the breaker.
An interruption is one step with the repair of the row (handler or restart), because nothing can
happen in between that the walk would notice.

### VideoLifecycle

Two writers, the monitor cycle and a backfill run, walk over the account's videos; a writer may be
`off` for a whole history, so that what is claimed of one writer (`OneWriter`) and what holds with both
are properties of one model.  The monitor
lists (`DiscoverRead`, `DiscoverInsert`: two sessions), then reads all pending rows at once
(`SnapshotPending`) and works through that snapshot; the backfill reads a row when its turn comes
(`UpsertRead`, `UpsertInsert`).  Both go through the same download and the same verdict:

| actions | code |
|---|---|
| `Pace` | `pacer.acquire()` and the semaphore, a wait of any length |
| `BeginDownload`, `FinishDownload`, `RecordArchive`, `TryFallback`, `DownloadRaises`, `Timeout` | `YtDlpEngine.download`; the native thread survives a timeout as a member of `zombies` |
| `Adopt`, `AlreadyDownloaded` | `_resolve_downloaded_path` after yt-dlp skipped |
| `Judge`, `ProbeMissing` | `_verify_integrity` and the branches of `handle_download_result`, archive included |
| `Persist…` with `Settle`, `PauseForDisk` | `_persist_terminal` with the bytes in the same commit, `persist_download_failure` |
| `RetrySelect`, `RetryDiscard`, `RetryReset` | `retry_failed`: one query, then file and row of each |
| `Interrupt`, `Kill`, `RetryKilled`, `DiskFull`, `DiskRecovers`, `FileLost` | cancellation, crash, disk guard, the outside |

yt-dlp is external: it skips what its archive names or what is on disk, replaces the final file when
it is done, and appends to the archive after that.  What the file is worth is one of `none`, `video`
and `novideo` (no video stream).  Two threads that write the same partial file may leave either.

Left out: the state of the account and its breaker (a run that ends early is an interruption), the
order of the listing, cookies, the `.retry-N` names (no caller asks for one).

### Pacing

The clock counts half milliseconds, because the slot is stored as text cut to milliseconds while the
reader compares with the uncut time.  `nextAllowed` is the row; each caller has the time it read
(`now`) and the slot it saw (`current`) between its steps.

| actions | code |
|---|---|
| `ReadClock`, `ReadSlot`, `Claim` | `reserve_next_slot`: time before the session, busy path, conditional write with a draw |
| `Wake` | `acquire`'s loop and its longest single sleep |
| `EnterSemaphore`, `LeaveSemaphore` | the semaphore of the process, taken by the callers after `acquire` |
| `Break`, `SetBack`, `Tick` | cancellation, killed process, clock |

`PacingGate` knows only the instant of the last reservation and that the next is at least `MinGap`
later; `Pacing` implements it with `last <- granted`.

### Archive

A name leads to an inode, an open file to the inode it opened: the rewrite in place and the appends
of yt-dlp's threads, which `archive.py` is built around, differ only there.  Every `open`, `write`,
`unlink` and `replace` is a step, and a process may die between any two.

| actions | code |
|---|---|
| `AddOpen`, `AddWrite` | `add`, and yt-dlp's own record |
| `RemoveRead`, `StageOpen`, `StageWrite`, `RewriteOpen`, `RewriteWrite`, `Unlink` | `remove` |
| `Construct`, `Die` | `__init__` with its recovery; the end of a process |

`manner` says what callers do: take turns, append during removals, or anything.  The code does not
restrict them; the properties say what holds under which manner.

### Daemon and BotPolling

`phase` is where the lifecycle coroutine is, one value for each step of `start_daemon` and
`shutdown_daemon`; `row` is the singleton row.  The heartbeat is four steps (fire, write, read,
launch), and so is a command (read, write).  `LockedOut` and `WatcherDies` are a database that stays
locked through all retries.

The shutdown cancels the jobs of the scheduler but waits for none of them.  What that does to a beat in
flight is a choice: `BeatCancelled` ends it, before or after its commit; with `BeatIgnoresCancel` it is
wedged in the driver, goes on beside the shutdown and may still write (`outlived`), which the comment at
`daemon/run.py:811` says can happen.

| actions | code |
|---|---|
| `ClearInheritedStopFlag` … `Schedule` | `start_daemon` in its order |
| `Signal`, `WatcherPolls`, `WatcherDies` | signal handlers, `_watch_stop_requested` |
| `BeginShutdown` … `Dispose` | `shutdown_daemon`: scheduler, last event, drain, bot, row, engine |
| `BeatFires` … `BeatLaunches`, `CycleEnds`, `CycleStopsMonitor` | `_heartbeat_job` and the cycle task |
| `DaemonStop…`, `StartMonitor…`, `StopMonitor…` | `daemon stop`, `monitor start`, `monitor stop` |
| `StartupStage`, `TeardownStage` | `start_bot_polling`, `stop_bot_polling`, clean-up of a failed start |
| `SupervisorWakes`, `Check…`, `Restart…`, `SupervisorCancelled` | `BotSupervisor` |

A stage of the bot is awaited under a deadline: it returns, is refused by the library (`Accepts` says
when), gets no answer, or times out although it took effect.  `spoiled` remembers what a stage of a
stop failed to stop.  The jobs that write other rows are in `Backfill` and `Monitor`.

### Cookies, Guards and Monitor

A cookie is `[file, state]` under its id; ids are reused as SQLite does without AUTOINCREMENT.
`recent` is the order of `last_validated_at`.  The two validators (job and command) run the three
steps of `validate_cookie` over a list of ids read at the start.  `held` is what a job's
`ensure_engine` has read and not yet applied.  TikTok may end a session (`expired`), and a profile that
the operator named as a probe may go (`probes`): both make a probe fail definitively, and `refused`
remembers with which session, and for which row, that happened.

Accounts are rows under ids as well, `[name, mode, paused, review, check]`, and `NextId` gives their ids
out again like those of cookies.  A cycle keeps usernames and looks their ids up (`Named`); a listing, a
refresh and a backfill keep an id while they wait.  `owners` is the history of who had which id, and
`Shared(i)` says that accounts of two names had it.

| actions | code |
|---|---|
| `EnsureReads`, `EngineApply` | `ensure_engine`; `HeartbeatLaunches`, `CollectEnsured`, `ValidateEnsured`, `RefreshBegins` are what each job goes on with |
| `BatchReads`, `ReadBlob`, `Probe`, `WriteVerdict` | `validate_all_cookies`, `validate_cookie` |
| `CookieGate`, `FlagGate`, `SelectAccounts`, `TurnBegins` | `run_monitor_cycle_once`, and the throttle of a check |
| `Listing…`, `LookUp`, `Insert`, `TouchLastCheck`, `MarkReview` | `discover_new_videos` |
| `TurnCookieGate`, `TurnFlagGate`, `SelectPendings`, `Download`, `DiskFull…` | `download_pendings` |
| `PageLoads`, `PageFails`, `ProfileWritten` | `refresh_all_profiles` |
| `AddAccount`, `SetPaused`, `RemoveCounts`, `RemoveDeletes` | `accounts.py` |
| `ProbeAnswered`, `ProbeFails`, `CheckReads…`, `CheckWrites`, `ManualResume` | `network_monitor.py`, `disk.py`, `system resume` |

A turn that raises (a row that vanished, an `IntegrityError`) ends and the next account follows, as
the cycle's own `except` does; `TurnEnds` is that and the regular end.  Left out: counters and dates
of a row that only views show, and what the failure of a download is (`VideoLifecycle`).

### Bot

One update is in hand at a time (the application processes them in sequence).  `h` holds the
handler's locals and, as history, what reached Telegram.  Time is the age of things: of the last
accepted update, of a user's attempts, of the buttons on the screen.  A call of Telegram that raises
may have reached it all the same.

| actions | code |
|---|---|
| `Check` | `SecurityGuard.check`, `_record_unauthorized` |
| `Command`, `PressNext`, `PressOld` | the handlers, `_handle_command`, `on_list_page` |
| `Delivered`, `MarkupRejected`, `SendFails`, `Raised` | `_reply`, `_send_degrading`, the two `except` branches |
| `ServiceDone`, `ServiceRefuses`, `ServiceFails`, `LookUpAccount` | the calls of the services |
| `GetFile` … `DeleteFails` | `on_cookie_document` |
| `ReadPage`, `Rendered`, `Answers` | `render_list_page`, `build_list_keyboard`, the answer of a callback |

## 3. Runs

Bounds are on outside events only (`Limit`), never on the steps of the code.

| run | question | bounds |
|---|---|---|
| `backfill_safety` | one run at a time; a cancel is final | 2 accounts, 2 tasks, 1 session; 2 commands, 1 each of fault, stop, crash, Ctrl-C and kill; interruptions in handlers too |
| `backfill_orphans` | no orphaned row, and the refinement to `BackfillQueue` | the same, without kills and with an outage or full disk; handlers not interrupted |
| `backfill_live` | the queue is served, pauses end, no row stays `backfilling`, no transition is lost | four histories: 2 commands and 2 condition changes; 2 commands and a fault; one of each; 2 commands, a stop and a crash |
| `feed_walk` | what a completed run covered; cursor and counter | 4 videos (one undated, two of a day), threshold 2, 2 commands, 1 each of retry, outage, stop |
| `videos` | rows, bytes, archive and files agree and outcomes are final (one writer); every video gets an outcome; retrying converges | a video and a slideshow, retry-failed beside the writers; four histories, below |
| `pacing_gate` | the gap between reservations; nobody spins | 3 callers in 2 processes, gaps of 1 to 1.5 ms, 4 ticks, a clock set back once, a break |
| `archive_file` | entries survive; the refinement to `ArchiveSet` | 2 ids, 2 threads and a command, 4 lines, 3 starts, 6 inodes |
| `daemon_life` | stops, clean rows, the bot's polling, a monitor that goes on | 2 starts; 3 troubles, an outage of Telegram counting two (any of: signal, crash, lock, 2 changes of cookies, stop, 2 of monitor start and stop, selfcheck, a failing stage) |
| `monitor` | cookies, engine, feeds, guards and commands together | seven histories, below; listings of 2 entries |
| `monitor_rotation`, `monitor_probe` | section 5 | as `monitor` |
| `bot` | who is throttled, what is reported, what is left behind, what pages show | three histories: callers (2 users, 3 attempts each); commands (accounts 1 and 2, 2 failing calls); pages (up to 5 accounts in pages of 2, 1 failing call); one change by another process |

A history is chosen at the start (`profile` in the MC modules) and leaves some kinds of events out,
so that the others can be bounded more generously; the code's own steps are never bounded.  Those of
`monitor`: *cookies* (2 files, a removal, both validators, a session that ends or a probe that goes),
*engines* (the same store, with the collect job), *accounts* (2 videos of one account, 2 commands on
accounts, so that one is removed and another gets its id, a row stored by a backfill, a start and stop),
*profiles* (2 commands on accounts, one account that never loads), *disk* (a full disk in a download, a
resume, the check), *network* (probes with threshold 2, a failed listing), *rotation* (a removal and an
addition while the cycle and the jobs run).  Those of `videos`: *slow* (the monitor alone; 2 errors, 1
each of degraded response, timeout, interruption and kill), *short* (the monitor alone; 1 each of error,
degraded response, full disk, missing ffprobe, interruption and kill), *alone* (the monitor alone among
faults a retry can repair: 2 errors, 1 each of kill, full disk, deleted file, missing ffprobe), *both*
(monitor and backfill; an error and a kill).

Every component also states its type invariant, `TypeOK`, and some state smaller properties beside
it: `StreakIsConsecutive` (the breaker), `SlotOfLastGrant`, `RemovedStaysGone` (what `ImplementsSet`
means for a retry), `OneReply`, `OneAnswer`, `BurstIsCounted` and `ShownIsThere` (the bot), and
`EngineIsFoundCookie` (the monitor).  They hold in the configurations above, to which they can be added
line by line; all of these, and all type invariants, are also proved (section 4).

Two accounts, two tasks and a session are enough for each pair of roles to meet: two runs of one
account, runs of two accounts, a run and the collector, a run and a command, a run and the
reconciliation.  One entry per feed visits every place of the loop, the early exits included; what
a longer feed adds is `BackfillFeed`'s subject.  Four videos give a cursor with entries newer than
it, on its day, undated and older.  One video and one slideshow reach every verdict of
`handle_download_result`; two errors exhaust the format chain.  `DaemonRuns` is a symmetry set in the safety runs only.

Two threads and a command meet in `Archive` in every pair; two lines of one id and one of another show
what a rewrite loses.  Three callers are a winner, a loser and one that comes later.  Two starts of
the daemon show what the first leaves to the second.  Five accounts in pages of two make a last page
that is not full and vanishes by one removal.  A listing of two entries has a rest: an insert that fails
on the first loses the second.  One account at the start, with two commands, is removed and followed by
another under its id.

`feed_walk`, `pacing_gate`, `archive_file`, `daemon_life` and `monitor` do not check deadlock: a feed
that is walked to its end with no operator left to act, a clock at its horizon, a spent number of
lines or starts, a daemon that is down, and a profile without events may all rest.

**Fairness** (`FairSpec`).  Each run and session that has begun goes on (asyncio schedules its
tasks; a listing and a download have timeouts); the collect job fires and finishes (interval job);
a startup or a drain that has begun goes on.  Nothing makes an operator act, a fault occur or a
network return, and nothing in the code starts a daemon that is down: `docker-compose.yml` says
`restart: on-failure`, so a crash is repaired and a clean stop is not.  The liveness properties are
therefore about histories in which the daemon keeps being started (`KeepsRunning`), and that of
pauses also assumes that the cause is gone for good.  `SlowBeat` says that two beats of the
collector are not shorter than the gates of a task (60 s against milliseconds); without it the
collector could for ever probe while its own task asks, and only `backfill_live` uses it.

A crash of the daemon with the slot taken blocks the queue for good (section 5), so `QueuedStarts`
is checked without crashes (`QueuedStartsUncrashed`) and does not hold with them.

`VideoLifecycle` assumes that the heartbeat starts cycles, that a writer goes on (its waits and its
downloads are bounded) and that a full disk is cleaned up some day (`WF` of `DiskRecovers`, since the
monitor does nothing while it is full); not that anybody retries or runs a backfill.

`Daemon` assumes that the event loop runs what is ready, that every await of the lifecycle and of the
bot ends (each has a deadline), that jobs fire and intervals pass; not that anybody starts a daemon,
finishes a command or brings Telegram back.  `Monitor` assumes the same of its jobs and of a cycle
that has begun, and *strong* fairness of one thing: a heartbeat that may launch a cycle again and
again does so in the end.  It has to be strong because a cycle that is running, or a missing engine,
closes the gate in between; the heartbeat is tried every minute whatever the others do, so it cannot
miss the open gate for ever.  `MCMonitor` and `MCDaemon` state the same fairness for the steps within
their bounds.  `Pacing`, `Archive` and `Bot` have no liveness properties: the first two promise what
their callers rest on, and an update in hand ends by the deadlines of the library.

## 4. Proofs

Assumptions: the `…Assumption` of each module (owner values distinct, accounts are numbers, dates do
not decrease with publication, one or two formats, the minimum of the cooldown not above its maximum
and in whole milliseconds, a positive threshold, an inode for each process and name that can be in use
at once), which TLC evaluates in every run.  Everything else is for any number of accounts, processes,
entries, callers and outside events.  Every safety property that a passing run checks is stated by a
theorem.

`BackfillProofs`

* `TypeCorrect`.  Inductive: `TypeOK` with `Placed`, which places a run can be at (an operator's
  command places only for sessions, an account for each run that is not idle).
* `Exclusion` (`Spec => []SlotExclusion`).  `SlotExclusion` is inductive with `TypeInv`: every step
  into the holding places finds the slot free, every release is by the owner.
* `SlotGuardsRow`, for handlers that are not interrupted.  The strengthening `SettledRows` says that
  a run about to release the slot, or not yet past `_mark_backfilling`, has no `backfilling` row of
  its own: without it the release would break the invariant.  With interrupted handlers it is false.
* `ImplementsQueue`: every step of `Backfill` maps to a step of `BackfillQueue` or a stutter, by
  `SlotGuardsRow` (a `Begin` finds no other account `backfilling`).  `ReconcileStale` is the one that
  needs the argument: it may requeue all rows at once, but there is at most one.
* `CancelIsFinal`: by cases, each status write but the two commands' is guarded by `backfilling`,
  `queued` or `paused`.
* `NoWedgedRow`, for handlers that are not interrupted and no killed foreground process.

`BackfillFeedProofs`

* `FeedTypeCorrect`, with `AtEntry`: past the loop's head there is an entry at hand.
* `CompletedMeansCovered` (`CompletionCovers` for any feed).  The inductive `Walked`: while the row
  is still the run's, every entry behind the loop has an outcome, the one in hand has one once the
  download is over, and the loop is left only at the end or at the boundary.  "While the row is
  still the run's" is essential: after a cancel the loop may skip an entry in an outage.  Once the
  row is not the run's it never is again, and a completion is guarded by it.
* `CursorIsReached`: the persisted cursor and the run's copy of it are dates of settled videos.
* `ProgressIsEarned` (`DoneWithinOutcomes`): `CountInv` compares the counter with the cardinality of
  the set of videos that have an outcome.  An outcome joins the set before it is counted, so between
  the two the counter is one less than allowed; a download is only of a video without an outcome, and
  an entry that has one already is not `fresh`, so a walk over it counts nothing.  A retry takes one
  from the set, which `spent["retry"]` makes good.
* `StreaksAreEarned` (`StreakIsConsecutive`): by `StreakInv` the streak is at most the number of videos
  that have failed for good.  Each that is counted is new among them: it had no outcome when it was
  downloaded, and no retry selects it.

`VideoLifecycleProofs`

* `TypeCorrect`, for both writers.
* `OneWriterBytes`, `OneWriterArchive`, `OneWriterFinal`: in every history with one writer, whatever
  fails, `BytesMatch`, `SkippedStaysArchived` and `TerminalIsFinal` hold.  The inductive `Inv` says that
  the video in hand, and every row of the monitor's snapshot, is still `pending` (`HandOK`,
  `SnapshotOK`), and what a row says of its bytes, its archive entry and the retry command's selection
  (`RowOK`).  Each conjunct is needed: the bytes are right because a row is credited only in hand, the
  archive entry of a slideshow survives because a retry selects failed rows only, and so on.  `SoleInv`
  claims `Inv` of the histories with one writer, which no step leaves or enters (`SameWriters`): with
  both writers `SnapshotOK` fails, and `Videos_bytes` is what follows.
* `OneWriterFiles` (`DownloadedIsIntact`), from `FilesInv` on top of `Inv`: as long as no thread was
  abandoned nobody writes behind the writer's back, and only the file of a pending row changes.

`PacingProofs`, on `PacerInv`: the type invariant; the slot is between `MinGap` and `MaxGap` after the
last reservation (`SlotOfLastGrant`); a caller about to claim has seen a slot that was due at the time
it holds.

* `TypeCorrect`, `SlotIsLastGrants`.
* `ReservationsSpaced`: a claim succeeds only if the slot is not after the cut time of the caller, and
  the slot is at least `MinGap` after the last grant; cutting is monotone and `MinGap` is whole
  milliseconds, so the new grant is `MinGap` later, however stale the time is.
* `LosersLostToSomebody`: were the slot still the one that was read, the claim would have succeeded,
  because a slot is whole milliseconds and `slot <= now` implies `slot <= cut(now)`.

`DaemonProofs`, on `StopInv`: what each phase has already cleared.

* `StopsAreAskedFor`: past `ClearInheritedStopFlag` the flag is set only if `asked`.
* `CleanStopClearsRow`: from `BeginShutdown` on no beat is in flight but one that ignored its
  cancellation (`outlived`, which the property excepts), so nothing writes the row between `ClearRuntime`
  and the end.  Without the exception it is false (`NoWriteRaced`, section 5).
* `StoppedBotStaysDown` (`BotStaysDown`), from `BotInv`: who drives the bot fits the phase
  (`DriverOK`), each stage of a teardown that is behind has stopped its part or is among `spoiled`
  (`StoppedSoFar`), and a bot that nobody drives past the drain is down (`DownWhenAlone`).  The drain
  ends the only other task that starts the bot before its teardown begins.
* `DaemonTypeCorrect`, from the types with one fact more: a pid is the number of the start.

`ArchiveProofs`, for any ids, threads, lines and processes, assuming that no process dies while its
staged copy is empty (`~TornStaging`; the recovery publishes that empty copy otherwise, see `Archive_torn`).  `remove`
keeps lines by a loop, so the facts about it (`WithoutIsLoop`, `WithoutKeepsOthers`) are inductions,
made from the well-foundedness of `<` in set form (`InductionUpTo`), which needs no operator.

* `SettledAreKept` (`SettledSurvive`), from `ArchiveInv`: unless the manner is "any", one worker removes
  at a time (`OneRemoval`) and, in turns, one works at all (`OneCall`); archive and copy are different
  files, and both are there when the removal needs them (`Names`); who has a file open has the right
  one (`Opened`); and at each step of a removal all that is settled is in a file that counts or in the
  lines the removal holds (`Held`).  Between the cut of the rewrite and its write it is in the staged
  copy, which a recovery publishes.
* `RemovedAreGone` (`RemovedStaysGone`), from `GoneInv` on top: an id that was removed, and not added
  since, is in neither file nor in what a removal keeps; and what a rewritten archive holds beside the
  kept lines was added since.
* `ArchiveIsASet` (`ImplementsSet`): for callers that take turns every step maps to a step of
  `ArchiveSet` or a stutter; `Exact` says what the files contain at each step of a removal.

`MonitorProofs`, separate inductions, each with a lemma that all other actions leave its
variables alone:

* `BlipsAreHarmless`: the monitor's counter is the number of failures in a row, and a cleared event
  has had `Threshold` of them.
* `RemovalsRespectVideos` and `ChecksAreComplete`, from `ListInv`: every row has its account, a listing
  in progress keeps an id that the account of its turn had, and, while it is being stored, every entry
  that is not among those still to come is on record.  The last needs the order of the loop (`NextEntry`
  takes out only what was found or inserted), and that rows are never deleted.  Both properties except an
  id that accounts of two names had (`Shared`); without that they are false (section 5).
* `VerdictsAreAnswers` (`InvalidWasAnswered`), from `VerdictInv`: a verdict "invalid" in hand is among
  the answers (`refused`) with the session that was read; and between the reading of a session and the
  verdict the row under its id still holds that session, or the id has been given out again.
* `MonitorTypeCorrect`, from five parts, each inductive by itself (`GuardsTypeOK`, `RowsKnown`,
  `FeedKnown`, `CookiesTyped`, `SpentTyped`), and `ListInv`.  The store needs most: a new id is at most
  the number of files imported so far (`NextIdNext`), and the order of validation keeps each row at most
  once (`ForgottenLacks`, on sequences without an element).
* `WorkingCookieIsBest` (`BestCookie`): valid rows first, then by the time of validation, then by id, is
  a total order of the usable rows, so the choice is determined (`BestExists`, by the least position and
  the least id).
* `EngineIsTheFound` (`EngineIsFoundCookie`), from `HoldInv`: what the jobs and the engine hold under
  one id is one session, and that of the row if it is still there, unless the id was given out again.
  This is the exact extent of what `monitor_rotation` refutes (section 5).

`BotProofs`, inductions on top of `BotInv`: the shape of the update in hand (without it nothing is known
of a record updated with EXCEPT), the two ages, and where a temporary file may exist.

* `CookieFilesHandled`: a file exists only between its download and the step that ends its use, where
  the handler has not yet failed (`final`), and a message is deleted only from `delete`, past the store.
* `ThrottleBelongsToAllowed`: the age the guard compares is that of the last accepted update, because
  an update and a tick change both alike, and a denied update neither.
* `ReportsAreTrue`, from `Reports`: whatever has been said, and the reply in hand, is true of what has
  happened by now; a handler that can still change something has said nothing; and only a failing send
  may put an apology after the change.

* `WalkSeesAll` (`WalkShowsAll`), from `WalkInv`: what a walk has seen is the beginning of the list up
  to the page on the screen.  It rests on `ListIsComplete` (the list has every account once, in the
  order of the ids, by `RankGrows`) and on the arithmetic of pages (`PagesCover`: the pages are
  consecutive intervals and the last one ends with the list).
* `CommandsAreReplied` (`OneReply`) and `PressesAreAnswered` (`OneAnswer`), from `Course`: for each
  place of a handler, how much has been said and answered when it is reached.
* `PressesStayInList` (`ShownIsThere`): the page that is read is cut to the number of pages of the list
  as it is now, and each page up to the last has an account.

* `BurstsAreCounted` (`BurstIsCounted`), from `TallyInv`: the history of the attempts within the window is
  what `Recent` keeps of the record.  The record is cut when its user tries again, the history at each
  tick; that this comes to the same (`RecentIsStable`: cutting twice is cutting once, and what is too old
  stays too old) is an induction over the sequence, in the set form the library allows (`SequencesUpTo`).
* `BotTypeCorrect`, from the parts above and three more: no more is said and answered than a handler
  can, by the place it is at (`Measured`), only an upload has a file (`UploadsOnly`), and a page is
  numbered within the list it was cut from (`PagesNumbered`).

Only model-checked: every liveness property, which needs fairness and ENABLED.  What violation runs
refute is refuted by TLC.

## 5. What the code does not do as documented

`monitor_rotation` is checked to fail: after a cookie is removed and another added between two calls of
`ensure_engine`, the new row has the old id, and the engine keeps the removed session until the daemon
restarts (`daemon/run.py:268`, `models/cookie.py:24`, against the docstring at `daemon/run.py:258`).
`monitor_probe` is another: a profile that was named as a probe is deleted, the probe fails with a 404,
which the classifier calls definitive like a refused session (`core/errors.py:78`), and
`validate_cookie` asks for no more (`cookies.py:134`): a cookie whose session is good becomes `invalid`,
and, if it was the only one, the monitor stops.  "Only an auth-CONFIRMED failure [...] is a verdict", "a
broken probe never invalidates cookies" (`cookies.py:103`, `:109`); the plan holds it for "imposible por
diseño" (plan:1361) and has it as T-COOKIES-3 (plan:1705).  What the code does keep is
`InvalidWasAnswered`.  `PROJECT.json` quotes the lines of both.

Each of the following is also false in these models, and is stated by a comment, a docstring or the
plan.  Definition and configuration are kept beside the runs: `tlc -config <cfg> <MC module>` shows the
trace in seconds, and `-workers 1 -continue` those of all properties of a configuration that has
several.

| configuration | property | the repository says | the code does |
|---|---|---|---|
| `Backfill_slotleak` | `DeadOwnerFreed` | startup frees a slot "propiedad de un proceso ya muerto" (plan:1368) | nothing frees it; the queue is blocked |
| `Backfill_requeue` | `QueueRefusesRunning` | "A 'backfilling' account is REFUSED" (`backfill_ops.py:56`) | reads and writes in two transactions |
| `Backfill_claims` | `CancelRefusesTerminal` | "Terminal states are refused" (`backfill_ops.py:91`) | the same |
| `Backfill_claims` | `ReconcileOnlyOrphans` | "Requeue orphaned 'backfilling' rows" (`backfill.py:306`) | requeues live foreground runs too |
| `Backfill_claims` | `CompletionMovesToMonitor` | "in the same commit as completion" (`backfill.py:277`) | a second transaction |
| `Backfill_review` | `ReviewWaits` | a breaker pause "waits for MANUAL review -- never collected" (`backfill.py:363`) | the collector's write checks the status only, and may resume a breaker pause that replaced the pause it read |
| `Feed_claims` | `ResumeCovers` | "Reanudable por diseño" (plan:842) | a resumed history is completed without its older part |
| `Feed_claims` | `DoneCountsOutcomes` | `backfill_done` counts every terminal video (plan:854) | misses one after an interruption or at the breaker |
| `Videos_bytes` | `BytesAreTheSum` (both writers) | the sum over downloaded videos (plan:247) | a video settled by both is added twice |
| `Videos_churn` | `RetryConverges` with a degraded response | "a retry converges instead of churning" (`ytdlp_engine.py:251`) | the file without a video stream is adopted for ever |
| `Videos_claims` | `FunnelExhausted` | "the engine funnel already exhausted" both formats (`videos.py:415`) | only an exception leads to the second |
| `Videos_claims` | `RetriesDoNotCollide` | "a still-writing zombie can never collide" (`ytdlp_engine.py:197`) | every caller uses retry index 0 |
| `Videos_claims` | `ProbeFailureMarksNothing` | a missing ffprobe is "not a video failure" (`videos.py:279`) | callers catch it and mark the row failed |
| `Pacing_starts` | `StartsSpaced` | "Single gate every download trigger must pass before starting a download" (`pacing.py:42`; plan:1689) | the reservation is spaced, the start waits for the semaphore after it |
| `Archive_torn` | `LeftoverHoldsKept` | the leftover copy "holds the kept content" (`archive.py:35`) | a process that dies before the copy is written leaves it empty, and the recovery publishes that |
| `Archive_appends` | `AppendsSurvive` | rewriting in place does not discard "appends that land between the read and the swap" (`archive.py:76`) | it cuts the file to what it had read |
| `Daemon_claims` | `NoWriteRaced` | "shutdown no longer races an in-flight DB write" (`run.py:815`) | a beat that is wedged in the driver ignores its cancellation and writes the pid back; the same comment says so (`:811`) and leaves a "residual stop-window race" (`:818`) that the ledgers keep open (`odd/tasks/m4-daemon.md:22`, M19 in `odd/tasks/m6-operacion.md:205`) |
| `Monitor_claims` | `VideosAreOwn` | "List one account feed and INSERT a pending row per new video" (`monitor.py:136`), `account_id` being the account (plan:256) | an id is given out again (`models/monitored_account.py:44`, no AUTOINCREMENT); a listing that began before stores its videos under the new account |
| `Monitor_claims` | `ChecksAreOwn` | `last_check_at` is "updated ONLY on a completed check" (`monitor.py:144`) | the same listing marks the new account as checked |
| `Daemon_claims` | `StoppedIsTold` | "emit BEFORE the drain so shutdown observers see it" (`run.py:805`) | the drain cancels the task that would send it |
| `Daemon_claims` | `CounterKeptWhileDown` | "the failure counter is NOT reset while the bot is down" (`supervision.py:18`) | a `getMe` that is answered resets it, and is answered while polling is down |

`ResumeCovers` is what limits `CompletionCovers`: a run covers its listing only down to the cursor *it
started from*, which holds and is proved.

Met while modelling, and excepted by the properties where they would matter: a verdict may be written to
a row that was given the id of the one probed; a stop is not seen any more once its watcher has died of a lock; `daemon
stop` reports success against the pid a crashed daemon left; a second daemon clears the stop flag meant
for the first; a cycle without a cookie switches the monitor off even if it was switched on again since
(`monitor.py:376`); the pause of a full disk does not stop the batch that found it, only the next;
no command clears `needs_review`.

## 6. Not modelled, and what is left

In the plan, in this order:

1. Proofs of what no run states yet and needs no fairness: that a turn downloads only videos of its own
   account, and that a refresh skips an account only for its page.
2. `create_backup`: the snapshot and its retention, by name and by age (`maintenance.py:183`), as a pure
   operator against a reference definition.
3. The recovery of `Archive` in a second process during a removal, with the calls that the commands
   actually make.

Not planned, and why:

* Formatting of messages, views, statistics and the static site: they read rows and write text that no
  component reads back.
* Configuration, argument parsing, logging, the parser of cookie files and the marker tables of the
  classifier: data, without states; the tests enumerate them.
* Migrations and connection settings: DDL, and a lock of SQLite that is external; a locked database is an
  event of `Daemon`.
* The integrity probe of files (`integrity.py`, `verify.py`): a call of ffprobe, whose answers
  `VideoLifecycle` takes as input.
* yt-dlp, Telegram, SQLite and the scheduler: external, modelled by how the code uses them.
* `backoff.py`: nothing calls it.
