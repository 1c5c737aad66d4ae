------------------------------- MODULE Backfill -------------------------------
(***************************************************************************)
(* The life of a history backfill: the backfill_* columns of               *)
(* monitored_accounts, the cross-process backfill_slot row, and every      *)
(* process that writes them (src/tikdown_rs/services/backfill.py,          *)
(* services/backfill_ops.py, models/backfill_slot.py, the collect job and  *)
(* the startup/shutdown sequence of daemon/run.py).                        *)
(*                                                                         *)
(* Actors: the daemon's startup and shutdown sequence; its collect job;    *)
(* the supervised run_backfill tasks the job launches (DaemonRuns); and    *)
(* operator sessions (CliRuns), each of them one CLI process or bot        *)
(* command that may queue, cancel, or run a backfill in the foreground.    *)
(* Each database transaction is one step; everything the code reads before *)
(* an await and uses after it is kept in a variable of the reader.         *)
(*                                                                         *)
(* Abstracted: the feed itself (an entry count, see BackfillFeed for the   *)
(* cursor, the counters and the breaker), events and logging.              *)
(***************************************************************************)
EXTENDS Naturals, FiniteSets

CONSTANTS
    Accounts,     \* account ids (monitored_accounts.id); collect walks them in order
    Flagged,      \* the accounts added with --then-monitor
    DaemonRuns,   \* supervised run_backfill tasks of the daemon
    CliRuns,      \* operator sessions: CLI processes, bot commands
    MaxEntries,   \* bound: longest feed a listing returns
    NoOwner,      \* owner IS NULL; also "no account" for an idle run
    CollectOwner, \* the owner string 'collect' of the probe
    Autostart,    \* settings.monitor_autostart
    SlowBeat,     \* TRUE: a 60 s beat never finds a task still at its gates
    DoubleFaults, \* TRUE: an interruption may hit an exception handler too
    Limit         \* bounds: how often each kind of outside event happens

Kinds == {"cmd", "fault", "env", "stop", "crash", "ctrlc", "kill"}

ASSUME BackfillAssumption ==
    /\ Accounts \subseteq Nat
    /\ NoOwner \notin Accounts
    /\ CollectOwner \notin Accounts
    /\ NoOwner # CollectOwner
    /\ Flagged \subseteq Accounts
    /\ DaemonRuns \cap CliRuns = {}
    /\ MaxEntries \in Nat
    /\ Autostart \in BOOLEAN
    /\ SlowBeat \in BOOLEAN
    /\ DoubleFaults \in BOOLEAN
    /\ Limit \in [Kinds -> Nat]

Runs == DaemonRuns \cup CliRuns

\* The slot's owner string 'backfill:<id>' is the account id itself.
Owners == Accounts \cup {NoOwner, CollectOwner}

Statuses == {"idle", "queued", "backfilling", "paused", "completed", "failed", "cancelled"}
Reasons == {"none", "disk", "network"}
Terminal == {"completed", "failed"}

VARIABLES
    status,         \* backfill_status of each account
    reason,         \* backfill_pause_reason
    review,         \* needs_review
    mode,           \* 'history' or 'monitor'
    thenMonitor,    \* monitor_after_backfill
    slot,           \* backfill_slot.owner
    monitorRunning, \* daemon_state.monitor_running
    diskPaused,     \* daemon_state.downloads_paused
    online,         \* the daemon's network_available event
    daemon,         \* "down", startup steps, "up", "draining"
    beating,        \* a collect job is in flight
    seen,           \* what is left of the job's snapshot, per account
    collected,      \* the usernames it is about to launch
    pc,             \* where each run or operator session is
    on,             \* the account it works on
    left,           \* feed entries not yet visited by its loop
    cause,          \* pause cause read by _handle_cancellation
    spent           \* outside events so far, bounded by Limit

rowVars  == <<status, reason, review, mode, thenMonitor>>
envVars  == <<diskPaused, online>>
collVars == <<beating, seen, collected>>
runVars  == <<pc, on, left, cause>>
vars == <<rowVars, slot, monitorRunning, envVars, daemon, collVars, runVars, spent>>

-------------------------------------------------------------------------------
(* Where a run can be.                                                     *)

\* Before the try: the cookie gate, and the moment after the slot's commit.
GatePcs == {"gate", "acquired"}
\* Inside the try: a CancelledError reaches _handle_cancellation.
BodyPcs == {"check", "mark", "list", "total", "loop", "netpause", "video",
            "trip", "progress", "finish", "transition"}
\* Exception handlers and the finally block.
HandlerPcs == {"cause", "unwind", "crashed", "release"}
\* An operator command that has read the row and has not written it yet.
CommandPcs == {"queue", "run", "cancel"}
Pcs == {"idle"} \cup GatePcs \cup BodyPcs \cup HandlerPcs \cup CommandPcs

\* The run has taken the slot and will give it back (backfill:<id>).
Holding(r) == pc[r] \in {"acquired"} \cup BodyPcs \cup HandlerPcs

Idle(r) == pc[r] = "idle"

TypeOK ==
    /\ status \in [Accounts -> Statuses]
    /\ reason \in [Accounts -> Reasons]
    /\ review \in [Accounts -> BOOLEAN]
    /\ mode \in [Accounts -> {"history", "monitor"}]
    /\ thenMonitor \in [Accounts -> BOOLEAN]
    /\ slot \in Owners
    /\ monitorRunning \in BOOLEAN
    /\ diskPaused \in BOOLEAN
    /\ online \in BOOLEAN
    /\ daemon \in {"down", "registered", "transitioned", "up", "draining"}
    /\ beating \in BOOLEAN
    /\ seen \in [Accounts -> {"no", "queued", "resumable", "network", "probing"}]
    /\ collected \in SUBSET Accounts
    /\ pc \in [Runs -> Pcs]
    /\ on \in [Runs -> Accounts \cup {NoOwner}]
    /\ left \in [Runs -> 0..MaxEntries]
    /\ cause \in [Runs -> Reasons]
    /\ spent \in [Kinds -> Nat]

Init ==
    /\ status = [a \in Accounts |-> "idle"]
    /\ reason = [a \in Accounts |-> "none"]
    /\ review = [a \in Accounts |-> FALSE]
    /\ mode = [a \in Accounts |-> "history"]
    /\ thenMonitor = [a \in Accounts |-> a \in Flagged]
    /\ slot = NoOwner
    /\ monitorRunning = FALSE
    /\ diskPaused = FALSE
    /\ online = TRUE
    /\ daemon = "down"
    /\ beating = FALSE
    /\ seen = [a \in Accounts |-> "no"]
    /\ collected = {}
    /\ pc = [r \in Runs |-> "idle"]
    /\ on = [r \in Runs |-> NoOwner]
    /\ left = [r \in Runs |-> 0]
    /\ cause = [r \in Runs |-> "none"]
    /\ spent = [k \in Kinds |-> 0]

Spend(k) ==
    /\ spent[k] < Limit[k]
    /\ spent' = [spent EXCEPT ![k] = @ + 1]

-------------------------------------------------------------------------------
(* Steps shared by the handlers.                                           *)

Goto(r, p) == pc' = [pc EXCEPT ![r] = p]

\* The coroutine (or the process) ends and forgets its locals.
End(r) ==
    /\ Goto(r, "idle")
    /\ on' = [on EXCEPT ![r] = NoOwner]
    /\ left' = [left EXCEPT ![r] = 0]
    /\ cause' = [cause EXCEPT ![r] = "none"]

Set(f, a, v) == f' = [f EXCEPT ![a] = v]

\* UPDATE ... WHERE id = a AND backfill_status = 'backfilling': rowcount = 1.
StillBackfilling(a) == status[a] = "backfilling"

-------------------------------------------------------------------------------
(* Operator sessions: backfill_ops.queue_backfill, cancel_backfill and the *)
(* CLI's foreground `backfill run`.  Each reads the row in one session and *)
(* updates it by id, unconditionally, in another.                          *)

Queueable == Statuses \ {"backfilling", "queued"}

\* queue_backfill up to its update; a row already 'queued' is a no-op, after
\* which a foreground session goes on to run_backfill.
QueueRead(r, a, intent) ==
    /\ Idle(r) /\ Spend("cmd")
    /\ \/ status[a] \in Queueable /\ Goto(r, intent)
       \/ status[a] = "queued" /\ intent = "run" /\ Goto(r, "gate")
    /\ Set(on, r, a)
    /\ UNCHANGED <<rowVars, slot, monitorRunning, envVars, daemon, collVars, left, cause>>

\* The update of queue_backfill: WHERE id = :id and nothing else.
QueueWrite(r) ==
    /\ pc[r] \in {"queue", "run"}
    /\ Set(status, on[r], "queued")
    /\ Set(reason, on[r], "none")
    /\ \/ pc[r] = "queue" /\ End(r)
       \/ pc[r] = "run" /\ Goto(r, "gate") /\ UNCHANGED <<on, left, cause>>
    /\ UNCHANGED <<review, mode, thenMonitor, slot, monitorRunning, envVars,
                   daemon, collVars, spent>>

\* cancel_backfill up to its update; terminal rows are refused.
CancelRead(r, a) ==
    /\ Idle(r) /\ Spend("cmd")
    /\ status[a] \notin Terminal
    /\ Goto(r, "cancel")
    /\ Set(on, r, a)
    /\ UNCHANGED <<rowVars, slot, monitorRunning, envVars, daemon, collVars, left, cause>>

\* The update of cancel_backfill, unconditional too.
CancelWrite(r) ==
    /\ pc[r] = "cancel"
    /\ Set(status, on[r], "cancelled")
    /\ Set(reason, on[r], "none")
    /\ End(r)
    /\ UNCHANGED <<review, mode, thenMonitor, slot, monitorRunning, envVars,
                   daemon, collVars, spent>>

-------------------------------------------------------------------------------
(* run_backfill.                                                           *)

\* Gate 1: get_working_cookie finds none, ConfigurationError.
NoCookie(r) ==
    /\ pc[r] = "gate" /\ Spend("fault")
    /\ End(r)
    /\ UNCHANGED <<rowVars, slot, monitorRunning, envVars, daemon, collVars>>

\* Mutant: the slot is taken whoever owns it.
AcquireSlotUnchecked(r) ==
    /\ pc[r] = "gate"
    /\ slot' = on[r] /\ Goto(r, "acquired")
    /\ UNCHANGED <<rowVars, monitorRunning, envVars, daemon, collVars, on, left, cause, spent>>

\* Gate 2: the CAS on the slot, WHERE owner IS NULL; busy is a
\* ConfigurationError raised outside the try, so nothing is released.
AcquireSlot(r) ==
    /\ pc[r] = "gate"
    /\ \/ slot = NoOwner /\ slot' = on[r] /\ Goto(r, "acquired")
          /\ UNCHANGED <<on, left, cause>>
       \/ slot # NoOwner /\ End(r) /\ UNCHANGED slot
    /\ UNCHANGED <<rowVars, monitorRunning, envVars, daemon, collVars, spent>>

\* From the slot's commit into the try block.
EnterTry(r) ==
    /\ pc[r] = "acquired"
    /\ Goto(r, "check")
    /\ UNCHANGED <<rowVars, slot, monitorRunning, envVars, daemon, collVars,
                   on, left, cause, spent>>

\* Gate 3: the row must be 'queued'; ConfigurationError goes to the finally.
CheckQueued(r) ==
    /\ pc[r] = "check"
    /\ Goto(r, IF status[on[r]] = "queued" THEN "mark" ELSE "release")
    /\ UNCHANGED <<rowVars, slot, monitorRunning, envVars, daemon, collVars,
                   on, left, cause, spent>>

\* _mark_backfilling: CAS queued -> backfilling.
MarkBackfilling(r) ==
    /\ pc[r] = "mark"
    /\ \/ /\ status[on[r]] = "queued"
          /\ Set(status, on[r], "backfilling")
          /\ Set(reason, on[r], "none")
          /\ Goto(r, "list")
       \/ /\ status[on[r]] # "queued"
          /\ Goto(r, "release")
          /\ UNCHANGED <<status, reason>>
    /\ UNCHANGED <<review, mode, thenMonitor, slot, monitorRunning, envVars,
                   daemon, collVars, on, left, cause, spent>>

\* engine.list_videos returns the feed ...
ListFeed(r) ==
    /\ pc[r] = "list"
    /\ \E n \in 0..MaxEntries : Set(left, r, n)
    /\ Goto(r, "total")
    /\ UNCHANGED <<rowVars, slot, monitorRunning, envVars, daemon, collVars,
                   on, cause, spent>>

\* ... or raises; so may a download's pending-row insert (unique video id), and
\* any statement of the body on a locked database: the generic except.
RunCrashes(r) ==
    /\ pc[r] \in BodyPcs /\ Spend("fault")
    /\ Goto(r, "crashed")
    /\ UNCHANGED <<rowVars, slot, monitorRunning, envVars, daemon, collVars,
                   on, left, cause>>

\* _persist_total, then the snapshot of the row the loop starts from.
PersistTotal(r) ==
    /\ pc[r] = "total"
    /\ Goto(r, IF StillBackfilling(on[r]) THEN "loop" ELSE "release")
    /\ UNCHANGED <<rowVars, slot, monitorRunning, envVars, daemon, collVars,
                   on, left, cause, spent>>

\* The head of the loop: end of the feed, or the row is read again and a
\* cancel or (daemon only) an outage is noticed, or the cursor boundary breaks
\* out, or the entry is worked on.
LoopHead(r) ==
    /\ pc[r] = "loop"
    /\ IF left[r] = 0 THEN Goto(r, "finish")
       ELSE IF status[on[r]] = "cancelled" THEN Goto(r, "release")
       ELSE IF r \in DaemonRuns /\ ~online THEN Goto(r, "netpause")
       ELSE Goto(r, "finish") \/ Goto(r, "video")
    /\ UNCHANGED <<rowVars, slot, monitorRunning, envVars, daemon, collVars,
                   on, left, cause, spent>>

NextEntry(r) == Goto(r, "loop") /\ Set(left, r, left[r] - 1)

\* _pause_for_network: CAS backfilling -> paused; lost, the loop continues.
PauseForNetwork(r) ==
    /\ pc[r] = "netpause"
    /\ \/ /\ StillBackfilling(on[r])
          /\ Set(status, on[r], "paused")
          /\ Set(reason, on[r], "network")
          /\ Goto(r, "release")
          /\ UNCHANGED left
       \/ /\ ~StillBackfilling(on[r])
          /\ NextEntry(r)
          /\ UNCHANGED <<status, reason>>
    /\ UNCHANGED <<review, mode, thenMonitor, slot, monitorRunning, envVars,
                   daemon, collVars, on, cause, spent>>

\* _run_backfill_video ends with a terminal row ...
RunVideo(r) ==
    /\ pc[r] = "video"
    /\ Goto(r, "progress")
    /\ UNCHANGED <<rowVars, slot, monitorRunning, envVars, daemon, collVars,
                   on, left, cause, spent>>

\* ... or with the auth failure that trips the breaker.
BreakerTrips(r) ==
    /\ pc[r] = "video" /\ Spend("fault")
    /\ Goto(r, "trip")
    /\ UNCHANGED <<rowVars, slot, monitorRunning, envVars, daemon, collVars,
                   on, left, cause>>

\* Mutant: the breaker's pause overwrites whatever the row says.
PauseForBreakerBlind(r) ==
    /\ pc[r] = "trip"
    /\ Set(status, on[r], "paused") /\ Set(review, on[r], TRUE)
    /\ Goto(r, "release")
    /\ UNCHANGED <<reason, mode, thenMonitor, slot, monitorRunning, envVars,
                   daemon, collVars, on, left, cause, spent>>

\* _pause_for_breaker: CAS backfilling -> paused with needs_review.
PauseForBreaker(r) ==
    /\ pc[r] = "trip"
    /\ \/ /\ StillBackfilling(on[r])
          /\ Set(status, on[r], "paused")
          /\ Set(review, on[r], TRUE)
       \/ /\ ~StillBackfilling(on[r])
          /\ UNCHANGED <<status, review>>
    /\ Goto(r, "release")
    /\ UNCHANGED <<reason, mode, thenMonitor, slot, monitorRunning, envVars,
                   daemon, collVars, on, left, cause, spent>>

\* _persist_progress: rowcount 0 means a concurrent cancel won.
PersistProgress(r) ==
    /\ pc[r] = "progress"
    /\ \/ StillBackfilling(on[r]) /\ NextEntry(r)
       \/ ~StillBackfilling(on[r]) /\ Goto(r, "release") /\ UNCHANGED left
    /\ UNCHANGED <<rowVars, slot, monitorRunning, envVars, daemon, collVars,
                   on, cause, spent>>

\* Mutant: the completion overwrites a cancel.
FinishBlind(r) ==
    /\ pc[r] = "finish"
    /\ Set(status, on[r], "completed") /\ Goto(r, "transition")
    /\ UNCHANGED <<reason, review, mode, thenMonitor, slot, monitorRunning,
                   envVars, daemon, collVars, on, left, cause, spent>>

\* _finalize_backfill, first transaction: CAS backfilling -> completed.
Finish(r) ==
    /\ pc[r] = "finish"
    /\ \/ /\ StillBackfilling(on[r])
          /\ Set(status, on[r], "completed")
          /\ Goto(r, "transition")
       \/ /\ ~StillBackfilling(on[r])
          /\ Goto(r, "release")
          /\ UNCHANGED status
    /\ UNCHANGED <<reason, review, mode, thenMonitor, slot, monitorRunning,
                   envVars, daemon, collVars, on, left, cause, spent>>

-------------------------------------------------------------------------------
(* transition_to_monitor_after_backfill: one conditional transaction.      *)

TransitionDue(a) ==
    mode[a] = "history" /\ thenMonitor[a] /\ status[a] = "completed"

\* The accounts of S whose transition is due move to monitor mode, and the
\* monitor is switched on with them.
TransitionToMonitor(S) ==
    LET due == {a \in S : TransitionDue(a)} IN
    /\ mode' = [a \in Accounts |-> IF a \in due THEN "monitor" ELSE mode[a]]
    /\ thenMonitor' = [a \in Accounts |-> thenMonitor[a] /\ a \notin due]
    /\ monitorRunning' = (monitorRunning \/ due # {})

\* _finalize_backfill, second transaction.
Transition(r) ==
    /\ pc[r] = "transition"
    /\ TransitionToMonitor({on[r]})
    /\ Goto(r, "release")
    /\ UNCHANGED <<status, reason, review, slot, envVars, daemon, collVars,
                   on, left, cause, spent>>

-------------------------------------------------------------------------------
(* Exception handlers and the finally block of run_backfill.               *)

\* Where a CancelledError sends a run that is at p.  Before the try it leaves
\* through no handler at all; in the body it reaches _handle_cancellation; in
\* a handler it skips what the handler had left to do.
Interrupted(p) ==
    CASE p \in GatePcs -> "idle"
      [] p \in BodyPcs -> "cause"
      [] p \in {"cause", "unwind", "crashed"} /\ DoubleFaults -> "release"
      [] p = "release" /\ DoubleFaults -> "idle"
      [] OTHER -> p

\* _handle_cancellation reads daemon_state and the probe ...
ReadCause(r) ==
    /\ pc[r] = "cause"
    /\ Set(cause, r, IF diskPaused THEN "disk"
                     ELSE IF r \in DaemonRuns /\ ~online THEN "network"
                     ELSE "none")
    /\ Goto(r, "unwind")
    /\ UNCHANGED <<rowVars, slot, monitorRunning, envVars, daemon, collVars,
                   on, left, spent>>

\* ... and unwedges the row: CAS backfilling -> paused or queued.
Unwind(r) ==
    /\ pc[r] = "unwind"
    /\ \/ /\ StillBackfilling(on[r])
          /\ Set(status, on[r], IF cause[r] = "none" THEN "queued" ELSE "paused")
          /\ Set(reason, on[r], cause[r])
       \/ /\ ~StillBackfilling(on[r])
          /\ UNCHANGED <<status, reason>>
    /\ Goto(r, "release")
    /\ UNCHANGED <<review, mode, thenMonitor, slot, monitorRunning, envVars,
                   daemon, collVars, on, left, cause, spent>>

\* Mutant: a crash is logged and the row left as it is (before JD-A-002).
UnwedgeCrashedForgets(r) ==
    /\ pc[r] = "crashed"
    /\ Goto(r, "release")
    /\ UNCHANGED <<rowVars, slot, monitorRunning, envVars, daemon, collVars,
                   on, left, cause, spent>>

\* except Exception: CAS backfilling -> queued.
UnwedgeCrashed(r) ==
    /\ pc[r] = "crashed"
    /\ \/ StillBackfilling(on[r]) /\ Set(status, on[r], "queued")
       \/ ~StillBackfilling(on[r]) /\ UNCHANGED status
    /\ Goto(r, "release")
    /\ UNCHANGED <<reason, review, mode, thenMonitor, slot, monitorRunning,
                   envVars, daemon, collVars, on, left, cause, spent>>

\* finally: release_backfill_slot, WHERE owner = 'backfill:<id>'.
ReleaseSlot(r) ==
    /\ pc[r] = "release"
    /\ slot' = IF slot = on[r] THEN NoOwner ELSE slot
    /\ End(r)
    /\ UNCHANGED <<rowVars, monitorRunning, envVars, daemon, collVars, spent>>

\* Ctrl-C in a foreground run: asyncio.run cancels the coroutine.
Interrupt(r) ==
    /\ r \in CliRuns /\ Spend("ctrlc")
    /\ Interrupted(pc[r]) # pc[r]
    /\ IF Interrupted(pc[r]) = "idle" THEN End(r)
       ELSE Goto(r, Interrupted(pc[r])) /\ UNCHANGED <<on, left, cause>>
    /\ UNCHANGED <<rowVars, slot, monitorRunning, envVars, daemon, collVars>>

\* An operator's process dies on the spot; its transactions stay.
Kill(r) ==
    /\ r \in CliRuns /\ ~Idle(r) /\ Spend("kill")
    /\ End(r)
    /\ UNCHANGED <<rowVars, slot, monitorRunning, envVars, daemon, collVars>>

-------------------------------------------------------------------------------
(* The collect job: collect_queued_backfills, then the launches.           *)

\* Mutant: only queued rows are collected.
ClassifyQueuedOnly(a) == IF status[a] = "queued" THEN "queued" ELSE "no"

\* What the snapshot says of a row: taken, to be resumed, or left out.  A
\* 'network' row is kept: the probe is asked when its turn comes.
Classify(a) ==
    CASE status[a] = "queued" -> "queued"
      [] status[a] = "paused" /\ ~review[a] /\ reason[a] = "network" -> "network"
      [] status[a] = "paused" /\ ~review[a] /\ reason[a] = "none" -> "resumable"
      [] status[a] = "paused" /\ ~review[a] /\ reason[a] = "disk" /\ ~diskPaused -> "resumable"
      [] OTHER -> "no"

\* The beat: rows and downloads_paused are read once, in one session.
CollectSnapshot ==
    /\ daemon = "up" /\ ~beating
    /\ SlowBeat => \A r \in DaemonRuns : pc[r] \notin GatePcs
    /\ beating' = TRUE
    /\ seen' = [a \in Accounts |-> Classify(a)]
    /\ UNCHANGED <<rowVars, slot, monitorRunning, envVars, daemon, collected,
                   runVars, spent>>

\* ORDER BY id: the rows are walked one at a time.
Turn(a) == beating /\ \A b \in Accounts : b < a => seen[b] = "no"

\* A paused row of the snapshot: CAS paused -> queued, if the cause is gone.
CollectResume(a) ==
    /\ Turn(a) /\ seen[a] \in {"resumable", "network"}
    /\ IF status[a] = "paused" /\ (seen[a] = "network" => online)
         THEN Set(status, a, "queued") /\ Set(reason, a, "none") /\ Set(seen, a, "queued")
         ELSE Set(seen, a, "no") /\ UNCHANGED <<status, reason>>
    /\ UNCHANGED <<review, mode, thenMonitor, slot, monitorRunning, envVars,
                   daemon, beating, collected, runVars, spent>>

\* The slot probe with owner 'collect'; a busy slot skips the row.
CollectProbe(a) ==
    /\ Turn(a) /\ seen[a] = "queued"
    /\ \/ slot = NoOwner /\ slot' = CollectOwner /\ Set(seen, a, "probing")
       \/ slot # NoOwner /\ Set(seen, a, "no") /\ UNCHANGED slot
    /\ UNCHANGED <<rowVars, monitorRunning, envVars, daemon, beating, collected,
                   runVars, spent>>

\* Mutant: the probe keeps the slot it has taken.
CollectProbedHolds(a) ==
    /\ seen[a] = "probing"
    /\ Set(seen, a, "no")
    /\ collected' = collected \cup {a}
    /\ UNCHANGED <<rowVars, slot, monitorRunning, envVars, daemon, beating, runVars, spent>>

\* The probe gives the slot back and takes the username.
CollectProbed(a) ==
    /\ seen[a] = "probing"
    /\ slot' = IF slot = CollectOwner THEN NoOwner ELSE slot
    /\ Set(seen, a, "no")
    /\ collected' = collected \cup {a}
    /\ UNCHANGED <<rowVars, monitorRunning, envVars, daemon, beating, runVars, spent>>

Walked == beating /\ \A a \in Accounts : seen[a] = "no"

\* create_supervised_task(_run_collected_backfill(...)) for a collected name.
CollectLaunch(r, a) ==
    /\ Walked /\ a \in collected
    /\ r \in DaemonRuns /\ Idle(r)
    /\ Goto(r, "gate") /\ Set(on, r, a)
    /\ collected' = collected \ {a}
    /\ UNCHANGED <<rowVars, slot, monitorRunning, envVars, daemon, beating, seen,
                   left, cause, spent>>

\* No engine (no cookie), or the account is gone: not launched.
CollectNotLaunched(a) ==
    /\ Walked /\ a \in collected /\ Spend("fault")
    /\ collected' = collected \ {a}
    /\ UNCHANGED <<rowVars, slot, monitorRunning, envVars, daemon, beating, seen, runVars>>

CollectDone ==
    /\ Walked /\ collected = {}
    /\ beating' = FALSE
    /\ UNCHANGED <<rowVars, slot, monitorRunning, envVars, daemon, seen, collected,
                   runVars, spent>>

-------------------------------------------------------------------------------
(* The daemon's lifecycle, as far as backfills see it.                     *)

\* start_daemon up to step 6: components (network_available is pre-set),
\* register_daemon_start, then MONITOR_AUTOSTART.
DaemonRegister ==
    /\ daemon = "down"
    /\ daemon' = "registered"
    /\ online' = TRUE
    /\ monitorRunning' = Autostart
    /\ UNCHANGED <<rowVars, slot, diskPaused, collVars, runVars, spent>>

\* Mutant: startup replays the transitions of a running monitor only.
ReconcileTransitionsLazy ==
    /\ daemon = "registered"
    /\ daemon' = "transitioned"
    /\ TransitionToMonitor(IF monitorRunning THEN Accounts ELSE {})
    /\ UNCHANGED <<status, reason, review, slot, envVars, collVars, runVars, spent>>

\* reconcile_pending_monitor_transitions.
ReconcileTransitions ==
    /\ daemon = "registered"
    /\ daemon' = "transitioned"
    /\ TransitionToMonitor(Accounts)
    /\ UNCHANGED <<status, reason, review, slot, envVars, collVars, runVars, spent>>

\* Mutant: a row whose account owns the slot is taken for a live one.
ReconcileStaleTrusting ==
    /\ daemon = "transitioned"
    /\ daemon' = "up"
    /\ status' = [a \in Accounts |->
                    IF status[a] = "backfilling" /\ slot # a THEN "queued" ELSE status[a]]
    /\ UNCHANGED <<reason, review, mode, thenMonitor, slot, monitorRunning,
                   envVars, collVars, runVars, spent>>

\* reconcile_stale_backfills: every 'backfilling' row, one UPDATE.  The slot
\* is not looked at.
ReconcileStale ==
    /\ daemon = "transitioned"
    /\ daemon' = "up"
    /\ status' = [a \in Accounts |->
                    IF status[a] = "backfilling" THEN "queued" ELSE status[a]]
    /\ UNCHANGED <<reason, review, mode, thenMonitor, slot, monitorRunning,
                   envVars, collVars, runVars, spent>>

\* The collect job's coroutine ends where it is.
CollectorGone ==
    /\ beating' = FALSE
    /\ seen' = [a \in Accounts |-> "no"]
    /\ collected' = {}

\* Every daemon task goes where dest says; one that ends forgets its locals.
MoveDaemonRuns(dest) ==
    LET gone == {r \in DaemonRuns : dest[r] = "idle"} IN
    /\ pc' = [r \in Runs |-> IF r \in DaemonRuns THEN dest[r] ELSE pc[r]]
    /\ on' = [r \in Runs |-> IF r \in gone THEN NoOwner ELSE on[r]]
    /\ left' = [r \in Runs |-> IF r \in gone THEN 0 ELSE left[r]]
    /\ cause' = [r \in Runs |-> IF r \in gone THEN "none" ELSE cause[r]]

\* shutdown_daemon: the scheduler cancels the job in flight and
\* drain_supervised_tasks cancels every task, once.
StopDaemon ==
    /\ daemon = "up" /\ Spend("stop")
    /\ daemon' = "draining"
    /\ CollectorGone
    /\ MoveDaemonRuns([r \in DaemonRuns |-> Interrupted(pc[r])])
    /\ UNCHANGED <<rowVars, slot, monitorRunning, envVars>>

\* The drain is over: clear_daemon_runtime.
DaemonStopped ==
    /\ daemon = "draining" /\ \A r \in DaemonRuns : Idle(r)
    /\ daemon' = "down"
    /\ monitorRunning' = FALSE
    /\ UNCHANGED <<rowVars, slot, envVars, collVars, runVars, spent>>

\* The daemon's process dies (or the 10 s drain runs out on it).
CrashDaemon ==
    /\ daemon # "down" /\ Spend("crash")
    /\ daemon' = "down"
    /\ CollectorGone
    /\ MoveDaemonRuns([r \in DaemonRuns |-> "idle"])
    /\ UNCHANGED <<rowVars, slot, monitorRunning, envVars>>

-------------------------------------------------------------------------------
(* Outside conditions: the disk check and the network probe.               *)

DiskChanges ==
    /\ Spend("env")
    /\ diskPaused' = ~diskPaused
    /\ UNCHANGED <<rowVars, slot, monitorRunning, online, daemon, collVars, runVars>>

NetworkChanges ==
    /\ daemon \in {"up", "draining"} /\ Spend("env")
    /\ online' = ~online
    /\ UNCHANGED <<rowVars, slot, monitorRunning, diskPaused, daemon, collVars, runVars>>

-------------------------------------------------------------------------------

\* What a session or a run does by itself once it has begun.
RunStep(r) ==
    \/ QueueWrite(r) \/ CancelWrite(r)
    \/ AcquireSlot(r) \/ EnterTry(r) \/ CheckQueued(r) \/ MarkBackfilling(r)
    \/ ListFeed(r) \/ PersistTotal(r) \/ LoopHead(r) \/ PauseForNetwork(r)
    \/ RunVideo(r) \/ PauseForBreaker(r) \/ PersistProgress(r)
    \/ Finish(r) \/ Transition(r)
    \/ ReadCause(r) \/ Unwind(r) \/ UnwedgeCrashed(r) \/ ReleaseSlot(r)

\* What befalls it.
RunFault(r) ==
    NoCookie(r) \/ RunCrashes(r) \/ BreakerTrips(r) \/ Interrupt(r) \/ Kill(r)

Command(r) ==
    \E a \in Accounts :
        CancelRead(r, a) \/ QueueRead(r, a, "queue") \/ QueueRead(r, a, "run")

CollectStep ==
    \/ CollectSnapshot \/ CollectDone
    \/ \E a \in Accounts :
          \/ CollectResume(a) \/ CollectProbe(a) \/ CollectProbed(a)
          \/ \E r \in DaemonRuns : CollectLaunch(r, a)

\* What the daemon does by itself once it has been started.
DaemonStep == ReconcileTransitions \/ ReconcileStale \/ DaemonStopped

Next ==
    \/ \E r \in Runs : RunStep(r) \/ RunFault(r)
    \/ \E r \in CliRuns : Command(r)
    \/ CollectStep
    \/ \E a \in Accounts : CollectNotLaunched(a)
    \/ DaemonRegister \/ DaemonStep \/ StopDaemon \/ CrashDaemon
    \/ DiskChanges \/ NetworkChanges

Spec == Init /\ [][Next]_vars

\* Coroutines are scheduled and the interval job fires; commands, faults,
\* conditions outside and starts of the daemon happen or do not.
Fairness ==
    /\ \A r \in Runs : WF_vars(RunStep(r))
    /\ WF_vars(CollectStep)
    /\ WF_vars(DaemonStep)

FairSpec == Spec /\ Fairness

-------------------------------------------------------------------------------
(* Safety.                                                                 *)

\* T-BACKFILL-20: of all the runs of all processes, at most one is between
\* taking the slot and giving it back, and the slot names its account; no
\* interleaving of gates, probes, releases, stops and crashes admits a second.
SlotExclusion ==
    /\ \A r \in Runs : Holding(r) => slot = on[r] /\ on[r] \in Accounts
    /\ \A r, s \in Runs : Holding(r) /\ Holding(s) => r = s

\* A row says 'backfilling' only while the slot carries its account, whether
\* the run that set it is alive or has died (one account at most, then, and
\* no second run of it can start).
BackfillingOwnsSlot == \A a \in Accounts : status[a] = "backfilling" => slot = a

\* T-BACKFILL-6: once the daemon has started, every 'backfilling' row has a
\* live run behind it, whatever stops, crashes, failures and cancels there
\* were: no account is wedged where neither queue nor collect can reach it.
BackfillingHasRun ==
    daemon = "up" =>
        \A a \in Accounts : status[a] = "backfilling" =>
            \E r \in Runs : Holding(r) /\ on[r] = a

\* An operator's update is being written by session r.
Writes(r, a, cmds) == pc[r] \in cmds /\ on[r] = a /\ pc'[r] # pc[r]

\* T-BACKFILL-7/8: a cancel is never overwritten by the run it stops, by the
\* collector or by a restart; only a queue command ends it.
CancelHolds ==
    [][\A a \in Accounts : status[a] = "cancelled" /\ status'[a] # "cancelled" =>
          /\ status'[a] = "queued"
          /\ \E r \in CliRuns : Writes(r, a, {"queue", "run"})]_vars

\* "A breaker pause waits for MANUAL review -- never collected"
\* (backfill.py:363): a pause with needs_review is ended by an operator's
\* command only.
ReviewWaits ==
    [][\A a \in Accounts : status[a] = "paused" /\ review[a] /\ status'[a] # "paused" =>
          \E r \in CliRuns : Writes(r, a, {"queue", "run", "cancel"})]_vars

\* Refinement: the accounts' statuses, as all the processes and the slot drive
\* them, are a behaviour of the one-at-a-time server of BackfillQueue.
Queue == INSTANCE BackfillQueue WITH Accounts <- Accounts, status <- status
OneAtATime == Queue!Spec

-------------------------------------------------------------------------------
(* Liveness, under FairSpec.  Nothing in the code starts a daemon that was *)
(* stopped, so each property is about histories in which it keeps being    *)
(* started.                                                                *)

KeepsRunning == []<>(daemon = "up")

\* A queued backfill is picked up: it does not stay queued for ever.
QueuedStarts ==
    KeepsRunning => \A a \in Accounts : status[a] = "queued" ~> status[a] # "queued"

\* A pause without a review ends once its cause is gone for good (9.1: the
\* collector takes the resumable paused rows).
ResolvedPauseResumes ==
    KeepsRunning /\ <>[](online /\ ~diskPaused) =>
        \A a \in Accounts : status[a] = "paused" /\ ~review[a] ~> status[a] # "paused"

\* T-BACKFILL-6: a row never stays 'backfilling' for ever, daemon crashes
\* included.
BackfillingEnds ==
    KeepsRunning => \A a \in Accounts : status[a] = "backfilling" ~> status[a] # "backfilling"

\* T-BACKFILL-16: a completed --then-monitor account gets to monitor mode,
\* even if the daemon dies between the two transactions.
TransitionHappens ==
    KeepsRunning =>
        \A a \in Accounts : TransitionDue(a) ~> mode[a] = "monitor" \/ status[a] # "completed"

-------------------------------------------------------------------------------
(* What the documentation says and the code does not do.                   *)

\* Plan, troubleshooting table: startup frees a slot whose owner is dead.
LiveOwner ==
    \/ slot = NoOwner
    \/ slot = CollectOwner /\ \E a \in Accounts : seen[a] = "probing"
    \/ \E r \in Runs : Holding(r) /\ on[r] = slot
DeadOwnerFreed == KeepsRunning => [](~LiveOwner => <>LiveOwner)

\* T-BACKFILL-19: a running backfill is never re-queued by the queue command.
QueueRefusesRunning ==
    [][\A r \in CliRuns, a \in Accounts :
          Writes(r, a, {"queue", "run"}) /\ status'[a] = "queued" => status[a] # "backfilling"]_vars

\* cancel_backfill: terminal states are refused.
CancelRefusesTerminal ==
    [][\A r \in CliRuns, a \in Accounts :
          Writes(r, a, {"cancel"}) /\ status'[a] = "cancelled" => status[a] \notin Terminal]_vars

\* reconcile_stale_backfills: only orphaned rows are re-queued at startup.
ReconcileOnlyOrphans ==
    [][\A a \in Accounts :
          daemon = "transitioned" /\ daemon' = "up" /\ status[a] = "backfilling" =>
              ~\E r \in Runs : Holding(r) /\ on[r] = a]_vars

\* 9.5: completion and the move to monitor mode are one transaction.
CompletionMovesToMonitor == \A a \in Accounts : ~TransitionDue(a)

=============================================================================
