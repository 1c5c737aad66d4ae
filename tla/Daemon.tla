------------------------------- MODULE Daemon -------------------------------
(***************************************************************************)
(* The lifecycle of the daemon (daemon/run.py): its strict startup order,  *)
(* the stop watcher, the heartbeat job that launches monitor cycles, the   *)
(* bounded shutdown, the singleton row it shares with the commands         *)
(* (core/daemon_state.py, services/monitor_state.py, cli/daemon.py) and    *)
(* the Telegram bot it carries (BotPolling).                               *)
(*                                                                         *)
(* One daemon at a time, started again after every end; nothing in the     *)
(* code keeps a second one out, the container does.                        *)
(***************************************************************************)
EXTENDS BotPolling

CONSTANTS
    Autostart,   \* settings.monitor_autostart
    BotToken,    \* settings.telegram_bot_token is set
    Kinds,       \* kinds of outside events ...
    Limit        \* ... and how often each may happen (bounds)

ASSUME DaemonAssumption ==
    /\ Autostart \in BOOLEAN /\ BotToken \in BOOLEAN
    /\ Kinds = {"start", "signal", "crash", "locked", "cookie", "stop", "monitor",
                "selfcheck"}
    /\ Limit \in [Kinds -> Nat]

NoPid == 0

VARIABLES
    row,        \* the daemon_state row
    degraded,   \* its degraded_reason is set
    phase,      \* where the lifecycle coroutine is
    pid,        \* this process; the number of the start
    stopEvent,  \* runtime.stop_event
    watcher,    \* the stop watcher: "none", "alive", or "dead" of a lock
    beat,       \* the heartbeat job: "off" until the scheduler runs, "idle", ...
    cycle,      \* monitor_cycle_task: "none", "running" or "stopping" the monitor
    due,        \* the monitor interval has passed since the last launch
    usable,     \* a usable cookie is stored
    bot,        \* components.bot is set
    farewell,   \* the send task of daemon.stopped
    client,     \* the commands in flight
    asked,      \* history: this process was asked to stop
    exit,       \* history: how the last process ended
    outlived,   \* history: a beat went on after its shutdown had cancelled it
    spent

rowVars == <<row, degraded>>
processVars == <<phase, pid, stopEvent, watcher, beat, cycle, due, bot, farewell, exit, outlived>>
vars == <<rowVars, processVars, usable, client, asked, spent, botVars>>

Clients == {"stop", "monitor start", "monitor stop"}
Startup == <<"clear", "migrate", "register", "autostart", "reconcile", "probe", "bot",
             "beat", "schedule">>
Starts == {Startup[i] : i \in 1..9}
Shutdown == {"stop bot", "bot stopping", "clear row", "dispose"}
Phases == {"down", "bot starting", "up"} \cup Starts \cup Shutdown
Live == {"up"} \cup Shutdown

Spend(k) == spent[k] < Limit[k] /\ spent' = [spent EXCEPT ![k] = @ + 1]

Init ==
    /\ row = [pid |-> NoPid, stop |-> FALSE, monitor |-> FALSE, heartbeat |-> FALSE]
    /\ degraded = FALSE
    /\ phase = "down" /\ pid = NoPid /\ exit = "never"
    /\ stopEvent = FALSE /\ watcher = "none" /\ beat = "off"
    /\ cycle = "none" /\ due = TRUE /\ bot = FALSE /\ farewell = "none"
    /\ usable \in BOOLEAN
    /\ client = [c \in Clients |-> "idle"]
    /\ asked = FALSE /\ outlived = FALSE
    /\ spent = [k \in Kinds |-> 0]
    /\ BotInit

(***************************************************************************)
(* start_daemon                                                            *)
(***************************************************************************)
Start ==
    /\ phase = "down" /\ Spend("start")
    /\ phase' = "clear" /\ pid' = pid + 1 /\ exit' = "never"
    /\ stopEvent' = FALSE /\ due' = TRUE /\ farewell' = "none"
    /\ asked' = FALSE /\ outlived' = FALSE
    /\ UNCHANGED <<rowVars, watcher, beat, cycle, bot, usable, client, botVars>>

Advance(from, to) == phase = from /\ phase' = to
KeepProcess ==
    UNCHANGED <<pid, stopEvent, watcher, beat, cycle, due, bot, farewell, exit, outlived>>
KeepRest == UNCHANGED <<usable, client, asked, spent>>

\* Mutant: an inherited flag is cleared only if the last daemon left no pid.
ClearIfClean ==
    /\ Advance("clear", "migrate")
    /\ row' = IF row.pid = NoPid THEN [row EXCEPT !.stop = FALSE] ELSE row
    /\ KeepProcess /\ KeepRest /\ UNCHANGED <<degraded, botVars>>

ClearInheritedStopFlag ==
    /\ Advance("clear", "migrate")
    /\ row' = [row EXCEPT !.stop = FALSE]
    /\ KeepProcess /\ KeepRest /\ UNCHANGED <<degraded, botVars>>

\* The migrations in a thread, then the components.
Migrate ==
    /\ Advance("migrate", "register")
    /\ KeepProcess /\ KeepRest /\ UNCHANGED <<rowVars, botVars>>

\* Mutant: the registration clears the flag as well.
RegisterStartClears ==
    /\ Advance("register", "autostart")
    /\ row' = [row EXCEPT !.pid = pid, !.monitor = FALSE, !.stop = FALSE]
    /\ KeepProcess /\ KeepRest /\ UNCHANGED <<degraded, botVars>>

RegisterStart ==
    /\ Advance("register", "autostart")
    /\ row' = [row EXCEPT !.pid = pid, !.monitor = FALSE]
    /\ KeepProcess /\ KeepRest /\ UNCHANGED <<degraded, botVars>>

MonitorAutostart ==
    /\ Advance("autostart", "reconcile")
    /\ row' = IF Autostart THEN [row EXCEPT !.monitor = TRUE] ELSE row
    /\ KeepProcess /\ KeepRest /\ UNCHANGED <<degraded, botVars>>

\* The reconciliations write accounts, not this row (Backfill models them).
Reconcile ==
    /\ Advance("reconcile", "probe")
    /\ KeepProcess /\ KeepRest /\ UNCHANGED <<rowVars, botVars>>

\* Binaries and impersonation may be missing; no cookie is a cause as well.
StartupProbes ==
    /\ Advance("probe", "bot")
    /\ degraded' \in IF usable THEN BOOLEAN ELSE {TRUE}
    /\ KeepProcess /\ KeepRest /\ UNCHANGED <<row, botVars>>

StartupBot ==
    /\ phase = "bot"
    /\ IF BotToken THEN phase' = "bot starting" /\ StartBot
                   ELSE phase' = "beat" /\ UNCHANGED botVars
    /\ KeepProcess /\ KeepRest /\ UNCHANGED rowVars

\* A start that failed is logged, and the daemon goes on without a bot.
BotSettled ==
    /\ Advance("bot starting", "beat") /\ driver \notin {"startup", "cleanup"}
    /\ bot' = (supervisor # "none")
    /\ KeepRest
    /\ UNCHANGED <<rowVars, pid, stopEvent, watcher, beat, cycle, due, farewell, exit, outlived,
                   botVars>>

FirstHeartbeat ==
    /\ Advance("beat", "schedule")
    /\ row' = [row EXCEPT !.pid = pid, !.heartbeat = TRUE]
    /\ KeepProcess /\ KeepRest /\ UNCHANGED <<degraded, botVars>>

Schedule ==
    /\ Advance("schedule", "up")
    /\ beat' = "idle" /\ watcher' = "alive"
    /\ KeepRest
    /\ UNCHANGED <<rowVars, pid, stopEvent, cycle, due, bot, farewell, exit, outlived, botVars>>

(***************************************************************************)
(* The process ends: with every task and the bot, the row stays as it is.  *)
(***************************************************************************)
Ends(how) ==
    /\ phase' = "down" /\ exit' = how
    /\ stopEvent' = FALSE /\ watcher' = "none" /\ beat' = "off" /\ cycle' = "none"
    /\ due' = TRUE /\ bot' = FALSE
    /\ BotGone
    /\ UNCHANGED <<rowVars, pid, usable, client, asked, outlived>>

\* A transaction of the startup, or the last one of the shutdown, stays
\* locked through every retry, or the migrations fail.
LockedOut ==
    /\ phase \in {"clear", "migrate", "register", "autostart", "reconcile", "probe",
                  "beat", "clear row"}
    /\ Spend("locked")
    /\ Ends("failed") /\ UNCHANGED farewell

\* SIGKILL at any time, and any signal before the handlers are installed.
Crash ==
    /\ phase # "down" /\ Spend("crash")
    /\ Ends("crash") /\ UNCHANGED farewell

(***************************************************************************)
(* The stop: a signal, or the flag seen by the watcher (a poll that stays  *)
(* locked kills the watcher: its crash is only logged).                    *)
(***************************************************************************)
KeepButStop == UNCHANGED <<phase, pid, beat, cycle, due, bot, farewell, exit, outlived>>

Signal ==
    /\ phase \in Live /\ Spend("signal")
    /\ stopEvent' = TRUE /\ asked' = TRUE
    /\ KeepButStop /\ UNCHANGED <<rowVars, watcher, usable, client, botVars>>

WatcherPolls ==
    /\ watcher = "alive" /\ row.stop /\ ~stopEvent
    /\ stopEvent' = TRUE
    /\ KeepButStop /\ KeepRest /\ UNCHANGED <<rowVars, watcher, botVars>>

WatcherDies ==
    /\ watcher = "alive" /\ Spend("locked")
    /\ watcher' = "dead"
    /\ KeepButStop /\ UNCHANGED <<rowVars, stopEvent, usable, client, asked, botVars>>

\* The send task of an event emitted right before the drain: the drain cancels
\* it before the loop has run it.  Without a bot nothing is sent.
Farewell == IF bot THEN "cancelled" ELSE "none"

\* What a beat leaves in the row.
Beaten == [row EXCEPT !.pid = pid, !.heartbeat = TRUE]

\* Mutant: the jobs of the scheduler go on.
BeginShutdownJobsGoOn ==
    /\ Advance("up", "stop bot") /\ stopEvent
    /\ watcher' = "none" /\ cycle' = "none"
    /\ SupervisorCancelled
    /\ farewell' = Farewell
    /\ KeepRest /\ UNCHANGED <<rowVars, pid, stopEvent, beat, due, bot, exit, outlived>>

\* What the cancellation does to a beat: as a rule it ends there, at its commit
\* at the latest; one that is wedged in the driver goes on.
BeatCancelled ==
    /\ beat' = "off" /\ outlived' = FALSE
    /\ row' \in IF beat = "write" THEN {row, Beaten} ELSE {row}

BeatIgnoresCancel ==
    /\ beat \in {"write", "read", "engine"} /\ outlived' = TRUE
    /\ UNCHANGED <<beat, row>>

\* The scheduler stops and cancels its jobs, daemon.stopped is emitted, and the
\* drain cancels every supervised task, but does not wait for the jobs.
BeginShutdown ==
    /\ Advance("up", "stop bot") /\ stopEvent
    /\ BeatCancelled \/ BeatIgnoresCancel
    /\ watcher' = "none" /\ cycle' = "none"
    /\ SupervisorCancelled
    /\ farewell' = Farewell
    /\ KeepRest /\ UNCHANGED <<degraded, pid, stopEvent, due, bot, exit>>

ShutdownBot ==
    /\ phase = "stop bot"
    /\ IF bot THEN phase' = "bot stopping" /\ StopBot
              ELSE phase' = "clear row" /\ UNCHANGED botVars
    /\ KeepProcess /\ KeepRest /\ UNCHANGED rowVars

BotStopped ==
    /\ Advance("bot stopping", "clear row") /\ driver = "nobody"
    /\ KeepProcess /\ KeepRest /\ UNCHANGED <<rowVars, botVars>>

ClearRuntime ==
    /\ Advance("clear row", "dispose")
    /\ row' = [pid |-> NoPid, stop |-> FALSE, monitor |-> FALSE, heartbeat |-> FALSE]
    /\ KeepProcess /\ KeepRest /\ UNCHANGED <<degraded, botVars>>

\* The database engine is disposed of, and the process is over.
Dispose ==
    /\ phase = "dispose"
    /\ Ends("clean") /\ UNCHANGED <<farewell, spent>>

(***************************************************************************)
(* The heartbeat job and the monitor cycle it launches.                    *)
(***************************************************************************)
KeepButBeat == UNCHANGED <<phase, pid, stopEvent, watcher, bot, farewell, exit, outlived>>
Beat(from, to) == beat = from /\ beat' = to

BeatFires ==
    /\ phase = "up" /\ Beat("idle", "write")
    /\ KeepButBeat /\ KeepRest /\ UNCHANGED <<rowVars, cycle, due, botVars>>

BeatWrites ==
    /\ Beat("write", "read")
    /\ row' = Beaten
    /\ KeepButBeat /\ KeepRest /\ UNCHANGED <<degraded, cycle, due, botVars>>

BeatLocked ==
    /\ Beat("write", "idle") /\ Spend("locked")
    /\ KeepButBeat /\ UNCHANGED <<rowVars, cycle, due, usable, client, asked, botVars>>

BeatReads ==
    /\ Beat("read", IF row.monitor THEN "engine" ELSE "idle")
    /\ KeepButBeat /\ KeepRest /\ UNCHANGED <<rowVars, cycle, due, botVars>>

\* Mutant: the engine is the one of the startup, if there was a cookie then.
BeatLaunchesHealthy ==
    /\ Beat("engine", "idle")
    /\ IF ~degraded /\ cycle = "none" /\ due THEN cycle' = "running" /\ due' = FALSE
       ELSE UNCHANGED <<cycle, due>>
    /\ KeepButBeat /\ KeepRest /\ UNCHANGED <<rowVars, botVars>>

\* ensure_engine, then the gates: an engine, no cycle running, the interval over.
BeatLaunches ==
    /\ Beat("engine", "idle")
    /\ IF usable /\ cycle = "none" /\ due THEN cycle' = "running" /\ due' = FALSE
       ELSE UNCHANGED <<cycle, due>>
    /\ KeepButBeat /\ KeepRest /\ UNCHANGED <<rowVars, botVars>>

IntervalPasses ==
    /\ phase = "up" /\ ~due /\ due' = TRUE
    /\ KeepButBeat /\ KeepRest /\ UNCHANGED <<rowVars, beat, cycle, botVars>>

Cycle(from, to) == cycle = from /\ cycle' = to

CycleEnds ==
    /\ Cycle("running", "none")
    /\ KeepButBeat /\ KeepRest /\ UNCHANGED <<rowVars, beat, due, botVars>>

\* The cycle finds no usable cookie, and stops the monitor for good.
CycleSeesNoCookie ==
    /\ Cycle("running", "stopping") /\ ~usable
    /\ KeepButBeat /\ KeepRest /\ UNCHANGED <<rowVars, beat, due, botVars>>

CycleStopsMonitor ==
    /\ Cycle("stopping", "none")
    /\ row' = [row EXCEPT !.monitor = FALSE]
    /\ KeepButBeat /\ KeepRest /\ UNCHANGED <<degraded, beat, due, botVars>>

\* cookies add, remove, or a verdict.
CookieChanges ==
    /\ Spend("cookie") /\ usable' = ~usable
    /\ UNCHANGED <<rowVars, processVars, client, asked, botVars>>

\* The job or the command: its verdict replaces what the startup found, and
\* says nothing of cookies.
Selfcheck ==
    /\ Spend("selfcheck")
    /\ degraded' \in BOOLEAN
    /\ UNCHANGED <<row, processVars, usable, client, asked, botVars>>

(***************************************************************************)
(* The commands, each a read and then a write: refused when nobody seems   *)
(* to run, when the daemon is degraded, or when there is nothing to do.    *)
(***************************************************************************)
Reads(c) == client[c] = "idle" /\ client' = [client EXCEPT ![c] = "read"]
Writes(c) == client[c] = "read" /\ client' = [client EXCEPT ![c] = "idle"]

DaemonStopReads ==
    /\ Reads("stop") /\ row.pid # NoPid /\ Spend("stop")
    /\ UNCHANGED <<rowVars, processVars, usable, asked, botVars>>

DaemonStopWrites ==
    /\ Writes("stop")
    /\ row' = [row EXCEPT !.stop = TRUE]
    /\ asked' = TRUE
    /\ UNCHANGED <<degraded, processVars, usable, spent, botVars>>

StartMonitorReads ==
    /\ Reads("monitor start") /\ ~degraded /\ ~row.monitor /\ Spend("monitor")
    /\ UNCHANGED <<rowVars, processVars, usable, asked, botVars>>

StopMonitorReads ==
    /\ Reads("monitor stop") /\ row.monitor /\ Spend("monitor")
    /\ UNCHANGED <<rowVars, processVars, usable, asked, botVars>>

SetMonitorRunning(c) ==
    /\ Writes(c)
    /\ row' = [row EXCEPT !.monitor = (c = "monitor start")]
    /\ UNCHANGED <<degraded, processVars, usable, asked, spent, botVars>>

(***************************************************************************)
(* The system.                                                             *)
(***************************************************************************)
Startups ==
    \/ ClearInheritedStopFlag \/ Migrate \/ RegisterStart \/ MonitorAutostart \/ Reconcile
    \/ StartupProbes \/ StartupBot \/ BotSettled \/ FirstHeartbeat \/ Schedule

Shutdowns == BeginShutdown \/ ShutdownBot \/ BotStopped \/ ClearRuntime \/ Dispose

Heartbeat == BeatFires \/ BeatWrites \/ BeatReads \/ BeatLaunches

CycleSteps == CycleEnds \/ CycleSeesNoCookie \/ CycleStopsMonitor

Commands ==
    \/ DaemonStopReads \/ DaemonStopWrites \/ StartMonitorReads \/ StopMonitorReads
    \/ SetMonitorRunning("monitor start") \/ SetMonitorRunning("monitor stop")

\* The steps of the bot leave the daemon alone.
BotAlone(A) == A /\ UNCHANGED <<rowVars, processVars, usable, client, asked, spent>>

Next ==
    \/ Start \/ Startups \/ Shutdowns \/ LockedOut \/ Crash
    \/ Signal \/ WatcherPolls \/ WatcherDies
    \/ Heartbeat \/ BeatLocked \/ IntervalPasses \/ CycleSteps
    \/ CookieChanges \/ Selfcheck
    \/ Commands
    \/ BotAlone(BotStage) \/ BotAlone(Supervise)
    \/ BotAlone(TelegramGoes) \/ BotAlone(TelegramReturns)

(***************************************************************************)
(* The event loop runs what is ready, every await of the lifecycle and of  *)
(* the bot is under a deadline, jobs fire and intervals pass.  Nobody has  *)
(* to start a daemon, finish a command, or bring Telegram back.            *)
(***************************************************************************)
Fairness ==
    /\ WF_vars(Startups) /\ WF_vars(Shutdowns) /\ WF_vars(WatcherPolls)
    /\ WF_vars(Heartbeat) /\ WF_vars(IntervalPasses) /\ WF_vars(CycleSteps)
    /\ WF_vars(BotAlone(BotStage)) /\ WF_vars(BotAlone(Supervise))

Spec == Init /\ [][Next]_vars /\ Fairness

TypeOK ==
    /\ row \in [pid : 0..Limit["start"], stop : BOOLEAN, monitor : BOOLEAN,
                heartbeat : BOOLEAN]
    /\ degraded \in BOOLEAN
    /\ phase \in Phases /\ pid \in 0..Limit["start"]
    /\ exit \in {"never", "clean", "failed", "crash"}
    /\ stopEvent \in BOOLEAN /\ watcher \in {"none", "alive", "dead"}
    /\ beat \in {"off", "idle", "write", "read", "engine"}
    /\ cycle \in {"none", "running", "stopping"} /\ due \in BOOLEAN
    /\ bot \in BOOLEAN /\ farewell \in {"none", "cancelled"}
    /\ usable \in BOOLEAN /\ client \in [Clients -> {"idle", "read"}]
    /\ asked \in BOOLEAN /\ outlived \in BOOLEAN
    /\ spent \in [Kinds -> Nat] /\ \A k \in Kinds : spent[k] <= Limit[k]
    /\ BotTypeOK

(***************************************************************************)
(* A daemon stops only because it was asked to: by a signal, or by a       *)
(* command that wrote the flag in its lifetime.  A flag a dead daemon left *)
(* behind never stops a new one (T-CLI-7).                                 *)
(***************************************************************************)
StopWasAsked == stopEvent => asked

(***************************************************************************)
(* A clean stop leaves no process id and no heartbeat behind, so that      *)
(* `daemon stop` and the health check see that nobody runs: a beat that    *)
(* was in flight and honours its cancellation does not write them back     *)
(* (run.py:803, 818), however far the stop had got by then.                *)
(***************************************************************************)
CleanRow ==
    phase = "down" /\ exit = "clean" /\ ~outlived => row.pid = NoPid /\ ~row.heartbeat

(***************************************************************************)
(* "Shutdown no longer races an in-flight DB write" (run.py:815): the row  *)
(* is clean after every stop that got to its end, the beat that ignores    *)
(* its cancellation (run.py:811) included.                                 *)
(***************************************************************************)
NoWriteRaced == phase = "down" /\ exit = "clean" => row.pid = NoPid /\ ~row.heartbeat

(***************************************************************************)
(* When the bot has been stopped it stays down: the drain is over before,  *)
(* no supervisor restarts it, and no stage that fails keeps a later one    *)
(* from being tried.  What its own stage failed to stop is excepted.       *)
(***************************************************************************)
BotStaysDown == phase \in {"clear row", "dispose"} => app \cap {"running", "polling"} \subseteq spoiled

(***************************************************************************)
(* `daemon stop` is honoured, even if it comes during the startup, as long *)
(* as the watcher lives (T-CLI-6).                                         *)
(***************************************************************************)
StopHonoured ==
    row.stop /\ phase \notin {"down", "clear"} ~> phase = "down" \/ watcher = "dead"

(***************************************************************************)
(* A monitor that stays on, with a cookie, goes on being run: the hot      *)
(* start needs no restart of the daemon (T-CLI-6, T-DEPLOY-24).            *)
(***************************************************************************)
MonitorRuns ==
    <>[](phase = "up" /\ ~stopEvent /\ row.monitor /\ usable) => []<>(cycle = "running")

(***************************************************************************)
(* While Telegram stays away the restart of the bot is tried again and     *)
(* again, without the daemon being harmed.                                 *)
(***************************************************************************)
RestartKeepsTrying ==
    <>[](phase = "up" /\ bot /\ ~telegram) => []<>(stage = "initialize")

(***************************************************************************)
(* "The failure counter is NOT reset while the bot is down", so that "a    *)
(* failed restart is retried on the next cycle" (bot/supervision.py:17).   *)
(***************************************************************************)
CounterKeptWhileDown ==
    [][supervisor = "checking" /\ supervisor' = "asleep" /\ "polling" \notin app
         => failures' >= failures]_vars

(***************************************************************************)
(* "Emit BEFORE the drain so shutdown observers see it even when the drain *)
(* cancels work in flight" (run.py:805): daemon.stopped reaches the chat.  *)
(***************************************************************************)
StoppedIsTold == phase = "down" /\ exit = "clean" => farewell # "cancelled"
=============================================================================
