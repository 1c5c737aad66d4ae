---------------------------- MODULE DaemonProofs -----------------------------
(***************************************************************************)
(* Theorems about Daemon, for any number of starts, signals, commands,     *)
(* locks and crashes, and whatever the bot does.                           *)
(*                                                                         *)
(* A stop flag that is seen was written in this process's lifetime because *)
(* the first step of a start clears what it inherits and everything that   *)
(* looks at the flag comes later.  A clean stop leaves a clean row because *)
(* a beat that is still in flight after the drain has ignored its          *)
(* cancellation, which the statement excepts.  The bot stays down because  *)
(* the drain ends the only task that restarts it before its teardown       *)
(* begins, and the teardown tries every stage.  The types are an induction *)
(* of their own.                                                           *)
(***************************************************************************)
EXTENDS Daemon, TLAPS

Rows == [pid : Nat, stop : BOOLEAN, monitor : BOOLEAN, heartbeat : BOOLEAN]

RowOK == row \in Rows /\ pid \in Nat

\* Past the first step of a start the flag is not an inherited one.
FlagIsOwn == row.stop /\ phase \notin {"down", "clear"} => asked

\* The watcher exists between Schedule and the drain only, and so does the
\* heartbeat job, but for a beat that ignores its cancellation.
JobsOnlyUp ==
    /\ watcher # "none" => phase = "up"
    /\ beat # "off" => phase = "up" \/ (phase \in Shutdown /\ outlived)

Cleared == row.pid = NoPid /\ ~row.heartbeat

StopInv ==
    /\ RowOK
    /\ FlagIsOwn
    /\ JobsOnlyUp
    /\ StopWasAsked
    /\ phase = "dispose" /\ ~outlived => Cleared
    /\ CleanRow

LEMMA Initially == Init => StopInv
BY DEF Init, StopInv, RowOK, Rows, FlagIsOwn, JobsOnlyUp, StopWasAsked, CleanRow, Cleared, Shutdown, NoPid

\* Steps that leave everything the invariant looks at alone.
LEMMA Aside ==
    ASSUME StopInv, UNCHANGED <<row, phase, pid, stopEvent, watcher, beat, exit, outlived, asked>>
    PROVE  StopInv'
BY DEF StopInv, RowOK, FlagIsOwn, JobsOnlyUp, StopWasAsked, CleanRow, Cleared, Shutdown

LEMMA StartupKeeps ==
    ASSUME StopInv, Startups
    PROVE  StopInv'
<1> USE DEF StopInv, RowOK, Rows, FlagIsOwn, JobsOnlyUp, StopWasAsked, CleanRow, Cleared, Shutdown, NoPid,
            Advance, KeepProcess, KeepRest, rowVars
<1>1. CASE ClearInheritedStopFlag
    BY <1>1 DEF ClearInheritedStopFlag
<1>2. CASE Migrate
    BY <1>2 DEF Migrate
<1>3. CASE RegisterStart
    BY <1>3 DEF RegisterStart
<1>4. CASE MonitorAutostart
    BY <1>4 DEF MonitorAutostart
<1>5. CASE Reconcile
    BY <1>5 DEF Reconcile
<1>6. CASE StartupProbes
    BY <1>6 DEF StartupProbes
<1>7. CASE StartupBot
    BY <1>7 DEF StartupBot
<1>8. CASE BotSettled
    BY <1>8 DEF BotSettled
<1>9. CASE FirstHeartbeat
    BY <1>9 DEF FirstHeartbeat
<1>10. CASE Schedule
    BY <1>10 DEF Schedule
<1> QED BY <1>1, <1>2, <1>3, <1>4, <1>5, <1>6, <1>7, <1>8, <1>9, <1>10 DEF Startups

LEMMA ShutdownKeeps ==
    ASSUME StopInv, Shutdowns
    PROVE  StopInv'
<1> USE DEF StopInv, RowOK, Rows, FlagIsOwn, JobsOnlyUp, StopWasAsked, CleanRow, Cleared, Shutdown, NoPid,
            Advance, KeepProcess, KeepRest, rowVars
<1>1. CASE BeginShutdown
    BY <1>1 DEF BeginShutdown, BeatCancelled, BeatIgnoresCancel, Beaten
<1>2. CASE ShutdownBot
    BY <1>2 DEF ShutdownBot
<1>3. CASE BotStopped
    BY <1>3 DEF BotStopped
<1>4. CASE ClearRuntime
    BY <1>4 DEF ClearRuntime
<1>5. CASE Dispose
    BY <1>5 DEF Dispose, Ends
<1> QED BY <1>1, <1>2, <1>3, <1>4, <1>5 DEF Shutdowns

\* A start, and the ends that are not clean.
LEMMA ProcessKeeps ==
    ASSUME StopInv, Start \/ LockedOut \/ Crash
    PROVE  StopInv'
<1> USE DEF StopInv, RowOK, Rows, FlagIsOwn, JobsOnlyUp, StopWasAsked, CleanRow, Cleared, Shutdown, NoPid,
            rowVars, Ends
<1>1. CASE Start
    BY <1>1 DEF Start
<1>2. CASE LockedOut
    BY <1>2 DEF LockedOut
<1>3. CASE Crash
    BY <1>3 DEF Crash
<1> QED BY <1>1, <1>2, <1>3

LEMMA StopKeeps ==
    ASSUME StopInv, Signal \/ WatcherPolls \/ WatcherDies
    PROVE  StopInv'
<1> USE DEF StopInv, RowOK, Rows, FlagIsOwn, JobsOnlyUp, StopWasAsked, CleanRow, Cleared, Shutdown, NoPid,
            KeepButStop, KeepRest, rowVars
<1>1. CASE Signal
    BY <1>1 DEF Signal
<1>2. CASE WatcherPolls
    BY <1>2 DEF WatcherPolls
<1>3. CASE WatcherDies
    BY <1>3 DEF WatcherDies
<1> QED BY <1>1, <1>2, <1>3

LEMMA HeartbeatKeeps ==
    ASSUME StopInv, Heartbeat \/ BeatLocked \/ IntervalPasses \/ CycleSteps
    PROVE  StopInv'
<1> USE DEF StopInv, RowOK, Rows, FlagIsOwn, JobsOnlyUp, StopWasAsked, CleanRow, Cleared, Shutdown, NoPid,
            KeepButBeat, KeepRest, Beat, Cycle, rowVars
<1>1. CASE BeatFires
    BY <1>1 DEF BeatFires
<1>2. CASE BeatWrites
    BY <1>2 DEF BeatWrites, Beaten
<1>3. CASE BeatReads
    BY <1>3 DEF BeatReads
<1>4. CASE BeatLaunches
    BY <1>4 DEF BeatLaunches
<1>5. CASE BeatLocked
    BY <1>5 DEF BeatLocked
<1>6. CASE IntervalPasses
    BY <1>6 DEF IntervalPasses
<1>7. CASE CycleEnds \/ CycleSeesNoCookie
    <2>1. UNCHANGED <<row, phase, pid, stopEvent, watcher, beat, exit, outlived, asked>>
        BY <1>7 DEF CycleEnds, CycleSeesNoCookie
    <2> QED BY <2>1
<1>8. CASE CycleStopsMonitor
    BY <1>8 DEF CycleStopsMonitor
<1> QED BY <1>1, <1>2, <1>3, <1>4, <1>5, <1>6, <1>7, <1>8 DEF Heartbeat, CycleSteps

LEMMA CommandKeeps ==
    ASSUME StopInv, Commands
    PROVE  StopInv'
<1> USE DEF StopInv, RowOK, Rows, FlagIsOwn, JobsOnlyUp, StopWasAsked, CleanRow, Cleared, Shutdown, NoPid,
            rowVars, processVars
<1>1. CASE DaemonStopReads \/ StartMonitorReads \/ StopMonitorReads
    BY <1>1, Aside DEF DaemonStopReads, StartMonitorReads, StopMonitorReads
<1>2. CASE DaemonStopWrites
    BY <1>2 DEF DaemonStopWrites
<1>3. ASSUME NEW c \in Clients, SetMonitorRunning(c)
      PROVE  StopInv'
  <2>1. row' = [row EXCEPT !.monitor = (c = "monitor start")]
      BY <1>3 DEF SetMonitorRunning
  <2>2. UNCHANGED <<phase, pid, stopEvent, watcher, beat, exit, outlived, asked>>
      BY <1>3 DEF SetMonitorRunning
  <2>3. row' \in Rows /\ row'.stop = row.stop /\ row'.pid = row.pid /\ row'.heartbeat = row.heartbeat
      BY <2>1
  <2> QED BY <2>2, <2>3
<1> QED BY <1>1, <1>2, <1>3 DEF Commands, Clients

LEMMA Inductive == StopInv /\ [Next]_vars => StopInv'
<1> SUFFICES ASSUME StopInv, [Next]_vars PROVE StopInv'
    OBVIOUS
<1>1. CASE CookieChanges \/ Selfcheck
    BY <1>1, Aside DEF CookieChanges, Selfcheck, rowVars, processVars
<1>2. CASE BotAlone(BotStage) \/ BotAlone(Supervise)
    BY <1>2, Aside DEF BotAlone, rowVars, processVars
<1>3. CASE BotAlone(TelegramGoes) \/ BotAlone(TelegramReturns)
    BY <1>3, Aside DEF BotAlone, rowVars, processVars
<1>4. CASE UNCHANGED vars
    BY <1>4, Aside DEF vars, rowVars, processVars
<1> QED
    BY <1>1, <1>2, <1>3, <1>4, StartupKeeps, ShutdownKeeps, ProcessKeeps, StopKeeps,
       HeartbeatKeeps, CommandKeeps DEF Next

LEMMA Invariant == Spec => []StopInv
<1>1. Init /\ [][Next]_vars => []StopInv
    BY Initially, Inductive, PTL
<1> QED BY <1>1, PTL DEF Spec

-----------------------------------------------------------------------------

\* A daemon stops only because this process was asked to, in any mixture of
\* starts, commands, signals and crashes (T-CLI-7).
THEOREM StopsAreAskedFor == Spec => []StopWasAsked
<1>1. StopInv => StopWasAsked
    BY DEF StopInv
<1> QED BY <1>1, Invariant, PTL

\* A clean stop leaves neither a process id nor a heartbeat in the row, whatever
\* beat or command was in flight when it began, unless that beat ignored its
\* cancellation.
THEOREM CleanStopClearsRow == Spec => []CleanRow
<1>1. StopInv => CleanRow
    BY DEF StopInv
<1> QED BY <1>1, Invariant, PTL

-----------------------------------------------------------------------------
(* The bot.                                                                *)

BeforeBot == {"down", "clear", "migrate", "register", "autostart", "reconcile", "probe", "bot"}

\* Nothing is up but what a failed stage of a stop has left.
BotDown == app \cap {"running", "polling"} \subseteq spoiled

\* What the stages of a teardown before this one have stopped.
StoppedSoFar ==
    /\ stage = "app.stop" => app \cap {"polling"} \subseteq spoiled
    /\ stage = "app.shutdown" => BotDown

\* Who drives the bot in which phase.
DriverOK ==
    /\ driver \in Drivers
    /\ driver = "supervisor" <=> supervisor = "restarting"
    /\ driver \in {"startup", "cleanup"} => phase = "bot starting" /\ supervisor = "none"
    /\ driver = "shutdown" => phase = "bot stopping"
    /\ phase \in Shutdown => supervisor = "none"
    /\ phase \in BeforeBot => app = {} /\ driver = "nobody" /\ supervisor = "none"
    /\ phase \in {"beat", "schedule", "up"} /\ ~bot => supervisor = "none"

\* With no driver and no supervisor the bot is down, but for the moment
\* between the drain and the teardown.
DownWhenAlone ==
    driver = "nobody" /\ supervisor = "none" /\ ~(phase = "stop bot" /\ bot) => BotDown

BotInv ==
    /\ DriverOK
    /\ driver \in {"cleanup", "shutdown"} => StoppedSoFar
    /\ DownWhenAlone

LEMMA StopStages == {Stopping[i] : i \in 1..3} = {"updater.stop", "app.stop", "app.shutdown"}
<1>1. 1..3 = {1, 2, 3}
    OBVIOUS
<1> QED BY <1>1 DEF Stopping

\* Each stage of a teardown stops its part, fails to and is excepted, or had
\* nothing to stop; none undoes what an earlier one did.
LEMMA StageStops ==
    ASSUME NEW d, StopStage(d), StoppedSoFar
    PROVE  /\ stage \in {"updater.stop", "app.stop", "app.shutdown"}
           /\ stage = "updater.stop" => app' \cap {"polling"} \subseteq spoiled'
           /\ stage \in {"app.stop", "app.shutdown"} => BotDown'
<1>1. stage \in {"updater.stop", "app.stop", "app.shutdown"}
    BY StopStages DEF StopStage
<1>2. CASE stage = "updater.stop"
  <2>1. Returns => app' = app \ {"polling"} /\ spoiled' = spoiled
      BY <1>2 DEF Returns, Effect
  <2>2. Raises => \/ "polling" \notin app /\ app' = app
                  \/ spoiled' = spoiled \cup ({"polling"} \cap app')
      BY <1>2 DEF Raises, Accepts, Effect, Stopped, NeedsTelegram
  <2> QED BY <1>2, <2>1, <2>2 DEF StopStage
<1>3. CASE stage = "app.stop"
  <2>1. app \cap {"polling"} \subseteq spoiled
      BY <1>3 DEF StoppedSoFar
  <2>2. Returns => app' = app \ {"running"} /\ spoiled' = spoiled
      BY <1>3 DEF Returns, Effect
  <2>3. Raises => \/ "running" \notin app /\ app' = app /\ spoiled' = spoiled
                  \/ /\ spoiled' = spoiled \cup ({"running"} \cap app')
                     /\ app' \in {app, app \ {"running"}}
      BY <1>3 DEF Raises, Accepts, Effect, Stopped, NeedsTelegram
  <2> QED BY <1>3, <2>1, <2>2, <2>3 DEF StopStage, BotDown
<1>4. CASE stage = "app.shutdown"
  <2>1. BotDown
      BY <1>4 DEF StoppedSoFar
  <2>2. app' \in {app, {}} /\ spoiled \subseteq spoiled'
      BY <1>4 DEF StopStage, Returns, Raises, Accepts, Effect, Stopped, NeedsTelegram
  <2> QED BY <1>4, <2>1, <2>2 DEF BotDown
<1> QED BY <1>1, <1>2, <1>3, <1>4

\* Steps that leave the bot, its supervisor and the phase alone.
LEMMA BotAside ==
    ASSUME BotInv, UNCHANGED <<phase, bot, app, driver, stage, supervisor, spoiled>>
    PROVE  BotInv'
BY DEF BotInv, DriverOK, StoppedSoFar, DownWhenAlone, BotDown

\* The end of a process ends its bot.
LEMMA BotEnds ==
    ASSUME NEW how, Ends(how)
    PROVE  BotInv'
BY DEF Ends, BotGone, BotInv, DriverOK, StoppedSoFar, DownWhenAlone, BotDown, Drivers, BeforeBot,
       Shutdown

LEMMA BotInitially == Init => BotInv
BY DEF Init, BotInit, BotInv, DriverOK, StoppedSoFar, DownWhenAlone, BotDown, Drivers, BeforeBot,
       Shutdown

\* The phases of a start, and of a stop.
LEMMA StartupBotKeeps ==
    ASSUME BotInv, Start \/ Startups
    PROVE  BotInv'
<1> USE DEF BotInv, DriverOK, StoppedSoFar, DownWhenAlone, BotDown, BeforeBot, Shutdown
<1>1. CASE /\ UNCHANGED botVars /\ bot' = bot
           /\ \/ phase \in BeforeBot /\ phase' \in BeforeBot \cup {"beat"}
              \/ phase \in {"beat", "schedule"} /\ phase' \in {"schedule", "up"}
    BY <1>1 DEF botVars
<1>2. CASE StartupBot /\ BotToken
  <2>1. /\ phase = "bot" /\ phase' = "bot starting" /\ driver' = "startup"
        /\ stage' = "initialize" /\ UNCHANGED <<app, supervisor, spoiled>>
      BY <1>2 DEF StartupBot, StartBot, Begin, Starting
  <2> QED BY <2>1 DEF Drivers
<1>3. CASE BotSettled
  <2>1. /\ phase = "bot starting" /\ phase' = "beat" /\ bot' = (supervisor # "none")
        /\ driver \notin {"startup", "cleanup"} /\ UNCHANGED botVars
      BY <1>3 DEF BotSettled, Advance
  <2> QED BY <2>1 DEF botVars
<1>4. CASE Start \/ ClearInheritedStopFlag \/ Migrate \/ RegisterStart \/ MonitorAutostart \/ Reconcile
    BY <1>1, <1>4
    DEF Start, ClearInheritedStopFlag, Migrate, RegisterStart, MonitorAutostart, Reconcile,
        Advance, KeepProcess
<1>5. CASE StartupProbes \/ FirstHeartbeat \/ Schedule \/ (StartupBot /\ ~BotToken)
    BY <1>1, <1>5 DEF StartupProbes, FirstHeartbeat, Schedule, StartupBot, Advance, KeepProcess
<1> QED BY <1>2, <1>3, <1>4, <1>5 DEF Startups

LEMMA ShutdownBotKeeps ==
    ASSUME BotInv, Shutdowns
    PROVE  BotInv'
<1> USE DEF BotInv, DriverOK, StoppedSoFar, DownWhenAlone, BotDown, BeforeBot, Shutdown
<1>1. CASE BeginShutdown
  <2>1. /\ phase = "up" /\ phase' = "stop bot" /\ bot' = bot /\ supervisor' = "none"
        /\ driver = "supervisor" => driver' = "nobody" /\ bot
        /\ driver # "supervisor" => UNCHANGED <<app, driver, stage>>
        /\ spoiled' = spoiled
      BY <1>1 DEF BeginShutdown, Advance, SupervisorCancelled, EndOfSequence
  <2>2. driver \in {"nobody", "supervisor"}
      BY <2>1 DEF Drivers
  <2> QED BY <2>1, <2>2 DEF Drivers
<1>2. CASE ShutdownBot
  <2>1. CASE bot
    <3>1. /\ phase = "stop bot" /\ phase' = "bot stopping" /\ driver' = "shutdown"
          /\ stage' = "updater.stop" /\ UNCHANGED <<bot, app, supervisor, spoiled>>
        BY <1>2, <2>1 DEF ShutdownBot, StopBot, Begin, Stopping, KeepProcess
    <3> QED BY <3>1 DEF Drivers
  <2>2. CASE ~bot
      BY <1>2, <2>2 DEF ShutdownBot, KeepProcess, botVars
  <2> QED BY <2>1, <2>2
<1>3. CASE BotStopped
    BY <1>3 DEF BotStopped, Advance, KeepProcess, botVars
<1>4. CASE ClearRuntime
    BY <1>4 DEF ClearRuntime, Advance, KeepProcess, botVars
<1>5. CASE Dispose
    BY <1>5, BotEnds DEF Dispose
<1> QED BY <1>1, <1>2, <1>3, <1>4, <1>5 DEF Shutdowns

\* A stage of _start_bot, or of a teardown.
LEMMA StageKeeps ==
    ASSUME BotInv, BotAlone(BotStage)
    PROVE  BotInv'
<1>1. phase' = phase /\ bot' = bot
    BY DEF BotAlone, processVars
<1>2. CASE StartupStage
  <2>1. driver = "startup" /\ phase = "bot starting" /\ supervisor = "none"
      BY <1>2 DEF StartupStage, BotInv, DriverOK
  <2>2. \/ driver' = "nobody" /\ supervisor' = "asleep"
        \/ driver' = "startup" /\ supervisor' = "none"
        \/ driver' = "cleanup" /\ supervisor' = "none" /\ stage' = "updater.stop"
      BY <1>2, <2>1 DEF StartupStage, EndOfSequence, Begin, Stopping
  <2> QED BY <1>1, <2>1, <2>2
          DEF BotInv, DriverOK, StoppedSoFar, DownWhenAlone, BeforeBot, Shutdown, Drivers
<1>3. CASE TeardownStage
  <2>1. /\ driver \in {"cleanup", "shutdown"} /\ supervisor = "none" /\ supervisor' = "none"
        /\ phase \in {"bot starting", "bot stopping"}
      BY <1>3 DEF TeardownStage, BotInv, DriverOK, Shutdown
  <2>2. /\ stage \in {"updater.stop", "app.stop", "app.shutdown"}
        /\ stage = "updater.stop" => app' \cap {"polling"} \subseteq spoiled'
        /\ stage \in {"app.stop", "app.shutdown"} => BotDown'
      BY <1>3, <2>1, StageStops DEF TeardownStage, BotInv
  <2>3. /\ stage = "updater.stop" => stage' = "app.stop" /\ driver' = driver
        /\ stage = "app.stop" => stage' = "app.shutdown" /\ driver' = driver
        /\ stage = "app.shutdown" => driver' = "nobody"
      BY <1>3 DEF TeardownStage, After, EndOfSequence
  <2> QED BY <1>1, <2>1, <2>2, <2>3
          DEF BotInv, DriverOK, StoppedSoFar, DownWhenAlone, BeforeBot, Shutdown, Drivers
<1> QED BY <1>2, <1>3 DEF BotAlone, BotStage

\* The supervisor is never alone with a bot that is down for good.
LEMMA SuperviseKeeps ==
    ASSUME BotInv, BotAlone(Supervise)
    PROVE  BotInv'
<1>1. phase' = phase /\ bot' = bot
    BY DEF BotAlone, processVars
<1>2. supervisor # "none" /\ supervisor' # "none"
    BY DEF BotAlone, Supervise, SupervisorWakes, CheckPasses, CheckFails, RestartStops,
           RestartStarts, StopStage, BotInv, DriverOK
<1>3. \/ driver' = driver /\ (supervisor' = "restarting" <=> supervisor = "restarting")
      \/ driver' = "supervisor" /\ supervisor' = "restarting"
      \/ driver' = "nobody" /\ supervisor' = "asleep"
    BY DEF BotAlone, Supervise, SupervisorWakes, CheckPasses, CheckFails, RestartStops,
           RestartStarts, Begin, EndOfSequence
<1>4. driver \notin {"startup", "cleanup"}
    BY <1>2 DEF BotInv, DriverOK
<1>5. driver # "shutdown"
    BY <1>2 DEF BotInv, DriverOK, Shutdown
<1> QED BY <1>1, <1>2, <1>3, <1>4, <1>5
        DEF BotInv, DriverOK, DownWhenAlone, BeforeBot, Shutdown, Drivers

LEMMA BotInductive == BotInv /\ [Next]_vars => BotInv'
<1> SUFFICES ASSUME BotInv, [Next]_vars PROVE BotInv'
    OBVIOUS
<1>1. CASE LockedOut \/ Crash
    BY <1>1, BotEnds DEF LockedOut, Crash
<1>2. CASE Signal \/ WatcherPolls \/ WatcherDies
    BY <1>2, BotAside DEF Signal, WatcherPolls, WatcherDies, KeepButStop, botVars
<1>3. CASE Heartbeat \/ BeatLocked \/ IntervalPasses \/ CycleSteps
    BY <1>3, BotAside
    DEF Heartbeat, BeatFires, BeatWrites, BeatReads, BeatLaunches, BeatLocked, IntervalPasses,
        CycleSteps, CycleEnds, CycleSeesNoCookie, CycleStopsMonitor, KeepButBeat, botVars
<1>4. CASE CookieChanges \/ Selfcheck \/ Commands
    BY <1>4, BotAside
    DEF CookieChanges, Selfcheck, Commands, DaemonStopReads, DaemonStopWrites, StartMonitorReads,
        StopMonitorReads, SetMonitorRunning, processVars, botVars
<1>5. CASE BotAlone(TelegramGoes) \/ BotAlone(TelegramReturns)
    BY <1>5, BotAside DEF BotAlone, TelegramGoes, TelegramReturns, processVars
<1>6. CASE UNCHANGED vars
    BY <1>6, BotAside DEF vars, processVars, botVars
<1> QED
    BY <1>1, <1>2, <1>3, <1>4, <1>5, <1>6, StartupBotKeeps, ShutdownBotKeeps, StageKeeps,
       SuperviseKeeps DEF Next

\* Once the daemon has stopped its bot nothing of it is up but what a failed
\* stage of a stop has left, and nothing starts it again: at whatever stage of
\* a start, a restart or a cleanup the stop came, whether or not Telegram
\* answered (T-BOT-1; the drain before stop_bot_polling in the shutdown).
THEOREM StoppedBotStaysDown == Spec => []BotStaysDown
<1>1. BotInv => BotStaysDown
    <2>1. phase \in {"clear row", "dispose"} /\ BotInv => driver = "nobody" /\ supervisor = "none"
        BY DEF BotInv, DriverOK, Shutdown, Drivers
    <2> QED BY <2>1 DEF BotInv, DownWhenAlone, BotDown, BotStaysDown
<1>2. Init /\ [][Next]_vars => []BotInv
    BY BotInitially, BotInductive, PTL
<1> QED BY <1>1, <1>2, PTL DEF Spec

-----------------------------------------------------------------------------
(* Types.                                                                  *)

LEMMA Sequences == /\ {Starting[i] : i \in 1..3} = {"initialize", "start", "start_polling"}
                   /\ {Stopping[i] : i \in 1..3} = {"updater.stop", "app.stop", "app.shutdown"}
                   /\ Stages = {"initialize", "start", "start_polling",
                                "updater.stop", "app.stop", "app.shutdown"}
                   /\ Starting[1] = "initialize" /\ Stopping[1] = "updater.stop"
<1>1. 1..3 = {1, 2, 3}
    OBVIOUS
<1>2. /\ {Starting[i] : i \in 1..3} = {"initialize", "start", "start_polling"}
      /\ Starting[1] = "initialize"
    BY <1>1 DEF Starting
<1>3. /\ {Stopping[i] : i \in 1..3} = {"updater.stop", "app.stop", "app.shutdown"}
      /\ Stopping[1] = "updater.stop"
    BY <1>1 DEF Stopping
<1> QED BY <1>2, <1>3 DEF Stages

\* What follows a stage is one, or the end.
LEMMA AfterType ==
    ASSUME NEW s \in Stages
    PROVE  After(s) \in Stages \cup {"none"}
BY Sequences DEF After

\* What a stage may do to the application, however it ends.
LEMMA StageType ==
    ASSUME BotTypeOK, stage \in Stages, Returns \/ Raises
    PROVE  app' \subseteq Parts /\ spoiled' \subseteq {"running", "polling"}
           /\ stageFaults' \in 0..StageFaults
<1>1. Effect(stage) \subseteq Parts
    BY Sequences DEF Effect, BotTypeOK, Parts
<1>2. Stopped(stage) \subseteq {"running", "polling"}
    BY Sequences DEF Stopped
<1>3. app' \subseteq Parts /\ spoiled' \subseteq {"running", "polling"}
    BY <1>1, <1>2 DEF Returns, Raises, BotTypeOK, Parts
<1>4. stageFaults' = stageFaults \/ (stageFaults < StageFaults /\ stageFaults' = stageFaults + 1)
    BY DEF Returns, Raises
<1> QED BY <1>3, <1>4, PollingAssumption DEF BotTypeOK

LEMMA BotStepType ==
    ASSUME BotTypeOK, StartBot \/ StopBot \/ BotStage \/ Supervise
    PROVE  BotTypeOK'
<1> USE PollingAssumption
<1>1. CASE StartBot \/ StopBot
    BY <1>1, Sequences DEF StartBot, StopBot, Begin, BotTypeOK, Drivers, spentVars
<1>2. CASE StartupStage \/ RestartStarts \/ TeardownStage \/ RestartStops
  <2>1. /\ stage \in Stages /\ driver # "nobody"
        /\ Returns \/ Raises
    <3>1. driver # "nobody"
        BY <1>2 DEF StartupStage, RestartStarts, TeardownStage, RestartStops, StopStage
    <3>2. stage # "none" /\ stage \in Stages
        BY <3>1 DEF BotTypeOK
    <3>3. Returns \/ Raises
        BY <1>2 DEF StartupStage, RestartStarts, TeardownStage, RestartStops, StopStage
    <3> QED BY <3>1, <3>2, <3>3
  <2>2. /\ app' \subseteq Parts /\ spoiled' \subseteq {"running", "polling"}
        /\ stageFaults' \in 0..StageFaults
        /\ After(stage) \in Stages \cup {"none"}
      BY <2>1, StageType, AfterType
  <2>3. CASE StartupStage
    <3>1. \/ driver' = "nobody" /\ stage' = "none" /\ supervisor' = "asleep"
          \/ /\ driver' = driver /\ stage' = After(stage) /\ After(stage) # "none"
             /\ supervisor' = supervisor
          \/ driver' = "cleanup" /\ stage' = "updater.stop" /\ supervisor' = supervisor
        BY <2>3, Sequences DEF StartupStage, EndOfSequence, Begin
    <3>2. UNCHANGED <<telegram, failures, outages>> /\ driver = "startup"
        BY <2>3 DEF StartupStage
    <3> QED BY <2>2, <3>1, <3>2, Sequences DEF BotTypeOK, Drivers
  <2>4. CASE TeardownStage
    <3>1. /\ \/ driver' = "nobody" /\ stage' = "none"
             \/ driver' = driver /\ stage' = After(stage) /\ After(stage) # "none"
          /\ UNCHANGED <<telegram, supervisor, failures, outages>>
          /\ driver \in {"cleanup", "shutdown"}
        BY <2>4 DEF TeardownStage, EndOfSequence
    <3> QED BY <2>2, <3>1 DEF BotTypeOK, Drivers
  <2>5. CASE RestartStops
    <3>1. /\ stage' = IF After(stage) = "none" THEN "initialize" ELSE After(stage)
          /\ UNCHANGED <<telegram, driver, supervisor, failures, outages>>
        BY <2>5 DEF RestartStops
    <3>2. stage' \in Stages /\ stage' # "none"
        BY <2>2, <3>1, Sequences
    <3> QED BY <2>1, <2>2, <3>1, <3>2 DEF BotTypeOK
  <2>6. CASE RestartStarts
    <3>1. /\ \/ driver' = "nobody" /\ stage' = "none" /\ supervisor' = "asleep"
             \/ /\ driver' = driver /\ stage' = After(stage) /\ After(stage) # "none"
                /\ supervisor' = supervisor
          /\ failures' \in {failures, 0} /\ UNCHANGED <<telegram, outages>>
          /\ driver = "supervisor"
        BY <2>6 DEF RestartStarts, EndOfSequence
    <3> QED BY <2>2, <3>1 DEF BotTypeOK, Drivers
  <2> QED BY <1>2, <2>3, <2>4, <2>5, <2>6
<1>3. CASE SupervisorWakes \/ CheckPasses
  <2>1. /\ UNCHANGED <<app, telegram, driver, stage, spoiled, outages, stageFaults>>
        /\ failures' \in {failures, 0}
        /\ supervisor \in {"asleep", "checking"} /\ supervisor' \in {"asleep", "checking"}
      BY <1>3 DEF SupervisorWakes, CheckPasses, spentVars
  <2>2. failures' \in 0..MaxFailures
      BY <2>1 DEF BotTypeOK
  <2> QED BY <2>1, <2>2 DEF BotTypeOK
<1>4. CASE CheckFails
  <2>1. failures' \in 0..MaxFailures /\ UNCHANGED <<app, telegram, spoiled, outages, stageFaults>>
      BY <1>4 DEF CheckFails, BotTypeOK, spentVars
  <2>2. \/ driver' = "supervisor" /\ stage' = "updater.stop" /\ supervisor' = "restarting"
        \/ UNCHANGED <<driver, stage>> /\ supervisor' = "asleep" /\ supervisor = "checking"
      BY <1>4, Sequences DEF CheckFails, Begin
  <2> QED BY <2>1, <2>2, Sequences DEF BotTypeOK, Drivers
<1> QED BY <1>1, <1>2, <1>3, <1>4 DEF BotStage, Supervise

\* The bot's part of the other steps: the drain, the end, and Telegram.
LEMMA BotOtherType ==
    ASSUME BotTypeOK, SupervisorCancelled \/ BotGone \/ TelegramGoes \/ TelegramReturns
    PROVE  BotTypeOK'
<1> USE PollingAssumption
<1>1. CASE SupervisorCancelled
  <2>1. /\ supervisor' = "none" /\ UNCHANGED <<telegram, failures, spoiled, spentVars>>
        /\ \/ /\ driver = "supervisor" /\ driver' = "nobody" /\ stage' = "none"
              /\ app' \in {app, Effect(stage)}
           \/ driver # "supervisor" /\ UNCHANGED <<app, driver, stage>>
      BY <1>1 DEF SupervisorCancelled, EndOfSequence
  <2>2. driver = "supervisor" => Effect(stage) \subseteq Parts
      BY Sequences DEF Effect, BotTypeOK, Parts
  <2> QED BY <2>1, <2>2 DEF BotTypeOK, Drivers, spentVars
<1>2. CASE BotGone
    BY <1>2 DEF BotGone, BotTypeOK, Drivers, spentVars
<1>3. CASE TelegramGoes \/ TelegramReturns
  <2>1. /\ UNCHANGED <<app, driver, stage, supervisor, failures, spoiled, stageFaults>>
        /\ telegram' \in BOOLEAN
        /\ outages' = outages \/ (outages < Outages /\ outages' = outages + 1)
      BY <1>3 DEF TelegramGoes, TelegramReturns, spentVars
  <2>2. outages' \in 0..Outages
      BY <2>1 DEF BotTypeOK
  <2> QED BY <2>1, <2>2 DEF BotTypeOK
<1> QED BY <1>1, <1>2, <1>3

\* The pid is the number of the start, which is what bounds it.
TypeInv == TypeOK /\ pid = spent["start"]

LEMMA SpendType ==
    ASSUME TypeOK, NEW k \in Kinds, Spend(k)
    PROVE  /\ spent' \in [Kinds -> Nat] /\ \A j \in Kinds : spent'[j] <= Limit[j]
           /\ spent'["start"] = IF k = "start" THEN spent["start"] + 1 ELSE spent["start"]
           /\ spent'["start"] \in 0..Limit["start"]
<1>1. Kinds = {"start", "signal", "crash", "locked", "cookie", "stop", "monitor", "selfcheck"}
      /\ Limit \in [Kinds -> Nat]
    BY DaemonAssumption
<1>2. spent' = [spent EXCEPT ![k] = @ + 1] /\ spent[k] < Limit[k] /\ spent[k] \in Nat
    BY DEF Spend, TypeOK
<1>3. \A j \in Kinds : spent'[j] = IF j = k THEN spent[k] + 1 ELSE spent[j]
    BY <1>2 DEF TypeOK
<1>4. spent' \in [Kinds -> Nat]
    BY <1>2 DEF TypeOK
<1>5. \A j \in Kinds : spent'[j] <= Limit[j]
    BY <1>1, <1>2, <1>3 DEF TypeOK
<1>6. spent'["start"] \in 0..Limit["start"]
    BY <1>1, <1>4, <1>5
<1> QED BY <1>1, <1>3, <1>4, <1>5, <1>6

\* What the steps may write.
RowType == [pid : 0..Limit["start"], stop : BOOLEAN, monitor : BOOLEAN, heartbeat : BOOLEAN]

LEMMA KindsKnown ==
    /\ {"start", "signal", "crash", "locked", "cookie", "stop", "monitor", "selfcheck"} = Kinds
    /\ Limit["start"] \in Nat /\ 0 \in 0..Limit["start"]
BY DaemonAssumption

LEMMA RowTypes ==
    ASSUME NEW r \in RowType, NEW p \in 0..Limit["start"], NEW b \in BOOLEAN
    PROVE  /\ [r EXCEPT !.stop = b] \in RowType
           /\ [r EXCEPT !.monitor = b] \in RowType
           /\ [r EXCEPT !.pid = p, !.monitor = FALSE] \in RowType
           /\ [r EXCEPT !.pid = p, !.heartbeat = TRUE] \in RowType
BY DEF RowType

LEMMA PhasesAre ==
    Phases = {"down", "clear", "migrate", "register", "autostart", "reconcile", "probe", "bot",
              "bot starting", "beat", "schedule", "up", "stop bot", "bot stopping", "clear row",
              "dispose"}
<1>1. 1..9 = {1, 2, 3, 4, 5, 6, 7, 8, 9}
    OBVIOUS
<1>2. Starts = {"clear", "migrate", "register", "autostart", "reconcile", "probe", "bot",
                "beat", "schedule"}
    BY <1>1 DEF Starts, Startup
<1> QED BY <1>2 DEF Phases, Shutdown

LEMMA InitTyped == Init => TypeInv
<1> SUFFICES ASSUME Init PROVE TypeInv
    OBVIOUS
<1>1. BotTypeOK
    BY PollingAssumption DEF Init, BotInit, BotTypeOK, Drivers, Parts, Stages
<1>2. spent = [k \in Kinds |-> 0] /\ \A k \in Kinds : Limit[k] \in Nat
    BY DaemonAssumption DEF Init
<1>3. spent \in [Kinds -> Nat] /\ (\A k \in Kinds : spent[k] <= Limit[k]) /\ spent["start"] = 0
    BY <1>2, KindsKnown
<1>4. row \in RowType
    BY KindsKnown DEF Init, RowType, NoPid
<1> QED
    BY <1>1, <1>3, <1>4, KindsKnown
    DEF Init, TypeInv, TypeOK, RowType, Phases, NoPid

LEMMA StartTyped ==
    ASSUME TypeInv, Start
    PROVE  TypeInv'
<1>1. /\ spent' \in [Kinds -> Nat] /\ \A j \in Kinds : spent'[j] <= Limit[j]
      /\ spent'["start"] = spent["start"] + 1 /\ spent'["start"] \in 0..Limit["start"]
    <2>1. TypeOK /\ Spend("start") /\ "start" \in Kinds
        BY KindsKnown DEF TypeInv, Start
    <2> QED BY <2>1, SpendType
<1>2. pid' = pid + 1 /\ BotTypeOK'
    BY DEF Start, TypeInv, TypeOK, BotTypeOK, botVars
<1>3. /\ UNCHANGED <<row, degraded, watcher, beat, cycle, bot, usable, client>>
      /\ phase' = "clear" /\ exit' = "never" /\ farewell' = "none"
      /\ stopEvent' = FALSE /\ due' = TRUE /\ asked' = FALSE /\ outlived' = FALSE
    BY DEF Start, rowVars
<1>4. pid' \in 0..Limit["start"] /\ pid' = spent'["start"]
    BY <1>1, <1>2 DEF TypeInv
<1>5. phase' \in Phases
    BY <1>3, PhasesAre
<1>6. row' \in RowType /\ client' \in [Clients -> {"idle", "read"}]
    BY <1>3 DEF TypeInv, TypeOK, RowType
<1>7. /\ degraded' \in BOOLEAN /\ watcher' \in {"none", "alive", "dead"}
      /\ beat' \in {"off", "idle", "write", "read", "engine"}
      /\ cycle' \in {"none", "running", "stopping"} /\ bot' \in BOOLEAN /\ usable' \in BOOLEAN
    BY <1>3 DEF TypeInv, TypeOK
<1> QED BY <1>1, <1>2, <1>3, <1>4, <1>5, <1>6, <1>7 DEF TypeInv, TypeOK, RowType

\* The phases of a start spend nothing.
LEMMA StartupTyped ==
    ASSUME TypeInv, Startups
    PROVE  TypeInv'
<1>1. row' \in RowType
  <2>1. row \in RowType /\ pid \in 0..Limit["start"]
      BY DEF TypeInv, TypeOK, RowType
  <2>2. \/ row' = row
        \/ \E b \in BOOLEAN : row' \in {[row EXCEPT !.stop = b], [row EXCEPT !.monitor = b]}
        \/ row' = [row EXCEPT !.pid = pid, !.monitor = FALSE]
        \/ row' = [row EXCEPT !.pid = pid, !.heartbeat = TRUE]
      BY DEF Startups, ClearInheritedStopFlag, Migrate, RegisterStart, MonitorAutostart, Reconcile,
             StartupProbes, StartupBot, BotSettled, FirstHeartbeat, Schedule, rowVars
  <2> QED BY <2>1, <2>2, RowTypes
<1>2. /\ degraded' \in BOOLEAN
      /\ UNCHANGED <<pid, stopEvent, cycle, due, farewell, exit, outlived, usable, client,
                     asked, spent>>
      /\ bot' \in BOOLEAN
      /\ watcher' \in {"none", "alive", "dead"}
      /\ beat' \in {"off", "idle", "write", "read", "engine"}
    BY DEF Startups, ClearInheritedStopFlag, Migrate, RegisterStart, MonitorAutostart, Reconcile,
           StartupProbes, StartupBot, BotSettled, FirstHeartbeat, Schedule, rowVars, KeepProcess,
           KeepRest, TypeInv, TypeOK
<1>3. phase' \in Phases
    BY PhasesAre
    DEF Startups, ClearInheritedStopFlag, Migrate, RegisterStart, MonitorAutostart, Reconcile,
        StartupProbes, StartupBot, BotSettled, FirstHeartbeat, Schedule, Advance
<1>4. BotTypeOK'
  <2>1. StartBot \/ UNCHANGED botVars
      BY DEF Startups, ClearInheritedStopFlag, Migrate, RegisterStart, MonitorAutostart, Reconcile,
             StartupProbes, StartupBot, BotSettled, FirstHeartbeat, Schedule
  <2>2. BotTypeOK
      BY DEF TypeInv, TypeOK
  <2>3. CASE UNCHANGED botVars
      BY <2>2, <2>3 DEF BotTypeOK, botVars
  <2> QED BY <2>1, <2>2, <2>3, BotStepType
<1> QED BY <1>1, <1>2, <1>3, <1>4 DEF TypeInv, TypeOK, RowType

\* The end of a process, with what it spends.
LEMMA EndsTyped ==
    ASSUME TypeInv, NEW how \in {"clean", "failed", "crash"}, Ends(how),
           farewell' = farewell,
           spent' = spent \/ Spend("locked") \/ Spend("crash")
    PROVE  TypeInv'
<1>1. /\ spent' \in [Kinds -> Nat] /\ \A j \in Kinds : spent'[j] <= Limit[j]
      /\ spent'["start"] = spent["start"]
    BY KindsKnown, SpendType DEF TypeInv, TypeOK
<1>2. BotTypeOK'
    BY BotOtherType DEF Ends, TypeInv, TypeOK
<1> QED BY <1>1, <1>2, PhasesAre DEF Ends, TypeInv, TypeOK, rowVars

LEMMA ShutdownTyped ==
    ASSUME TypeInv, Shutdowns
    PROVE  TypeInv'
<1>0. TypeOK /\ BotTypeOK /\ row \in RowType /\ pid \in 0..Limit["start"]
    BY DEF TypeInv, TypeOK, RowType
<1>1. CASE BeginShutdown
  <2>1. row' \in RowType
    <3>1. row' \in {row, [row EXCEPT !.pid = pid, !.heartbeat = TRUE]}
        BY <1>1 DEF BeginShutdown, BeatCancelled, BeatIgnoresCancel, Beaten
    <3> QED BY <1>0, <3>1, RowTypes
  <2>2. BotTypeOK'
      BY <1>0, <1>1, BotOtherType DEF BeginShutdown
  <2>3. farewell' \in {"none", "cancelled"} /\ phase' = "stop bot"
      BY <1>1 DEF BeginShutdown, Farewell, Advance
  <2>4. beat' \in {"off", beat} /\ outlived' \in BOOLEAN
      BY <1>1 DEF BeginShutdown, BeatCancelled, BeatIgnoresCancel
  <2> QED BY <1>1, <2>1, <2>2, <2>3, <2>4, PhasesAre
          DEF BeginShutdown, TypeInv, TypeOK, RowType, KeepRest
<1>2. CASE ShutdownBot \/ BotStopped
  <2>1. StopBot \/ UNCHANGED botVars
      BY <1>2 DEF ShutdownBot, BotStopped
  <2>2. BotTypeOK'
    <3>1. CASE UNCHANGED botVars
        BY <1>0, <3>1 DEF BotTypeOK, botVars
    <3> QED BY <1>0, <2>1, <3>1, BotStepType
  <2>3. phase' \in Phases
      BY <1>2, PhasesAre DEF ShutdownBot, BotStopped, Advance
  <2>4. UNCHANGED <<row, degraded, pid, stopEvent, watcher, beat, cycle, due, bot, farewell, exit,
                    outlived, usable, client, asked, spent>>
      BY <1>2 DEF ShutdownBot, BotStopped, KeepProcess, KeepRest, rowVars
  <2> QED BY <2>2, <2>3, <2>4 DEF TypeInv, TypeOK
<1>3. CASE ClearRuntime
  <2>1. row' \in RowType
      BY <1>3, KindsKnown DEF ClearRuntime, RowType, NoPid
  <2>2. BotTypeOK'
      BY <1>0, <1>3 DEF ClearRuntime, BotTypeOK, botVars
  <2>3. /\ phase' = "dispose"
        /\ UNCHANGED <<degraded, pid, stopEvent, watcher, beat, cycle, due, bot, farewell, exit,
                       outlived, usable, client, asked, spent>>
      BY <1>3 DEF ClearRuntime, Advance, KeepProcess, KeepRest
  <2>4. phase' \in Phases
      BY <2>3, PhasesAre
  <2> QED BY <2>1, <2>2, <2>3, <2>4 DEF TypeInv, TypeOK, RowType
<1>4. CASE Dispose
    BY <1>4, EndsTyped DEF Dispose
<1> QED BY <1>1, <1>2, <1>3, <1>4 DEF Shutdowns

\* Steps of the daemon that leave the bot and the lifecycle alone.
LEMMA JobsTyped ==
    ASSUME TypeInv,
           \/ Signal \/ WatcherPolls \/ WatcherDies
           \/ Heartbeat \/ BeatLocked \/ IntervalPasses \/ CycleSteps
    PROVE  TypeInv'
<1>0. TypeOK /\ BotTypeOK /\ row \in RowType /\ pid \in 0..Limit["start"]
    BY DEF TypeInv, TypeOK, RowType
<1> USE DEF Heartbeat, CycleSteps, Signal, WatcherPolls, WatcherDies, BeatFires, BeatWrites,
            BeatReads, BeatLaunches, BeatLocked, IntervalPasses, CycleEnds, CycleSeesNoCookie,
            CycleStopsMonitor
<1>1. row' \in RowType
  <2>1. \/ row' = row \/ row' = [row EXCEPT !.monitor = FALSE]
        \/ row' = [row EXCEPT !.pid = pid, !.heartbeat = TRUE]
      BY DEF rowVars, Beaten
  <2> QED BY <1>0, <2>1, RowTypes
<1>2. /\ spent' \in [Kinds -> Nat] /\ \A j \in Kinds : spent'[j] <= Limit[j]
      /\ spent'["start"] = spent["start"]
  <2>1. spent' = spent \/ Spend("signal") \/ Spend("locked")
      BY DEF KeepRest
  <2> QED BY <1>0, <2>1, KindsKnown, SpendType DEF TypeInv, TypeOK
<1>3. /\ watcher' \in {"none", "alive", "dead"} /\ stopEvent' \in BOOLEAN /\ asked' \in BOOLEAN
      /\ beat' \in {"off", "idle", "write", "read", "engine"}
      /\ cycle' \in {"none", "running", "stopping"} /\ due' \in BOOLEAN
  <2>1. CASE Signal \/ WatcherPolls \/ WatcherDies
    <3>1. UNCHANGED <<beat, cycle, due>>
        BY <2>1 DEF KeepButStop
    <3>2. /\ watcher' \in {watcher, "dead"} /\ stopEvent' \in {stopEvent, TRUE}
          /\ asked' \in {asked, TRUE}
        BY <2>1 DEF KeepRest
    <3> QED BY <1>0, <3>1, <3>2 DEF TypeOK
  <2>2. CASE Heartbeat \/ BeatLocked \/ IntervalPasses \/ CycleSteps
    <3>1. UNCHANGED <<watcher, stopEvent, asked>>
        BY <2>2 DEF KeepButBeat, KeepRest
    <3>2. beat' \in {beat, "idle", "write", "read", "engine"}
        BY <2>2 DEF Beat
    <3>3. cycle' \in {cycle, "none", "running", "stopping"} /\ due' \in {due, TRUE, FALSE}
        BY <2>2 DEF Cycle
    <3> HIDE DEF Heartbeat, CycleSteps, BeatFires, BeatWrites, BeatReads, BeatLaunches, BeatLocked,
                 IntervalPasses, CycleEnds, CycleSeesNoCookie, CycleStopsMonitor
    <3> QED BY <1>0, <3>1, <3>2, <3>3 DEF TypeOK
  <2> QED BY <2>1, <2>2
<1>4. UNCHANGED <<degraded, phase, pid, bot, farewell, exit, outlived, usable, client, botVars>>
    BY DEF KeepButStop, KeepButBeat, KeepRest, rowVars
<1>5. BotTypeOK'
    BY <1>0, <1>4 DEF BotTypeOK, botVars
<1>6. /\ degraded' \in BOOLEAN /\ phase' \in Phases /\ pid' \in 0..Limit["start"]
      /\ bot' \in BOOLEAN /\ farewell' \in {"none", "cancelled"} /\ usable' \in BOOLEAN
      /\ exit' \in {"never", "clean", "failed", "crash"} /\ outlived' \in BOOLEAN
      /\ client' \in [Clients -> {"idle", "read"}] /\ pid' = spent'["start"]
    BY <1>0, <1>2, <1>4 DEF TypeInv, TypeOK
<1> HIDE DEF Heartbeat, CycleSteps, Signal, WatcherPolls, WatcherDies, BeatFires, BeatWrites,
             BeatReads, BeatLaunches, BeatLocked, IntervalPasses, CycleEnds, CycleSeesNoCookie,
             CycleStopsMonitor
<1> QED BY <1>1, <1>2, <1>3, <1>5, <1>6 DEF TypeInv, TypeOK, RowType

LEMMA CommandTyped ==
    ASSUME TypeInv, Commands \/ CookieChanges \/ Selfcheck
    PROVE  TypeInv'
<1>0. TypeOK /\ BotTypeOK /\ row \in RowType
    BY DEF TypeInv, TypeOK, RowType
<1> USE DEF Commands, CookieChanges, Selfcheck, DaemonStopReads, DaemonStopWrites,
            StartMonitorReads, StopMonitorReads, SetMonitorRunning
<1>1. row' \in RowType
  <2>1. \/ row' = row \/ row' = [row EXCEPT !.stop = TRUE]
        \/ \E b \in BOOLEAN : row' = [row EXCEPT !.monitor = b]
      BY DEF rowVars
  <2>2. 0 \in 0..Limit["start"]
      BY KindsKnown
  <2> QED BY <1>0, <2>1, <2>2, RowTypes
<1>2. /\ spent' \in [Kinds -> Nat] /\ \A j \in Kinds : spent'[j] <= Limit[j]
      /\ spent'["start"] = spent["start"]
  <2>1. \/ spent' = spent \/ Spend("stop") \/ Spend("monitor") \/ Spend("cookie")
        \/ Spend("selfcheck")
      OBVIOUS
  <2> QED BY <1>0, <2>1, KindsKnown, SpendType DEF TypeInv, TypeOK
<1>3. client' \in [Clients -> {"idle", "read"}]
    BY <1>0 DEF Reads, Writes, TypeOK
<1>4. degraded' \in BOOLEAN /\ usable' \in BOOLEAN /\ asked' \in BOOLEAN
    BY <1>0 DEF rowVars, TypeOK
<1>5. UNCHANGED <<phase, pid, stopEvent, watcher, beat, cycle, due, bot, farewell, exit, outlived,
                botVars>>
    BY DEF processVars
<1>6. BotTypeOK'
    BY <1>0, <1>5 DEF BotTypeOK, botVars
<1> HIDE DEF Commands, CookieChanges, Selfcheck, DaemonStopReads, DaemonStopWrites,
             StartMonitorReads, StopMonitorReads, SetMonitorRunning
<1> QED BY <1>1, <1>2, <1>3, <1>4, <1>5, <1>6 DEF TypeInv, TypeOK, RowType

\* Every variable keeps its type through any starts, stops, crashes and locks,
\* and the bot's stage and supervisor fit who drives it.
THEOREM DaemonTypeCorrect == Spec => []TypeOK
<1>1. TypeInv /\ [Next]_vars => TypeInv'
  <2> SUFFICES ASSUME TypeInv, [Next]_vars PROVE TypeInv'
      OBVIOUS
  <2>1. CASE LockedOut \/ Crash
      BY <2>1, EndsTyped DEF LockedOut, Crash
  <2>2. CASE BotAlone(BotStage) \/ BotAlone(Supervise) \/ BotAlone(TelegramGoes) \/ BotAlone(TelegramReturns)
    <3>1. UNCHANGED <<rowVars, processVars, usable, client, asked, spent>> /\ BotTypeOK
        BY <2>2 DEF BotAlone, TypeInv, TypeOK
    <3>2. BotTypeOK'
        BY <2>2, <3>1, BotStepType, BotOtherType DEF BotAlone
    <3> QED BY <3>1, <3>2 DEF TypeInv, TypeOK, rowVars, processVars
  <2>3. CASE UNCHANGED vars
    <3>1. BotTypeOK'
        BY <2>3 DEF vars, TypeInv, TypeOK, BotTypeOK, botVars
    <3> QED BY <2>3, <3>1 DEF vars, TypeInv, TypeOK, rowVars, processVars
  <2> QED BY <2>1, <2>2, <2>3, StartTyped, StartupTyped, ShutdownTyped, JobsTyped, CommandTyped
          DEF Next
<1>2. TypeInv => TypeOK
    BY DEF TypeInv
<1>3. Init /\ [][Next]_vars => []TypeInv
    BY InitTyped, <1>1, PTL
<1> QED BY <1>2, <1>3, PTL DEF Spec
=============================================================================
