----------------------------- MODULE BotPolling -----------------------------
(***************************************************************************)
(* The life of the Telegram bot inside the daemon: the strict sequences    *)
(* that start and stop it, each stage under a deadline, and the supervisor *)
(* that restarts it after failed health checks (bot/supervision.py,        *)
(* _start_bot in daemon/run.py).  Daemon composes it with the daemon.      *)
(***************************************************************************)
EXTENDS Naturals, Sequences

CONSTANTS
    MaxFailures,   \* polling_healthcheck_max_failures
    Outages,       \* bound: how often Telegram goes away
    StageFaults    \* bound: stages that raise or time out for another reason

ASSUME PollingAssumption ==
    MaxFailures \in Nat \ {0} /\ Outages \in Nat /\ StageFaults \in Nat

VARIABLES
    app,          \* what is up of the telegram application
    telegram,     \* Telegram answers
    driver,       \* who runs a sequence of stages
    stage,        \* the stage it awaits, "none" between sequences
    supervisor,   \* "none", "asleep", "checking" or "restarting"
    failures,     \* _consecutive_failures, counted up to MaxFailures
    spoiled,      \* history: what a failed stage of a stop left up
    outages, stageFaults

botVars == <<app, telegram, driver, stage, supervisor, failures, spoiled, outages, stageFaults>>
spentVars == <<outages, stageFaults>>

Starting == <<"initialize", "start", "start_polling">>
Stopping == <<"updater.stop", "app.stop", "app.shutdown">>
Stages == {Starting[i] : i \in 1..3} \cup {Stopping[i] : i \in 1..3}
Parts == {"client", "initialized", "running", "polling"}
Drivers == {"nobody", "startup", "cleanup", "supervisor", "shutdown"}

BotInit ==
    /\ app = {} /\ telegram = TRUE
    /\ driver = "nobody" /\ stage = "none"
    /\ supervisor = "none" /\ failures = 0
    /\ spoiled = {}
    /\ outages = 0 /\ stageFaults = 0

\* The stage after s in its sequence, "none" after the last.
After(s) ==
    CASE s = "initialize" -> "start" [] s = "start" -> "start_polling"
      [] s = "updater.stop" -> "app.stop" [] s = "app.stop" -> "app.shutdown"
      [] OTHER -> "none"

\* When the library accepts a stage.
Accepts(s) ==
    CASE s = "initialize" -> TRUE
      [] s = "start" -> "initialized" \in app /\ "running" \notin app
      [] s = "start_polling" -> "initialized" \in app /\ "polling" \notin app
      [] s = "updater.stop" -> "polling" \in app
      [] s = "app.stop" -> "running" \in app
      [] s = "app.shutdown" -> app \cap {"running", "polling"} = {}

\* What it leaves up.
Effect(s) ==
    CASE s = "initialize" -> app \cup {"client", "initialized"}
      [] s = "start" -> app \cup {"running"}
      [] s = "start_polling" -> app \cup {"polling"}
      [] s = "updater.stop" -> app \ {"polling"}
      [] s = "app.stop" -> app \ {"running"}
      [] s = "app.shutdown" -> IF "initialized" \in app THEN {} ELSE app

\* What a stage is there to stop.
Stopped(s) ==
    CASE s = "updater.stop" -> {"polling"} [] s = "app.stop" -> {"running"} [] OTHER -> {}

NeedsTelegram(s) == s \in {"initialize", "start_polling"}

\* The awaited stage returns.
Returns == Accepts(stage) /\ app' = Effect(stage) /\ UNCHANGED <<spoiled, stageFaults>>

\* It raises: refused by the library, no answer from Telegram, or its own
\* deadline, in which case it may have taken effect.
Raises ==
    \/ /\ ~Accepts(stage)
       /\ UNCHANGED <<app, spoiled, stageFaults>>
    \/ /\ NeedsTelegram(stage) /\ ~telegram
       /\ app' = IF stage = "initialize" THEN app \cup {"client"} ELSE app
       /\ UNCHANGED <<spoiled, stageFaults>>
    \/ /\ Accepts(stage)
       /\ stageFaults < StageFaults /\ stageFaults' = stageFaults + 1
       /\ app' \in {app, Effect(stage)}
       /\ spoiled' = spoiled \cup (Stopped(stage) \cap app')

\* stop_bot_polling goes on to the next stage whether or not this one raised.
StopStage(who) ==
    /\ driver = who /\ stage \in {Stopping[i] : i \in 1..3}
    /\ Returns \/ Raises

\* A sequence begins.
Begin(who, sequence) == driver' = who /\ stage' = sequence[1]

EndOfSequence == driver' = "nobody" /\ stage' = "none"

(***************************************************************************)
(* The daemon's own use: _start_bot, and stop_bot_polling in the shutdown. *)
(***************************************************************************)
StartBot ==
    /\ driver = "nobody"
    /\ Begin("startup", Starting)
    /\ UNCHANGED <<app, telegram, supervisor, failures, spoiled, spentVars>>

\* After the last stage the supervision loop is created; a failed one is
\* cleaned up after.
StartupStage ==
    /\ driver = "startup"
    /\ \/ /\ Returns
          /\ IF After(stage) = "none" THEN EndOfSequence /\ supervisor' = "asleep"
             ELSE stage' = After(stage) /\ UNCHANGED <<driver, supervisor>>
       \/ Raises /\ Begin("cleanup", Stopping) /\ UNCHANGED supervisor
    /\ UNCHANGED <<telegram, failures, outages>>

StopBot ==
    /\ driver = "nobody"
    /\ Begin("shutdown", Stopping)
    /\ UNCHANGED <<app, telegram, supervisor, failures, spoiled, spentVars>>

\* Mutant: a stage that raises ends the sequence.
TeardownFailsFast ==
    /\ driver \in {"cleanup", "shutdown"}
    /\ \/ StopStage(driver) /\ Returns
          /\ IF After(stage) = "none" THEN EndOfSequence
             ELSE stage' = After(stage) /\ UNCHANGED driver
       \/ StopStage(driver) /\ Raises /\ EndOfSequence
    /\ UNCHANGED <<telegram, supervisor, failures, outages>>

TeardownStage ==
    /\ driver \in {"cleanup", "shutdown"}
    /\ StopStage(driver)
    /\ IF After(stage) = "none" THEN EndOfSequence
       ELSE stage' = After(stage) /\ UNCHANGED driver
    /\ UNCHANGED <<telegram, supervisor, failures, outages>>

\* The drain cancels the supervisor; a stage it awaits may still take effect.
SupervisorCancelled ==
    /\ supervisor' = "none"
    /\ IF driver = "supervisor"
       THEN /\ app' \in IF Accepts(stage) THEN {app, Effect(stage)} ELSE {app}
            /\ EndOfSequence
       ELSE UNCHANGED <<app, driver, stage>>
    /\ UNCHANGED <<telegram, failures, spoiled, spentVars>>

\* The process is gone.
BotGone ==
    /\ app' = {} /\ driver' = "nobody" /\ stage' = "none"
    /\ supervisor' = "none" /\ failures' = 0 /\ spoiled' = {}
    /\ UNCHANGED <<telegram, spentVars>>

(***************************************************************************)
(* The supervisor: sleep, ask getMe, restart after MaxFailures failures.   *)
(***************************************************************************)
SupervisorWakes ==
    /\ supervisor = "asleep" /\ supervisor' = "checking"
    /\ UNCHANGED <<app, telegram, driver, stage, failures, spoiled, spentVars>>

GetMeAnswers == telegram /\ "client" \in app

CheckPasses ==
    /\ supervisor = "checking" /\ GetMeAnswers
    /\ supervisor' = "asleep" /\ failures' = 0
    /\ UNCHANGED <<app, telegram, driver, stage, spoiled, spentVars>>

CheckFails ==
    /\ supervisor = "checking" /\ ~GetMeAnswers
    /\ failures' = IF failures < MaxFailures THEN failures + 1 ELSE failures
    /\ IF failures' = MaxFailures
       THEN supervisor' = "restarting" /\ Begin("supervisor", Stopping)
       ELSE supervisor' = "asleep" /\ UNCHANGED <<driver, stage>>
    /\ UNCHANGED <<app, telegram, spoiled, spentVars>>

RestartStops ==
    /\ StopStage("supervisor")
    /\ stage' = IF After(stage) = "none" THEN "initialize" ELSE After(stage)
    /\ UNCHANGED <<telegram, driver, supervisor, failures, outages>>

\* Mutant: the loop ends with a restart that fails.
RestartGivesUp ==
    /\ driver = "supervisor" /\ stage \in {Starting[i] : i \in 1..3}
    /\ \/ /\ Returns
          /\ IF After(stage) = "none"
             THEN EndOfSequence /\ supervisor' = "asleep" /\ failures' = 0
             ELSE stage' = After(stage) /\ UNCHANGED <<driver, supervisor, failures>>
       \/ Raises /\ EndOfSequence /\ supervisor' = "none" /\ UNCHANGED failures
    /\ UNCHANGED <<telegram, outages>>

\* Success resets the counter; a failure leaves it for the next cycle.
RestartStarts ==
    /\ driver = "supervisor" /\ stage \in {Starting[i] : i \in 1..3}
    /\ \/ /\ Returns
          /\ IF After(stage) = "none"
             THEN EndOfSequence /\ supervisor' = "asleep" /\ failures' = 0
             ELSE stage' = After(stage) /\ UNCHANGED <<driver, supervisor, failures>>
       \/ Raises /\ EndOfSequence /\ supervisor' = "asleep" /\ UNCHANGED failures
    /\ UNCHANGED <<telegram, outages>>

TelegramGoes ==
    /\ telegram /\ outages < Outages
    /\ outages' = outages + 1 /\ telegram' = FALSE
    /\ UNCHANGED <<app, driver, stage, supervisor, failures, spoiled, stageFaults>>

TelegramReturns ==
    /\ ~telegram /\ telegram' = TRUE
    /\ UNCHANGED <<app, driver, stage, supervisor, failures, spoiled, spentVars>>

Supervise ==
    \/ SupervisorWakes \/ CheckPasses \/ CheckFails \/ RestartStops \/ RestartStarts

BotStage == StartupStage \/ TeardownStage

BotTypeOK ==
    /\ app \subseteq Parts /\ telegram \in BOOLEAN
    /\ driver \in Drivers /\ stage \in Stages \cup {"none"}
    /\ driver = "nobody" <=> stage = "none"
    /\ supervisor \in {"none", "asleep", "checking", "restarting"}
    /\ driver = "supervisor" <=> supervisor = "restarting"
    /\ failures \in 0..MaxFailures
    /\ spoiled \subseteq {"running", "polling"}
    /\ outages \in 0..Outages /\ stageFaults \in 0..StageFaults
=============================================================================
