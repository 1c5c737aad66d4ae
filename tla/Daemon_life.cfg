SPECIFICATION MCSpec
CONSTANTS
    MaxFailures = 2
    Outages = 1
    StageFaults = 1
    Autostart = TRUE
    BotToken = TRUE
    Kinds <- MCKinds
    Limit <- MCTwice
    Troubles = 3
INVARIANT StopWasAsked
INVARIANT CleanRow
INVARIANT BotStaysDown
PROPERTY StopHonoured
PROPERTY MonitorRuns
PROPERTY RestartKeepsTrying
CHECK_DEADLOCK FALSE
