SPECIFICATION ProfileSpec
CONSTANTS
    Accounts = {1, 2}
    Flagged = {1}
    DaemonRuns = {d1, d2}
    CliRuns = {c1}
    d1 = d1
    d2 = d2
    c1 = c1
    NoOwner = NoOwner
    CollectOwner = CollectOwner
    MaxEntries = 1
    Autostart = FALSE
    SlowBeat = TRUE
    DoubleFaults = FALSE
    Limit <- LimitLive
PROPERTY QueuedStartsUncrashed
PROPERTY BackfillingEnds
PROPERTY TransitionSurvives
PROPERTY ResolvedPauseResumes
