SPECIFICATION Spec
CONSTANTS
    Accounts = {1, 2}
    Flagged = {1}
    DaemonRuns = {d1, d2}
    CliRuns = {c1}
    d1 = d1
    d2 = d2
    c1 = c1
    NoOwner = NoOwner
    CollectOwner = CollectOwner
    MaxEntries = 1
    Autostart = FALSE
    SlowBeat = FALSE
    DoubleFaults = FALSE
    Limit <- LimitOrderly
INVARIANT BackfillingOwnsSlot
INVARIANT BackfillingHasRun
SYMMETRY TaskSymmetry
PROPERTY OneAtATime
