SPECIFICATION ProfileSpec
CONSTANTS
    Ids = {"v", "p"}
    PhotoPosts = {"p"}
    Writers = {"monitor", "backfill"}
    LastAttempt = 2
    Limit <- MCMost
INVARIANTS
    BytesMatch
    SkippedStaysArchived
    DownloadedIsIntact
PROPERTIES
    TerminalIsFinal
    EveryVideoSettlesThere
    RetryConvergesAlone
