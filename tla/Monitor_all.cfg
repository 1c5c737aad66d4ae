SPECIFICATION MCSpec
CONSTANTS
    Files = {"f", "g"}
    Jobs <- MCJobs
    Removals = 1
    Threshold = 2
    Accounts = {"ann", "bob"}
    Videos = {1, 2}
    Author <- MCAuthor
    Window = 2
    Broken = {"bob"}
    Kinds <- MCKinds
    Limit <- MCLimit
INVARIANT InvalidWasAnswered
INVARIANT NoOrphanVideos
INVARIANT BlipHarmless
PROPERTY CompletedCheckStored
PROPERTY EngineFollowsHere
PROPERTY FeedSettles
PROPERTY RefreshIsolatedHere
PROPERTY PauseFollowsDisk
CHECK_DEADLOCK FALSE
