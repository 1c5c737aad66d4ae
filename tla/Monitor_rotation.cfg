SPECIFICATION MCSpec
CONSTANTS
    Files = {"f", "g"}
    Jobs <- MCJobs
    Removals = 1
    Threshold = 2
    Accounts = {"ann", "bob"}
    Videos = {1, 2}
    Author <- MCAuthor
    Window = 2
    Broken = {"bob"}
    Kinds <- MCKinds
    Limit <- MCLimit
PROPERTY EngineIsWorkingCookie
CHECK_DEADLOCK FALSE
