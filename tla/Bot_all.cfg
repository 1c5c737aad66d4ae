SPECIFICATION MCSpec
CONSTANTS
    Users = {"u", "v"}
    Allowed = {"u"}
    Throttle = 2
    BurstWindow = 3
    BurstLimit = 2
    Ttl = 1
    PageSize = 2
    Accounts <- MCAccounts
    Attempts = 3
    Faults = 2
    Outside = 1
INVARIANT ReportIsTrue
INVARIANT CookieFileHandled
INVARIANT WalkShowsAll
PROPERTY ThrottleIsTheirs
