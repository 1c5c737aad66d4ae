SPECIFICATION Spec
CONSTANTS
    Ids = {1, 2}
    Processes = {"daemon", "cli"}
    Workers = {"d1", "d2", "cli"}
    Process <- ProcessOf
    Inodes = {1, 2, 3, 4, 5, 6}
    MaxAdds = 4
    MaxStarts = 3
    Manners = {"turns", "appends"}
    TornStaging = FALSE
INVARIANT SettledSurvive
PROPERTY ImplementsSet
CHECK_DEADLOCK FALSE
