SPECIFICATION Spec
CONSTANTS
    MaxVideos = 4
    Day <- FeedDays
    Threshold = 2
    Limit <- LimitWalk
INVARIANT DoneWithinOutcomes
INVARIANT CursorOnOutcome
PROPERTY CompletionCovers
CHECK_DEADLOCK FALSE
